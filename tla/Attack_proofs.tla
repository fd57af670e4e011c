---------------------------- MODULE Attack_proofs ----------------------------
(***************************************************************************)
(* What a test run concludes, for any plan of rotations, any bytes drawn   *)
(* and any number of answers that come too late: a control run claims      *)
(* nothing of the guest, isolation is granted to a device that keeps its   *)
(* idle rates per interface only, a report is never taken for another      *)
(* rotation's, and a genuine device is awarded the highest rung.           *)
(***************************************************************************)
EXTENDS Attack, FiniteSetTheorems, WellFoundedInduction, TLAPS

Pcs == {"enumerate", "class", "press", "key", "rotate", "turning",
        "interfaces", "swap", "malformed", "recover", "log", "whoami",
        "verdict", "over", "raised"}

Causes == Rotations \cup {Key, Release.of}
Frames == Rotations \cup {Key, Release.frame}
Reports == [of : Causes, frame : Frames]

(* An idle rate is a byte that was set, or none.                          *)
Rates == {0} \cup Bytes

RunType ==
  run \in [pc : Pcs, control : BOOLEAN, passed : SUBSET (Checks \cup Notes),
           sent : [Interfaces -> Rates], plan : SUBSET Rotations,
           turning : Rotations \cup {Nothing}, reports : Seq(Reports),
           missed : BOOLEAN, lost : Nat, rung : 0 .. 8]

Guests ==
  [alive : BOOLEAN, store : Stores, handler : Handlers, keys : BOOLEAN,
   idle : [Interfaces -> Rates], owed : SUBSET (Rotations \cup {Key}),
   hurt : SUBSET {"idle", "protocol"}]

GuestType == guest \in Guests

TypeOK == RunType /\ GuestType

(* A report carries what has caused it, or nothing.                        *)
ReportsHonest ==
  /\ \A n \in DOMAIN run.reports :
       run.reports[n].frame \in {run.reports[n].of, Release.frame}
  /\ run.pc = "turning" => run.turning \in Rotations

(* A control run hears nothing, so that its first rotation is a miss.      *)
ControlSilent ==
  run.control =>
    /\ run.passed \cap (Claims \cup {"inventory"}) = {}
    /\ run.reports = <<>>
    /\ run.pc = "rotate" => run.missed \/ run.plan # {}

Early == {"enumerate", "class", "press", "key", "rotate", "turning", "interfaces"}

Unswapped == Early \cup {"swap"}

(* At the isolation test, interface 0 has answered the byte it was sent:   *)
(* a device that repeats its first answers can answer no other.            *)
StoreTells ==
  /\ run.pc \in Early => "stored0" \notin run.passed
  /\ run.pc = "swap" /\ {"inventory", "stored0"} \subseteq run.passed
       => guest.idle[0] = run.sent[0] /\ run.sent[0] \in Bytes
  /\ "per_interface" \in run.passed => guest.store = "per_interface"

-----------------------------------------------------------------------------
(* A genuine device's run *)

Stage(pc) ==
  CASE pc \in {"enumerate", "raised"} -> 0
    [] pc = "class" -> 1
    [] pc = "press" -> 2
    [] pc = "key" -> 3
    [] pc \in {"rotate", "turning"} -> 4
    [] pc = "interfaces" -> 5
    [] pc = "swap" -> 6
    [] pc = "malformed" -> 7
    [] pc = "recover" -> 8
    [] pc = "log" -> 9
    [] pc = "whoami" -> 10
    [] pc = "verdict" -> 11
    [] pc = "over" -> 12

Genuine ==
  /\ ~run.control /\ ~guest.keys /\ guest.store = "per_interface"
  /\ guest.handler = "as_declared" /\ run.lost = 0 /\ ~run.missed
  /\ "serial" \in run.passed

Greeting == {"port_free", "greeted", "bound"}
Enumerated == {"booted", "inventory", "descriptors", "configured", "serial"}
ClassDone == {"protocol", "idle", "refusals"}
FacesDone == {"stored0", "stored2", "iface0", "iface1", "iface2"}

(* The rotations that have been graded.                                    *)
Graded == Rotations \ (run.plan \cup
             (IF run.pc = "turning" THEN {run.turning} ELSE {}))

(* What stage n must have passed of a genuine device's run.                *)
Due(n, passed, hurt) ==
  << Enumerated, ClassDone, {}, {"inert"}, {"rotations"}, FacesDone,
     IF "distinct_before" \in passed THEN {"per_interface"} ELSE {},
     {"adversarial"}, IF hurt = {} THEN {"recovered"} ELSE {}, {"quiet"},
     {"rechallenged", "image"}, {} >>[n]

Earns ==
  \A n \in 1 .. 12 : n <= Stage(run.pc) => Due(n, run.passed, guest.hurt) \subseteq run.passed

(* Each rotation that was matched has shown its endpoint.                  *)
Heard ==
  /\ run.pc \in {"rotate", "turning"} =>
       \A o \in Graded : Endpoint(o) \subseteq run.passed
  /\ run.pc = "interfaces" => {"ep1", "ep2"} \subseteq run.passed

GenuineEarns == Genuine => Earns /\ Heard

(* Interface 1 of a device that keeps its rates per interface stores none; *)
(* an empty keymap owes nothing to the key; the bytes are known to differ  *)
(* only once they have been swapped.                                       *)
Ledger ==
  /\ Greeting \subseteq run.passed
  /\ run.pc = "enumerate" => "serial" \notin run.passed
  /\ run.pc \in Unswapped => "distinct_before" \notin run.passed
  /\ guest.store = "per_interface" => guest.idle[1] = 0 /\ "stored1" \notin run.passed
  /\ run.pc = "key" /\ ~guest.keys =>
       /\ guest.owed = {}
       /\ \A n \in DOMAIN run.reports : run.reports[n].frame = Release.frame
  /\ run.pc = "over" => run.rung = Rung(run.passed)

-----------------------------------------------------------------------------
(* The operators *)

(* Losing an answer costs: a batch that lost none leaves the count alone.  *)
LEMMA LossIs ==
  ASSUME TypeOK, NEW names, IsFiniteSet(names), NEW lost \in Losable(names)
  PROVE  /\ lost \subseteq names /\ run.lost + Cardinality(lost) \in Nat
         /\ run.lost + Cardinality(lost) = 0 => run.lost = 0 /\ lost = {}
<1>1. lost \in SUBSET names /\ run.lost \in Nat
  BY DEF Losable, TypeOK, RunType
<1>2. IsFiniteSet(lost)
  BY <1>1, FS_Subset
<1>3. Cardinality(lost) \in Nat
  BY <1>2, FS_CardinalityType
<1>4. Cardinality(lost) = 0 => lost = {}
  BY <1>2, FS_EmptySet
<1> QED
  BY <1>1, <1>3, <1>4

(* The names of a batch are few. *)
LEMMA FewNames ==
  /\ \A a : IsFiniteSet({a})
  /\ IsFiniteSet({"protocol", "idle", "refusals"}) /\ IsFiniteSet(Interfaces)
  /\ Cardinality(Interfaces) = 3
<1>1. \A a : IsFiniteSet({a})
  BY FS_Singleton
<1>2. IsFiniteSet({"protocol"} \cup {"idle"})
  BY <1>1, FS_AddElement
<1>3. IsFiniteSet(({"protocol"} \cup {"idle"}) \cup {"refusals"})
  BY <1>2, FS_AddElement
<1>4. {"protocol", "idle", "refusals"} = ({"protocol"} \cup {"idle"}) \cup {"refusals"}
  OBVIOUS
<1>5. IsFiniteSet(0 .. 2) /\ Cardinality(0 .. 2) = 3
  <2>1. /\ IsFiniteSet(0 .. 2)
        /\ Cardinality(0 .. 2) = IF 0 > 2 THEN 0 ELSE 2 - 0 + 1
    <3>1. 0 \in Int /\ 2 \in Int
      OBVIOUS
    <3> QED
      BY <3>1, FS_Interval, Zenon
  <2> QED
    BY <2>1
<1> QED
  BY <1>1, <1>3, <1>4, <1>5 DEF Interfaces

(* A set of numbers has a least member.                                    *)
LEMMA NatHasMin ==
  ASSUME NEW T, T \subseteq Nat, T # {}
  PROVE  /\ Min(T) \in T
         /\ \A n \in T : Min(T) <= n
<1> DEFINE R == OpToRel(<, Nat)
<1>1. IsWellFoundedOn(R, Nat)
  BY NatLessThanWellFounded
<1>2. \A n, m \in Nat : n < m => <<n, m>> \in R
  BY DEF OpToRel
<1> HIDE DEF R
<1>3. PICK m \in T : \A n \in T : ~ (<<n, m>> \in R)
  BY <1>1, WFMin
<1>4. ASSUME NEW n \in T PROVE m <= n
  <2>1. n \in Nat /\ m \in Nat
    OBVIOUS
  <2>2. ~ (n < m)
    BY <1>2, <1>3, <2>1, Zenon
  <2> QED
    BY <2>1, <2>2
<1> QED
  BY <1>4 DEF Min

(* _first_press returns a report that carries something, if there is one.  *)
LEMMA FirstPressIs ==
  ASSUME NEW reports \in Seq(Reports)
  PROVE  \/ /\ FirstPress(reports) = Nothing
            /\ \A n \in DOMAIN reports : reports[n].frame = Release.frame
         \/ \E n \in DOMAIN reports :
              /\ reports[n].frame # Release.frame
              /\ FirstPress(reports) = reports[n].frame
<1> DEFINE I == {i \in 1 .. Len(reports) : reports[i].frame # Release.frame}
<1>1. I \subseteq Nat /\ DOMAIN reports = 1 .. Len(reports)
  OBVIOUS
<1>2. CASE I = {}
  <2>1. FirstPress(reports) = Nothing
    BY <1>2 DEF FirstPress, SelectInSeq
  <2> QED
    BY <1>1, <1>2, <2>1
<1>3. CASE I # {}
  <2>1. Min(I) \in I
    BY <1>1, <1>3, NatHasMin
  <2>2. FirstPress(reports) = reports[Min(I)].frame
    BY <1>3, <2>1 DEF FirstPress, SelectInSeq
  <2> QED
    BY <1>1, <2>1, <2>2
<1> QED
  BY <1>2, <1>3

(* A byte that is drawn is a rate, and is not the rate of nobody.          *)
LEMMA RatesAre == 0 \in Rates /\ \A b \in Bytes : b \in Rates /\ b # 0
  BY AttackAssumption DEF Rates

(* SET_IDLE changes the rates and nothing else of the device.              *)
LEMMA SetIdleIs ==
  ASSUME NEW d \in Guests,
         NEW i \in Interfaces, NEW v \in Rates
  PROVE  /\ SetIdle(d, i, v) \in Guests
         /\ \A f \in {"alive", "store", "handler", "keys", "owed", "hurt"} :
              SetIdle(d, i, v)[f] = d[f]
<1> QED
  BY DEF SetIdle, Stores, Guests

(* So do three of them.                                                    *)
LEMMA SetAllIs ==
  ASSUME TypeOK, NEW sent \in [Interfaces -> Bytes]
  PROVE  /\ SetAll(guest, sent) \in Guests
         /\ \A f \in {"alive", "store", "handler", "keys", "owed", "hurt"} :
              SetAll(guest, sent)[f] = guest[f]
<1>1. /\ 0 \in Interfaces /\ 1 \in Interfaces /\ 2 \in Interfaces
      /\ \A i \in {0, 1, 2} : sent[i] \in Rates
  BY RatesAre DEF Interfaces
<1> DEFINE d == SetIdle(guest, 0, sent[0])
           f == SetIdle(d, 1, sent[1])
<1>2. guest \in Guests
  BY DEF TypeOK, GuestType
<1>3. /\ d \in Guests
      /\ \A k \in {"alive", "store", "handler", "keys", "owed", "hurt"} : d[k] = guest[k]
  BY <1>1, <1>2, SetIdleIs
<1> HIDE DEF d
<1>4. /\ f \in Guests
      /\ \A k \in {"alive", "store", "handler", "keys", "owed", "hurt"} : f[k] = d[k]
  BY <1>1, <1>3, SetIdleIs
<1> HIDE DEF f
<1>5. /\ SetIdle(f, 2, sent[2]) \in Guests
      /\ \A k \in {"alive", "store", "handler", "keys", "owed", "hurt"} :
           SetIdle(f, 2, sent[2])[k] = f[k]
  BY <1>1, <1>4, SetIdleIs
<1>6. SetAll(guest, sent) = SetIdle(f, 2, sent[2])
  BY DEF SetAll, d, f
<1> QED
  BY <1>3, <1>4, <1>5, <1>6

(* And the two of the swap.                                                *)
LEMMA SwapIs ==
  ASSUME TypeOK, NEW a \in Rates, NEW b \in Bytes
  PROVE  /\ SetIdle(SetIdle(guest, 0, b), 2, a) \in Guests
         /\ \A f \in {"alive", "store", "handler", "keys", "owed", "hurt"} :
              SetIdle(SetIdle(guest, 0, b), 2, a)[f] = guest[f]
<1>1. 0 \in Interfaces /\ 2 \in Interfaces /\ b \in Rates
  BY RatesAre DEF Interfaces
<1> DEFINE d == SetIdle(guest, 0, b)
<1>2. guest \in Guests
  BY DEF TypeOK, GuestType
<1>3. /\ d \in Guests
      /\ \A k \in {"alive", "store", "handler", "keys", "owed", "hurt"} : d[k] = guest[k]
  BY <1>1, <1>2, SetIdleIs
<1> HIDE DEF d
<1>4. /\ SetIdle(d, 2, a) \in Guests
      /\ \A k \in {"alive", "store", "handler", "keys", "owed", "hurt"} :
           SetIdle(d, 2, a)[k] = d[k]
  BY <1>1, <1>3, SetIdleIs
<1> QED
  BY <1>3, <1>4 DEF d

(* The names of the interfaces' notes.                                     *)
LEMMA Names ==
  /\ Stored(0) = "stored0" /\ Stored(1) = "stored1" /\ Stored(2) = "stored2"
  /\ Iface(0) = "iface0" /\ Iface(1) = "iface1" /\ Iface(2) = "iface2"
  /\ Interfaces = {0, 1, 2}
  BY DEF Stored, Iface, Interfaces

-----------------------------------------------------------------------------
(* Types *)

(* A run begins well typed.                                                *)
LEMMA InitType == Init => TypeOK
<1> SUFFICES ASSUME Init PROVE TypeOK
  OBVIOUS
<1>1. <<>> \in Seq(Reports)
  OBVIOUS
<1>2. [i \in Interfaces |-> 0] \in [Interfaces -> Rates]
  BY RatesAre
<1>3. {"port_free", "greeted", "bound"} \subseteq Checks \cup Notes
  BY DEF Checks
<1>4. RunType
  <2>1. {} \subseteq Rotations /\ Nothing \in Rotations \cup {Nothing}
        /\ "enumerate" \in Pcs /\ 0 \in 0 .. 8
    BY DEF Pcs
  <2>2. PICK control \in BOOLEAN :
       run = [pc |-> "enumerate", control |-> control,
              passed |-> {"port_free", "greeted", "bound"},
              sent |-> [i \in Interfaces |-> 0], plan |-> {},
              turning |-> Nothing, reports |-> <<>>, missed |-> FALSE,
              lost |-> 0, rung |-> 0]
    BY DEF Init
  <2> QED
    BY <1>1, <1>2, <1>3, <2>1, <2>2 DEF RunType
<1>5. GuestType
  <2>1. PICK store \in Stores, handler \in Handlers, keys \in BOOLEAN :
          guest = [alive |-> TRUE, store |-> store, handler |-> handler,
                   keys |-> keys, idle |-> [i \in Interfaces |-> 0],
                   owed |-> {}, hurt |-> {}]
    BY DEF Init
  <2> QED
    BY <1>2, <2>1 DEF GuestType, Guests
<1> QED
  BY <1>4, <1>5 DEF TypeOK

(* A batch that is graded leaves the run well typed.                       *)
LEMMA PassType ==
  ASSUME TypeOK, NEW pc \in Pcs, NEW names \in SUBSET (Checks \cup Notes),
         NEW all, IsFiniteSet(all), NEW lost \in Losable(all), Pass(pc, names, lost)
  PROVE  RunType'
<1>1. run.lost + Cardinality(lost) \in Nat
  BY LossIs
<1> QED
  BY <1>1 DEF TypeOK, RunType, Pass

(* Every step keeps the types.                                             *)
LEMMA NextType == TypeOK /\ [Next]_vars => TypeOK'
<1> SUFFICES ASSUME TypeOK, [Next]_vars PROVE TypeOK'
  OBVIOUS
<1> USE DEF TypeOK
<1>1. CASE Enumerate
  <2>1. PICK got \in EnumerationPrefixes : Pass("class", got, {})
    BY <1>1 DEF Enumerate
  <2>2. got \subseteq Checks \cup Notes
    BY DEF EnumerationPrefixes, Checks, Notes
  <2> DEFINE loss == run.lost + Cardinality({})
  <2>3. loss \in Nat
    BY FS_EmptySet DEF RunType
  <2>4. run' = [run EXCEPT !.pc = "class", !.passed = @ \cup (got \ {}),
                           !.lost = loss]
    BY <2>1 DEF Pass
  <2> HIDE DEF loss
  <2>5. RunType'
    BY <2>2, <2>3, <2>4 DEF RunType, Pcs
  <2> QED
    BY <1>1, <2>5 DEF Enumerate, GuestType, Guests
<1>2. CASE ClassRequests
  <2>1. PICK bits \in [1 .. 2 -> {0, 1}], v \in Bytes,
             lost \in Losable({"protocol", "idle", "refusals"}) :
       LET d == SetIdle(guest, 0, v)
           good == If(\A n \in 1 .. 2 : ProtocolAnswer(d, bits, n) = bits[n],
                      "protocol")
                   \cup If(d.idle[0] = v, "idle") \cup {"refusals"}
       IN IF run.control
          THEN UNCHANGED guest /\ Goto("press")
          ELSE guest' = d /\ Pass("press", good, lost)
    BY <1>2 DEF ClassRequests
  <2> DEFINE d == SetIdle(guest, 0, v)
             good == If(\A n \in 1 .. 2 : ProtocolAnswer(d, bits, n) = bits[n],
                        "protocol")
                     \cup If(d.idle[0] = v, "idle") \cup {"refusals"}
  <2>2. GuestType'
    <3>1. 0 \in Interfaces /\ v \in Rates /\ guest \in Guests
      BY RatesAre DEF Interfaces, GuestType
    <3>2. SetIdle(guest, 0, v) \in Guests
      BY <3>1, SetIdleIs
    <3>3. guest' = guest \/ guest' = SetIdle(guest, 0, v)
      BY <2>1, Zenon
    <3> QED
      BY <3>1, <3>2, <3>3 DEF GuestType
  <2>3. good \subseteq Checks \cup Notes
    BY DEF If, Checks, Notes
  <2>4. CASE run.control
    BY <2>1, <2>2, <2>4 DEF Goto, RunType, Pcs
  <2>5. CASE ~run.control
    <3>1. Pass("press", good, lost)
      BY <2>1, <2>5
    <3>2. "press" \in Pcs
      BY DEF Pcs
    <3> HIDE DEF good
    <3>3. RunType'
      BY <2>3, <3>1, <3>2, FewNames, PassType
    <3> QED
      BY <2>2, <3>3
  <2> QED
    BY <2>4, <2>5
<1>3. CASE PressKey
  <2>1. "key" \in Pcs /\ <<>> \in Seq(Reports)
    BY DEF Pcs
  <2>2. RunType'
    BY <1>3, <2>1 DEF PressKey, RunType
  <2> DEFINE due == If(guest.keys, Key)
  <2>3. due \subseteq Rotations \cup {Key} /\ guest' = [guest EXCEPT !.owed = due]
    BY <1>3 DEF If, PressKey
  <2> HIDE DEF due
  <2>4. GuestType'
    BY <2>3 DEF GuestType, Guests
  <2> QED
    BY <2>2, <2>4
<1>4. CASE KeyReleased
  <2> DEFINE new == If(FirstPress(run.reports) = Nothing /\ ~run.control, "inert")
  <2>1. new \subseteq Checks \cup Notes
    BY DEF Checks, If
  <2>2. UNCHANGED guest
        /\ run' = [run EXCEPT !.pc = "rotate", !.plan = Rotations,
                     !.reports = <<>>, !.passed = @ \cup new]
    BY <1>4, Zenon DEF KeyReleased
  <2> HIDE DEF new
  <2>3. "rotate" \in Pcs /\ <<>> \in Seq(Reports)
    BY DEF Pcs
  <2>4. RunType'
    BY <2>1, <2>2, <2>3 DEF RunType
  <2> QED
    BY <2>2, <2>4 DEF GuestType, Guests
<1>5. CASE Turn
  <2>1. PICK o \in run.plan :
       /\ run' = [run EXCEPT !.pc = "turning", !.plan = @ \ {o},
                             !.turning = o, !.reports = <<>>]
       /\ guest' = [guest EXCEPT !.owed = @ \cup {o}]
    BY <1>5 DEF Turn
  <2>2. "turning" \in Pcs /\ <<>> \in Seq(Reports) /\ o \in Rotations
    BY DEF Pcs, RunType
  <2>3. RunType'
    BY <2>1, <2>2 DEF RunType
  <2>4. GuestType'
    BY <2>1, <2>2 DEF GuestType, Guests
  <2> QED
    BY <2>3, <2>4
<1>6. CASE Turned
  <2> DEFINE new == Endpoint(FirstPress(run.reports))
             miss == run.missed \/ ~Matches
  <2>1. new \subseteq Checks \cup Notes
    BY DEF Endpoint, Notes
  <2>2. miss \in BOOLEAN
    OBVIOUS
  <2>3. "rotate" \in Pcs /\ <<>> \in Seq(Reports) /\ UNCHANGED guest
        /\ run' = [run EXCEPT !.pc = "rotate", !.reports = <<>>,
                     !.missed = miss, !.passed = @ \cup new]
    BY <1>6 DEF Turned, Pcs
  <2> HIDE DEF new, miss
  <2>4. RunType'
    BY <2>1, <2>2, <2>3 DEF RunType
  <2> QED
    BY <2>3, <2>4 DEF GuestType, Guests
<1>7. CASE Rotated
  <2> DEFINE new == If(~run.missed, "rotations")
  <2>1. new \subseteq Checks \cup Notes
    BY DEF Checks, If
  <2>2. /\ run' = [run EXCEPT !.pc = "interfaces", !.turning = Nothing,
                     !.passed = @ \cup new]
        /\ guest' = [guest EXCEPT !.owed = {}]
    BY <1>7, Zenon DEF Rotated
  <2> HIDE DEF new
  <2>3. RunType'
    BY <2>1, <2>2 DEF RunType, Pcs
  <2>4. GuestType'
    BY <2>2 DEF GuestType, Guests
  <2> QED
    BY <2>3, <2>4
<1>8. CASE AskInterfaces
  <2>1. CASE "inventory" \notin run.passed
    BY <1>8, <2>1 DEF AskInterfaces, Goto, RunType, GuestType, Guests, Pcs
  <2>2. CASE "inventory" \in run.passed
    <3>1. PICK sent \in [Interfaces -> Bytes], lost \in Losable(Interfaces) :
            LET d == SetAll(guest, sent)
                stored == {i \in Interfaces \ lost : d.idle[i] = sent[i]}
                extra == {i \in Interfaces :
                            CASE i = 0 -> {"protocol", "ep1"} \subseteq run.passed
                              [] i = 1 -> "ep2" \in run.passed
                              [] i = 2 -> 2 \in stored}
            IN /\ guest' = d
               /\ run' = [run EXCEPT !.pc = "swap", !.sent = sent,
                            !.lost = @ + Cardinality(lost),
                            !.passed = (@ \ {"ep1", "ep2"})
                              \cup {Stored(i) : i \in stored}
                              \cup {Iface(i) : i \in Met(guest.handler) \cap extra}]
      BY <1>8, <2>2 DEF AskInterfaces
    <3>2. GuestType'
      BY <3>1, SetAllIs DEF GuestType
    <3>3. \A i \in Interfaces : Stored(i) \in Notes /\ Iface(i) \in Notes
      BY Names DEF Notes
    <3>4. Met(guest.handler) \subseteq Interfaces
      <4>1. guest.handler \in Handlers
        BY DEF GuestType, Guests
      <4> QED
        BY <4>1, Names DEF Met, Handlers
    <3>5. run.lost + Cardinality(lost) \in Nat
      BY FewNames, LossIs
    <3> DEFINE d == SetAll(guest, sent)
               stored == {i \in Interfaces \ lost : d.idle[i] = sent[i]}
               extra == {i \in Interfaces :
                            CASE i = 0 -> {"protocol", "ep1"} \subseteq run.passed
                              [] i = 1 -> "ep2" \in run.passed
                              [] i = 2 -> 2 \in stored}
               new == (run.passed \ {"ep1", "ep2"})
                              \cup {Stored(i) : i \in stored}
                              \cup {Iface(i) : i \in Met(guest.handler) \cap extra}
               loss == run.lost + Cardinality(lost)
    <3>6. run' = [run EXCEPT !.pc = "swap", !.sent = sent, !.lost = loss,
                             !.passed = new]
      BY <3>1
    <3>7. new \subseteq Checks \cup Notes
      <4>1. run.passed \subseteq Checks \cup Notes
        BY DEF RunType
      <4>2. stored \subseteq Interfaces
        OBVIOUS
      <4> HIDE DEF stored, extra
      <4> QED
        BY <3>3, <3>4, <4>1, <4>2
    <3> HIDE DEF new, loss
    <3>8. loss \in Nat
      BY <3>5 DEF loss
    <3>9. sent \in [Interfaces -> Rates]
      BY RatesAre
    <3>10. RunType'
      BY <3>6, <3>7, <3>8, <3>9 DEF RunType, Pcs
    <3> QED
      BY <3>2, <3>10
  <2> QED
    BY <2>1, <2>2
<1>9. CASE Swap
  <2>1. CASE "inventory" \notin run.passed
    BY <1>9, <2>1 DEF Swap, Goto, RunType, GuestType, Guests, Pcs
  <2>2. CASE "inventory" \in run.passed
    <3>1. PICK b \in Bytes, lost \in Losable({"per_interface"}) :
            LET a == run.sent[0]
                d == SetIdle(SetIdle(guest, 0, b), 2, a)
                differed == /\ {"stored0", "stored2"} \subseteq run.passed
                            /\ a # run.sent[2]
            IN /\ IF a = run.sent[2] THEN b # a ELSE b = run.sent[2]
               /\ guest' = d
               /\ run' = [run EXCEPT
                            !.pc = "malformed", !.sent = [i \in Interfaces |-> 0],
                            !.lost = @ + Cardinality(lost),
                            !.passed = @ \cup
                              If(differed, "distinct_before") \cup
                              (If(differed /\ FollowedSwap(d, a, b),
                                  "per_interface") \ lost)]
      BY <1>9, <2>2 DEF Swap
    <3>0. run.sent[0] \in Rates
      <4>1. run.sent \in [Interfaces -> Rates]
        BY DEF RunType
      <4>2. 0 \in Interfaces
        BY Names, Zenon
      <4> QED
        BY <4>1, <4>2
    <3>2. GuestType'
      BY <3>1, <3>0, SwapIs DEF GuestType
    <3>3. {"distinct_before", "per_interface"} \subseteq Checks \cup Notes
      BY DEF Checks, Notes
    <3>4. run.lost + Cardinality(lost) \in Nat
      BY FewNames, LossIs
    <3>5. [i \in Interfaces |-> 0] \in [Interfaces -> Rates]
      BY RatesAre
    <3>6. RunType'
      BY <3>1, <3>3, <3>4, <3>5 DEF RunType, Pcs, If
    <3> QED
      BY <3>2, <3>6
  <2> QED
    BY <2>1, <2>2
<1>10. CASE Malformed
  <2>1. PICK hurt \in SUBSET {"idle", "protocol"}, lost \in Losable({"adversarial"}) :
          IF run.control THEN UNCHANGED guest /\ Goto("recover")
          ELSE /\ guest' = [guest EXCEPT !.hurt = hurt]
               /\ Pass("recover", {"adversarial"}, lost)
    BY <1>10 DEF Malformed
  <2>2. {"adversarial"} \subseteq Checks \cup Notes /\ "recover" \in Pcs
    BY DEF Notes, Pcs
  <2>3. GuestType'
    BY <2>1 DEF GuestType, Guests
  <2>4. CASE run.control
    BY <2>1, <2>2, <2>3, <2>4 DEF Goto, RunType
  <2>5. CASE ~run.control
    BY <2>1, <2>2, <2>3, <2>5, FewNames, PassType
  <2> QED
    BY <2>4, <2>5
<1>11. CASE Recover
  <2>1. CASE "inventory" \notin run.passed
    BY <1>11, <2>1 DEF Recover, Goto, RunType, GuestType, Guests, Pcs
  <2>2. CASE "inventory" \in run.passed
    <3>1. PICK fresh \in [Interfaces -> Bytes], lost \in Losable(Interfaces) :
            LET d == SetAll(guest, fresh)
                storing == {i \in Interfaces : Stored(i) \in run.passed}
            IN /\ guest' = [guest EXCEPT !.idle = [i \in Interfaces |-> 0]]
               /\ run' = [run EXCEPT
                            !.pc = "log", !.lost = @ + Cardinality(lost),
                            !.passed = @ \cup
                              If(/\ storing # {}
                                 /\ \A i \in storing :
                                      IdleAnswer(d, lost, i) = fresh[i],
                                 "recovered")]
      BY <1>11, <2>2 DEF Recover
    <3>2. GuestType'
      BY <3>1, RatesAre DEF GuestType, Guests
    <3>3. "recovered" \in Checks
      BY DEF Checks
    <3>4. run.lost + Cardinality(lost) \in Nat
      BY FewNames, LossIs
    <3>5. RunType'
      BY <3>1, <3>3, <3>4 DEF RunType, Pcs, If
    <3> QED
      BY <3>2, <3>5
  <2> QED
    BY <2>1, <2>2
<1>12. CASE SearchLog
  <2>1. {"quiet"} \subseteq Checks \cup Notes /\ "whoami" \in Pcs
    BY DEF Checks, Pcs
  <2> QED
    BY <1>12, <2>1, FewNames, PassType DEF SearchLog, GuestType, Guests
<1>13. CASE WhoAmI
  <2>1. {"rechallenged", "image"} \subseteq Checks \cup Notes /\ "verdict" \in Pcs
    BY DEF Checks, Pcs
  <2> QED
    BY <1>13, <2>1, FewNames, PassType DEF WhoAmI, GuestType, Guests
<1>14. CASE AwardMilestone
  <2>1. Rung(run.passed) \in 0 .. 8
    BY DEF Rung
  <2> QED
    BY <1>14, <2>1 DEF AwardMilestone, RunType, GuestType, Guests, Pcs
<1>15. CASE Report
  <2>1. PICK o \in guest.owed :
          /\ guest' = [guest EXCEPT !.owed = @ \ {o}]
          /\ IF InWindow
             THEN run' = [run EXCEPT !.reports =
                            Append(@, [of |-> o, frame |-> Frame(o)])]
             ELSE UNCHANGED run
    BY <1>15 DEF Report
  <2>2. o \in Causes /\ Frame(o) \in Frames
    BY DEF GuestType, Guests, Causes, Frames, Frame
  <2>3. Append(run.reports, [of |-> o, frame |-> Frame(o)]) \in Seq(Reports)
    BY <2>2 DEF RunType, Reports
  <2>4. RunType'
    BY <2>1, <2>3 DEF RunType
  <2>5. GuestType'
    BY <2>1 DEF GuestType, Guests
  <2> QED
    BY <2>4, <2>5
<1>16. CASE RepeatIdle
  <2>1. <<Release>> \in Seq(Reports)
    BY DEF Reports, Causes, Frames, Release
  <2> QED
    BY <1>16, <2>1 DEF RepeatIdle, RunType, GuestType, Guests
<1>17. CASE Raise
  BY <1>17 DEF Raise, RunType, GuestType, Guests, Pcs
<1>18. CASE Crash
  <2>1. GuestType'
    BY <1>18 DEF Crash, GuestType, Guests
  <2> QED
    BY <1>18, <2>1 DEF Crash, RunType
<1>19. CASE UNCHANGED vars
  BY <1>19 DEF vars, RunType, GuestType, Guests
<1> QED
  BY <1>1, <1>2, <1>3, <1>4, <1>5, <1>6, <1>7, <1>8, <1>9, <1>10, <1>11, <1>12,
     <1>13, <1>14, <1>15, <1>16, <1>17, <1>18, <1>19 DEF Next, Questions

(* What a run begins with.                                                 *)
LEMMA InitRun ==
  Init => /\ run.reports = <<>> /\ run.pc = "enumerate" /\ run.passed = Greeting
          /\ guest.idle = [i \in Interfaces |-> 0]
<1> SUFFICES ASSUME Init
             PROVE  /\ run.reports = <<>> /\ run.pc = "enumerate"
                    /\ run.passed = Greeting
                    /\ guest.idle = [i \in Interfaces |-> 0]
  OBVIOUS
<1>1. PICK control \in BOOLEAN :
       run = [pc |-> "enumerate", control |-> control,
              passed |-> {"port_free", "greeted", "bound"},
              sent |-> [i \in Interfaces |-> 0], plan |-> {},
              turning |-> Nothing, reports |-> <<>>, missed |-> FALSE,
              lost |-> 0, rung |-> 0]
  BY DEF Init
<1>2. PICK store \in Stores, handler \in Handlers, keys \in BOOLEAN :
        guest = [alive |-> TRUE, store |-> store, handler |-> handler,
                 keys |-> keys, idle |-> [i \in Interfaces |-> 0],
                 owed |-> {}, hurt |-> {}]
  BY DEF Init
<1>3. guest.idle = [i \in Interfaces |-> 0]
  BY <1>2
<1> QED
  BY <1>1, <1>3 DEF Greeting

(* Every variable keeps its type. *)
THEOREM TypeCorrect == Spec => []TypeOK
  BY InitType, NextType, PTL DEF Spec

-----------------------------------------------------------------------------
(* Reports *)

(* The steps that leave the reports, and what is asked of them, alone.     *)
LEMMA ReportsUntouched ==
  ASSUME TypeOK,
         \/ Enumerate \/ ClassRequests \/ Rotated \/ AskInterfaces \/ Swap
         \/ Malformed \/ Recover \/ SearchLog \/ WhoAmI \/ AwardMilestone
         \/ Raise \/ Crash \/ UNCHANGED vars
  PROVE  /\ run'.reports = run.reports /\ run'.control = run.control
         /\ run'.pc = "turning" => run.pc = "turning" /\ run'.turning = run.turning
         /\ run'.pc \in {"key", "rotate"} => run' = run
<1> USE DEF TypeOK, RunType
<1>1. CASE Enumerate
  BY <1>1 DEF Enumerate, Pass
<1>2. CASE ClassRequests
  BY <1>2, Zenon DEF ClassRequests, Pass, Goto
<1>3. CASE Rotated
  BY <1>3 DEF Rotated
<1>4. CASE AskInterfaces
  BY <1>4 DEF AskInterfaces, Goto
<1>5. CASE Swap
  BY <1>5, ZenonT(30) DEF Swap, Goto
<1>6. CASE Malformed
  BY <1>6 DEF Malformed, Goto, Pass
<1>7. CASE Recover
  BY <1>7 DEF Recover, Goto
<1>8. CASE SearchLog
  BY <1>8 DEF SearchLog, Pass
<1>9. CASE WhoAmI
  BY <1>9 DEF WhoAmI, Pass
<1>10. CASE AwardMilestone
  BY <1>10 DEF AwardMilestone
<1>11. CASE Raise
  BY <1>11 DEF Raise
<1>12. CASE Crash
  BY <1>12 DEF Crash
<1>13. CASE UNCHANGED vars
  BY <1>13 DEF vars
<1> QED
  BY <1>1, <1>2, <1>3, <1>4, <1>5, <1>6, <1>7, <1>8, <1>9, <1>10, <1>11, <1>12,
     <1>13

(* A report carries what has caused it, whatever the guest does.           *)
LEMMA NextReports == TypeOK /\ ReportsHonest /\ [Next]_vars => ReportsHonest'
<1> SUFFICES ASSUME TypeOK, ReportsHonest, [Next]_vars PROVE ReportsHonest'
  OBVIOUS
<1>1. CASE \/ Enumerate \/ ClassRequests \/ Rotated \/ AskInterfaces \/ Swap
           \/ Malformed \/ Recover \/ SearchLog \/ WhoAmI \/ AwardMilestone
           \/ Raise \/ Crash \/ UNCHANGED vars
  BY <1>1, ReportsUntouched DEF ReportsHonest
<1>2. CASE PressKey
  BY <1>2 DEF PressKey, TypeOK, RunType, ReportsHonest
<1>3. CASE KeyReleased
  BY <1>3 DEF KeyReleased, TypeOK, RunType, ReportsHonest
<1>4. CASE Turn
  BY <1>4 DEF Turn, TypeOK, RunType, ReportsHonest
<1>5. CASE Turned
  BY <1>5 DEF Turned, TypeOK, RunType, ReportsHonest
<1>6. CASE Report
  <2>1. PICK o \in guest.owed :
          IF InWindow
          THEN run' = [run EXCEPT !.reports =
                         Append(@, [of |-> o, frame |-> Frame(o)])]
          ELSE UNCHANGED run
    BY <1>6 DEF Report
  <2>2. CASE ~InWindow
    BY <2>1, <2>2 DEF ReportsHonest
  <2>3. CASE InWindow
    <3> DEFINE new == [of |-> o, frame |-> Frame(o)]
    <3>1. run'.reports = Append(run.reports, new)
          /\ run'.pc = run.pc /\ run'.turning = run.turning
      BY <2>1, <2>3 DEF TypeOK, RunType
    <3>2. new.frame = new.of
      BY DEF Frame
    <3> HIDE DEF new
    <3>3. run.reports \in Seq(Reports)
      BY DEF TypeOK, RunType
    <3>4. ASSUME NEW n \in DOMAIN run'.reports
          PROVE  run'.reports[n].frame \in {run'.reports[n].of, Release.frame}
      <4>1. \/ n \in 1 .. Len(run.reports) /\ run'.reports[n] = run.reports[n]
            \/ run'.reports[n] = new
        BY <3>1, <3>3, <3>4
      <4>2. \A m \in 1 .. Len(run.reports) :
              run.reports[m].frame \in {run.reports[m].of, Release.frame}
        BY <3>3 DEF ReportsHonest
      <4> QED
        BY <3>2, <4>1, <4>2
    <3> QED
      BY <3>1, <3>4 DEF ReportsHonest
  <2> QED
    BY <2>2, <2>3
<1>7. CASE RepeatIdle
  <2>1. run'.reports = <<Release>> /\ run'.pc = run.pc /\ run'.turning = run.turning
    BY <1>7 DEF RepeatIdle, TypeOK, RunType
  <2>2. \A n \in DOMAIN <<Release>> : <<Release>>[n] = Release
    OBVIOUS
  <2> QED
    BY <2>1, <2>2 DEF ReportsHonest
<1> QED
  BY <1>1, <1>2, <1>3, <1>4, <1>5, <1>6, <1>7 DEF Next, Questions

(* A rotation is matched by a report that it has caused itself, and by no  *)
(* late report of another rotation or of the key.                          *)
THEOREM NoLateMatch == Spec => []RotationsEarned
<1>1. Init => ReportsHonest
  <2> SUFFICES ASSUME Init PROVE ReportsHonest
    OBVIOUS
  <2>1. run.reports = <<>> /\ run.pc = "enumerate"
    BY InitRun
  <2> QED
    BY <2>1 DEF ReportsHonest
<1>2. TypeOK /\ ReportsHonest => RotationsEarned
  <2> SUFFICES ASSUME TypeOK, ReportsHonest, run.pc = "turning", Matches
               PROVE  \E n \in DOMAIN run.reports : run.reports[n].of = run.turning
    BY DEF RotationsEarned
  <2>1. run.turning \in Rotations /\ run.reports \in Seq(Reports)
        /\ FirstPress(run.reports) = run.turning
    BY DEF ReportsHonest, Matches, Frame, TypeOK, RunType
  <2>2. run.turning # Nothing
    BY <2>1, AttackAssumption
  <2>3. PICK n \in DOMAIN run.reports :
          run.reports[n].frame # Release.frame
          /\ FirstPress(run.reports) = run.reports[n].frame
    BY <2>1, <2>2, FirstPressIs
  <2> QED
    BY <2>1, <2>3 DEF ReportsHonest
<1> QED
  BY <1>1, <1>2, NextReports, TypeCorrect, PTL DEF Spec

-----------------------------------------------------------------------------
(* Control runs *)

(* A run is a control run from the start to the end.                       *)
LEMMA ControlKept == TypeOK /\ [Next]_vars => run'.control = run.control
<1> SUFFICES ASSUME TypeOK, [Next]_vars PROVE run'.control = run.control
  OBVIOUS
<1>1. CASE \/ Enumerate \/ ClassRequests \/ Rotated \/ AskInterfaces \/ Swap
           \/ Malformed \/ Recover \/ SearchLog \/ WhoAmI \/ AwardMilestone
           \/ Raise \/ Crash \/ UNCHANGED vars
  BY <1>1, ReportsUntouched
<1>2. CASE PressKey \/ KeyReleased \/ Turn
  BY <1>2 DEF PressKey, KeyReleased, Turn, TypeOK, RunType
<1>3. CASE Turned \/ Report \/ RepeatIdle
  BY <1>3 DEF Turned, Report, RepeatIdle, TypeOK, RunType
<1> QED
  BY <1>1, <1>2, <1>3 DEF Next, Questions

(* A check is passed in a control run only if it says nothing of the       *)
(* guest's behaviour.                                                      *)
LEMMA NextControl == TypeOK /\ ReportsHonest /\ ControlSilent /\ [Next]_vars => ControlSilent'
<1> SUFFICES ASSUME TypeOK, ReportsHonest, run.control, ControlSilent, [Next]_vars
             PROVE  ControlSilent'
  <2>1. TypeOK /\ [Next]_vars => run'.control = run.control
    BY ControlKept
  <2> QED
    BY <2>1 DEF ControlSilent
<1>1. /\ run.passed \cap (Claims \cup {"inventory"}) = {}
      /\ run.reports = <<>>
      /\ run.pc = "rotate" => run.missed \/ run.plan # {}
      /\ "inventory" \notin run.passed
  BY DEF ControlSilent
<1> USE DEF TypeOK, RunType
<1>2. CASE \/ Enumerate \/ ClassRequests \/ Rotated \/ AskInterfaces \/ Swap
           \/ Malformed \/ Recover \/ SearchLog \/ WhoAmI \/ AwardMilestone
           \/ Raise \/ Crash \/ UNCHANGED vars
  <2> SUFFICES run'.passed \cap (Claims \cup {"inventory"}) = {}
    BY <1>1, <1>2, ReportsUntouched DEF ControlSilent
  <2>1. CASE Enumerate
    BY <1>1, <2>1 DEF Enumerate, Answers, Pass
  <2>2. CASE ClassRequests
    BY <1>1, <2>2 DEF ClassRequests, Goto
  <2>3. CASE Rotated
    BY <1>1, <2>3 DEF Rotated, If
  <2>4. CASE AskInterfaces
    BY <1>1, <2>4 DEF AskInterfaces, Goto
  <2>5. CASE Swap
    BY <1>1, <2>5 DEF Swap, Goto
  <2>6. CASE Malformed
    BY <1>1, <2>6 DEF Malformed, Goto
  <2>7. CASE Recover
    BY <1>1, <2>7 DEF Recover, Goto
  <2>8. CASE SearchLog
    BY <1>1, <2>8 DEF SearchLog, Pass, Claims
  <2>9. CASE WhoAmI
    BY <1>1, <2>9 DEF WhoAmI, Pass, Claims
  <2>10. CASE AwardMilestone \/ Raise \/ Crash \/ UNCHANGED vars
    BY <1>1, <2>10 DEF AwardMilestone, Raise, Crash, vars
  <2> QED
    BY <1>2, <2>1, <2>2, <2>3, <2>4, <2>5, <2>6, <2>7, <2>8, <2>9, <2>10
<1>3. CASE PressKey
  BY <1>1, <1>3 DEF PressKey, ControlSilent
<1>4. CASE KeyReleased
  <2>1. run' = [run EXCEPT !.pc = "rotate", !.plan = Rotations,
                           !.reports = <<>>, !.passed = run.passed]
    BY <1>4 DEF KeyReleased, If
  <2>2. Rotations # {}
    BY AttackAssumption
  <2> QED
    BY <1>1, <2>1, <2>2 DEF ControlSilent
<1>5. CASE Turn
  BY <1>1, <1>5 DEF Turn, ControlSilent
<1>6. CASE Turned
  <2>1. FirstPress(run.reports) = Nothing
    BY <1>1, FirstPressIs
  <2>2. ~Matches
    BY <1>6, <2>1, AttackAssumption DEF Turned, Matches, Frame, ReportsHonest
  <2>3. run' = [run EXCEPT !.pc = "rotate", !.reports = <<>>,
                  !.missed = TRUE, !.passed = run.passed]
    BY <1>6, <2>1, <2>2 DEF Turned, Endpoint
  <2> QED
    BY <1>1, <2>3 DEF ControlSilent
<1>7. CASE Report \/ RepeatIdle
  BY <1>7 DEF Report, RepeatIdle, Answers
<1> QED
  BY <1>2, <1>3, <1>4, <1>5, <1>6, <1>7 DEF Next, Questions

(* A control run, whose guest executes nothing, passes no check that says  *)
(* something of the guest's behaviour, whatever the run draws and however  *)
(* many rotations it plans.                                                *)
THEOREM ControlIsSilent == Spec => []ControlClaimsNothing
<1>1. Init => ReportsHonest /\ ControlSilent
  <2> SUFFICES ASSUME Init PROVE ReportsHonest /\ ControlSilent
    OBVIOUS
  <2>1. run.reports = <<>> /\ run.pc = "enumerate" /\ run.passed = Greeting
    BY InitRun
  <2>2. Greeting \cap (Claims \cup {"inventory"}) = {}
    BY DEF Greeting, Claims
  <2> QED
    BY <2>1, <2>2 DEF ReportsHonest, ControlSilent
<1>2. ControlSilent => ControlClaimsNothing
  BY DEF ControlSilent, ControlClaimsNothing
<1> QED
  BY <1>1, <1>2, NextReports, NextControl, TypeCorrect, PTL DEF Spec

-----------------------------------------------------------------------------
(* What the steps leave behind, field by field *)

StepTo(from, to, new) ==
  run.pc = from /\ run'.pc = to /\ run'.passed = run.passed \cup new

(* The enumeration passes a prefix of its answers.                         *)
LEMMA EnumerateIs ==
  ASSUME TypeOK, Enumerate
  PROVE  /\ \E got \in EnumerationPrefixes : StepTo("enumerate", "class", got)
         /\ run'.missed = run.missed /\ run'.lost = run.lost /\ guest' = guest
<1>1. PICK got \in EnumerationPrefixes : Pass("class", got, {})
  BY DEF Enumerate
<1> DEFINE loss == run.lost + Cardinality({})
<1>2. loss = run.lost
  BY FS_EmptySet DEF TypeOK, RunType
<1>3. run' = [run EXCEPT !.pc = "class", !.passed = @ \cup (got \ {}), !.lost = loss]
  BY <1>1 DEF Pass
<1> HIDE DEF loss
<1>4. StepTo("enumerate", "class", got)
      /\ run'.missed = run.missed /\ run'.lost = loss
  BY <1>3 DEF Enumerate, StepTo, TypeOK, RunType
<1> QED
  BY <1>2, <1>4 DEF Enumerate

(* A batch passes what it has not lost.                                    *)
LEMMA PassIs ==
  ASSUME TypeOK, NEW pc, NEW names, NEW all, IsFiniteSet(all),
         NEW lost \in Losable(all), Pass(pc, names, lost)
  PROVE  /\ StepTo(run.pc, pc, names \ lost) /\ run'.missed = run.missed
         /\ run'.lost = 0 => run.lost = 0 /\ lost = {}
<1> DEFINE loss == run.lost + Cardinality(lost)
           new == names \ lost
<1>1. loss = 0 => run.lost = 0 /\ lost = {}
  BY LossIs
<1>2. run' = [run EXCEPT !.pc = pc, !.passed = @ \cup new, !.lost = loss]
  BY DEF Pass
<1> HIDE DEF loss, new
<1>3. StepTo(run.pc, pc, new) /\ run'.missed = run.missed /\ run'.lost = loss
  BY <1>2 DEF StepTo, TypeOK, RunType
<1> QED
  BY <1>1, <1>3 DEF new

(* The class requests pass what the device answers rightly.                *)
LEMMA ClassIs ==
  ASSUME TypeOK, ClassRequests
  PROVE  /\ guest' = guest \/ \E v \in Bytes : guest' = SetIdle(guest, 0, v)
         /\ run'.missed = run.missed
         /\ run'.lost = 0 => run.lost = 0
         /\ \/ /\ run.control /\ StepTo("class", "press", {})
            \/ /\ ~run.control
               /\ \E bits \in [1 .. 2 -> {0, 1}], v \in Bytes,
                     lost \in SUBSET {"protocol", "idle", "refusals"} :
                    /\ run'.lost = 0 => lost = {}
                    /\ guest' = SetIdle(guest, 0, v)
                    /\ StepTo("class", "press",
                         (If(\A n \in 1 .. 2 : ProtocolAnswer(guest', bits, n) = bits[n],
                             "protocol")
                          \cup If(guest'.idle[0] = v, "idle") \cup {"refusals"}) \ lost)
<1>1. PICK bits \in [1 .. 2 -> {0, 1}], v \in Bytes,
           lost \in Losable({"protocol", "idle", "refusals"}) :
       LET d == SetIdle(guest, 0, v)
           good == If(\A n \in 1 .. 2 : ProtocolAnswer(d, bits, n) = bits[n],
                      "protocol")
                   \cup If(d.idle[0] = v, "idle") \cup {"refusals"}
       IN IF run.control
          THEN UNCHANGED guest /\ Goto("press")
          ELSE guest' = d /\ Pass("press", good, lost)
  BY DEF ClassRequests
<1> DEFINE d == SetIdle(guest, 0, v)
           good == If(\A n \in 1 .. 2 : ProtocolAnswer(d, bits, n) = bits[n],
                      "protocol")
                   \cup If(d.idle[0] = v, "idle") \cup {"refusals"}
<1>2. run.pc = "class" /\ run.control \in BOOLEAN
  BY DEF ClassRequests, TypeOK, RunType
<1>3. CASE run.control
  <2>1. guest' = guest /\ Goto("press")
    BY <1>1, <1>3, Zenon
  <2>2. run'.missed = run.missed /\ run'.lost = run.lost
        /\ StepTo("class", "press", {})
    BY <1>2, <2>1 DEF Goto, StepTo, TypeOK, RunType
  <2> QED
    BY <1>3, <2>1, <2>2
<1>4. CASE ~run.control
  <2>1. guest' = d /\ Pass("press", good, lost)
    BY <1>1, <1>4, Zenon
  <2>2. /\ StepTo(run.pc, "press", good \ lost) /\ run'.missed = run.missed
        /\ run'.lost = 0 => run.lost = 0 /\ lost = {}
    <3> HIDE DEF good
    <3> QED
      BY <2>1, FewNames, PassIs
  <2>3. lost \in SUBSET {"protocol", "idle", "refusals"}
    BY DEF Losable
  <2>4. good = If(\A n \in 1 .. 2 : ProtocolAnswer(guest', bits, n) = bits[n],
                  "protocol")
               \cup If(guest'.idle[0] = v, "idle") \cup {"refusals"}
    BY <2>1
  <2>5. /\ run'.lost = 0 => lost = {}
        /\ guest' = SetIdle(guest, 0, v)
        /\ StepTo("class", "press",
             (If(\A n \in 1 .. 2 : ProtocolAnswer(guest', bits, n) = bits[n],
                 "protocol")
              \cup If(guest'.idle[0] = v, "idle") \cup {"refusals"}) \ lost)
    BY <1>2, <2>1, <2>2, <2>4
  <2> HIDE DEF d, good
  <2>6. /\ guest' = guest \/ \E w \in Bytes : guest' = SetIdle(guest, 0, w)
        /\ run'.missed = run.missed
        /\ run'.lost = 0 => run.lost = 0
    BY <2>2, <2>5
  <2> QED
    BY <1>4, <2>3, <2>5, <2>6, Zenon
<1> QED
  BY <1>2, <1>3, <1>4

(* The key's window opens empty.                                           *)
LEMMA PressKeyIs ==
  ASSUME TypeOK, PressKey
  PROVE  /\ StepTo("press", "key", {}) /\ run'.missed = run.missed
         /\ run'.lost = run.lost /\ run'.reports = <<>>
         /\ guest'.owed = (IF guest.keys THEN {Key} ELSE {})
         /\ \A f \in {"store", "handler", "keys", "idle", "hurt"} : guest'[f] = guest[f]
<1>1. /\ StepTo("press", "key", {}) /\ run'.missed = run.missed
      /\ run'.lost = run.lost /\ run'.reports = <<>>
  BY DEF PressKey, StepTo, TypeOK, RunType
<1> DEFINE due == IF guest.keys THEN {Key} ELSE {}
<1>2. guest' = [guest EXCEPT !.owed = due]
  BY DEF PressKey, If
<1> HIDE DEF due
<1>3. guest'.owed = due
      /\ \A f \in {"store", "handler", "keys", "idle", "hurt"} : guest'[f] = guest[f]
  BY <1>2 DEF TypeOK, GuestType, Guests
<1> QED
  BY <1>1, <1>3 DEF due

(* Silence in the key's window passes, except in a control run.            *)
LEMMA KeyReleasedIs ==
  ASSUME TypeOK, KeyReleased
  PROVE  /\ StepTo("key", "rotate",
                   If(FirstPress(run.reports) = Nothing /\ ~run.control, "inert"))
         /\ run'.missed = run.missed /\ run'.lost = run.lost
         /\ run'.plan = Rotations /\ guest' = guest
<1> DEFINE new == If(FirstPress(run.reports) = Nothing /\ ~run.control, "inert")
<1>1. run' = [run EXCEPT !.pc = "rotate", !.plan = Rotations,
                         !.reports = <<>>, !.passed = @ \cup new]
      /\ run.pc = "key" /\ guest' = guest
  BY Zenon DEF KeyReleased
<1> HIDE DEF new
<1>2. StepTo("key", "rotate", new) /\ run'.missed = run.missed
      /\ run'.lost = run.lost /\ run'.plan = Rotations
  BY <1>1 DEF StepTo, TypeOK, RunType
<1> QED
  BY <1>1, <1>2 DEF new

(* A rotation of the plan is turned.                                       *)
LEMMA TurnIs ==
  ASSUME TypeOK, Turn
  PROVE  \E o \in run.plan :
           /\ StepTo("rotate", "turning", {}) /\ run'.missed = run.missed
           /\ run'.lost = run.lost /\ run'.plan = run.plan \ {o}
           /\ run'.turning = o
           /\ \A f \in {"store", "handler", "keys", "idle", "hurt"} :
                guest'[f] = guest[f]
<1>1. PICK o \in run.plan :
       /\ run' = [run EXCEPT !.pc = "turning", !.plan = @ \ {o},
                             !.turning = o, !.reports = <<>>]
       /\ guest' = [guest EXCEPT !.owed = @ \cup {o}]
  BY DEF Turn
<1>2. StepTo("rotate", "turning", {}) /\ run'.missed = run.missed
      /\ run'.lost = run.lost /\ run'.plan = run.plan \ {o} /\ run'.turning = o
  BY <1>1 DEF Turn, StepTo, TypeOK, RunType
<1>3. \A f \in {"store", "handler", "keys", "idle", "hurt"} : guest'[f] = guest[f]
  BY <1>1 DEF TypeOK, GuestType, Guests
<1> QED
  BY <1>2, <1>3

(* Its window is graded, and what it shows of the endpoints is kept.       *)
LEMMA TurnedIs ==
  ASSUME TypeOK, Turned
  PROVE  /\ StepTo("turning", "rotate", Endpoint(FirstPress(run.reports)))
         /\ run'.missed = (run.missed \/ ~Matches) /\ run'.lost = run.lost
         /\ run'.plan = run.plan /\ guest' = guest
<1> DEFINE new == Endpoint(FirstPress(run.reports))
           miss == run.missed \/ ~Matches
<1>1. run' = [run EXCEPT !.pc = "rotate", !.reports = <<>>,
                         !.missed = miss, !.passed = @ \cup new]
      /\ run.pc = "turning" /\ guest' = guest
  BY DEF Turned
<1> HIDE DEF new, miss
<1>2. StepTo("turning", "rotate", new) /\ run'.missed = miss
      /\ run'.lost = run.lost /\ run'.plan = run.plan
  BY <1>1 DEF StepTo, TypeOK, RunType
<1> QED
  BY <1>1, <1>2 DEF new, miss

(* The stage passes if no rotation was missed.                             *)
LEMMA RotatedIs ==
  ASSUME TypeOK, Rotated
  PROVE  /\ StepTo("rotate", "interfaces", If(~run.missed, "rotations"))
         /\ run'.missed = run.missed /\ run'.lost = run.lost /\ run.plan = {}
         /\ \A f \in {"store", "handler", "keys", "idle", "hurt"} : guest'[f] = guest[f]
<1> DEFINE new == If(~run.missed, "rotations")
<1>1. /\ run' = [run EXCEPT !.pc = "interfaces", !.turning = Nothing,
                            !.passed = @ \cup new]
      /\ guest' = [guest EXCEPT !.owed = {}] /\ run.pc = "rotate" /\ run.plan = {}
  BY Zenon DEF Rotated
<1> HIDE DEF new
<1>2. StepTo("rotate", "interfaces", new) /\ run'.missed = run.missed
      /\ run'.lost = run.lost
  BY <1>1 DEF StepTo, TypeOK, RunType
<1>3. \A f \in {"store", "handler", "keys", "idle", "hurt"} : guest'[f] = guest[f]
  BY <1>1 DEF TypeOK, GuestType, Guests
<1> QED
  BY <1>1, <1>2, <1>3 DEF new

FaceNames == {"stored0", "stored1", "stored2", "iface0", "iface1", "iface2"}

(* What is noted of the interfaces is what the device answers.             *)
LEMMA AskInterfacesIs ==
  ASSUME TypeOK, AskInterfaces
  PROVE  /\ run'.missed = run.missed
         /\ run'.lost = 0 => run.lost = 0
         /\ run.pc = "interfaces" /\ run'.pc = "swap"
         /\ \/ "inventory" \notin run.passed /\ run'.passed = run.passed /\ guest' = guest
            \/ /\ "inventory" \in run.passed
               /\ run'.passed \subseteq run.passed \cup FaceNames
               /\ run.passed \ {"ep1", "ep2"} \subseteq run'.passed
               /\ \E sent \in [Interfaces -> Bytes] :
                    /\ run'.sent = sent /\ guest' = SetAll(guest, sent)
                    /\ \A i \in Interfaces : Stored(i) \in run'.passed =>
                         Stored(i) \in run.passed \/ guest'.idle[i] = sent[i]
                    /\ run'.lost = 0 => \A i \in Interfaces :
                         guest'.idle[i] = sent[i] => Stored(i) \in run'.passed
                    /\ \A i \in Met(guest.handler) :
                         /\ i = 0 /\ {"protocol", "ep1"} \subseteq run.passed
                              => Iface(i) \in run'.passed
                         /\ i = 1 /\ "ep2" \in run.passed => Iface(i) \in run'.passed
                         /\ i = 2 /\ run'.lost = 0 /\ guest'.idle[i] = sent[i]
                              => Iface(i) \in run'.passed
<1>0. run.pc = "interfaces"
  BY DEF AskInterfaces
<1>1. CASE "inventory" \notin run.passed
  <2>1. Goto("swap") /\ guest' = guest
    BY <1>1 DEF AskInterfaces
  <2>2. run'.pc = "swap" /\ run'.passed = run.passed /\ run'.missed = run.missed
        /\ run'.lost = run.lost
    BY <2>1 DEF Goto, TypeOK, RunType
  <2> QED
    BY <1>0, <1>1, <2>1, <2>2
<1>2. CASE "inventory" \in run.passed
  <2>1. PICK sent \in [Interfaces -> Bytes], lost \in Losable(Interfaces) :
          LET d == SetAll(guest, sent)
              stored == {i \in Interfaces \ lost : d.idle[i] = sent[i]}
              extra == {i \in Interfaces :
                          CASE i = 0 -> {"protocol", "ep1"} \subseteq run.passed
                            [] i = 1 -> "ep2" \in run.passed
                            [] i = 2 -> 2 \in stored}
          IN /\ guest' = d
             /\ run' = [run EXCEPT !.pc = "swap", !.sent = sent,
                          !.lost = @ + Cardinality(lost),
                          !.passed = (@ \ {"ep1", "ep2"})
                            \cup {Stored(i) : i \in stored}
                            \cup {Iface(i) : i \in Met(guest.handler) \cap extra}]
    BY <1>2 DEF AskInterfaces
  <2> DEFINE d == SetAll(guest, sent)
             stored == {i \in Interfaces \ lost : d.idle[i] = sent[i]}
             extra == {i \in Interfaces :
                          CASE i = 0 -> {"protocol", "ep1"} \subseteq run.passed
                            [] i = 1 -> "ep2" \in run.passed
                            [] i = 2 -> 2 \in stored}
             met == Met(guest.handler) \cap extra
             loss == run.lost + Cardinality(lost)
             new == (run.passed \ {"ep1", "ep2"})
                      \cup {Stored(i) : i \in stored} \cup {Iface(i) : i \in met}
  <2>2. /\ guest' = d
        /\ run' = [run EXCEPT !.pc = "swap", !.sent = sent, !.lost = loss,
                              !.passed = new]
    BY <2>1
  <2>3. loss = 0 => run.lost = 0 /\ lost = {}
    BY FewNames, LossIs
  <2>4. stored \subseteq {0, 1, 2} /\ met \subseteq {0, 1, 2}
    BY Names
  <2>5. \A i \in stored : d.idle[i] = sent[i]
    OBVIOUS
  <2>6. lost = {} => \A i \in Interfaces : d.idle[i] = sent[i] => i \in stored
    OBVIOUS
  <2>7. \A i \in Met(guest.handler) :
          /\ i = 0 /\ {"protocol", "ep1"} \subseteq run.passed => i \in met
          /\ i = 1 /\ "ep2" \in run.passed => i \in met
          /\ i = 2 /\ 2 \in stored => i \in met
    <3> HIDE DEF stored
    <3>1. 0 \in Interfaces /\ 1 \in Interfaces /\ 2 \in Interfaces
      BY Names
    <3>2. {"protocol", "ep1"} \subseteq run.passed => 0 \in extra
      BY <3>1
    <3>3. "ep2" \in run.passed => 1 \in extra
      BY <3>1
    <3>4. 2 \in stored => 2 \in extra
      BY <3>1
    <3> HIDE DEF extra
    <3> QED
      BY <3>2, <3>3, <3>4
  <2> HIDE DEF d, stored, met, loss, new
  <2>8. /\ run'.pc = "swap" /\ run'.sent = sent /\ run'.passed = new
        /\ run'.lost = loss /\ run'.missed = run.missed
    BY <2>2 DEF TypeOK, RunType
  <2>9. \A i, j \in {0, 1, 2} :
          /\ Stored(i) \in FaceNames /\ Iface(i) \in FaceNames
          /\ Stored(i) = Stored(j) => i = j
          /\ Stored(i) # Iface(j) /\ Stored(i) \notin {"ep1", "ep2"}
    BY Names DEF FaceNames
  <2>10. new \subseteq run.passed \cup FaceNames
    BY <2>4, <2>9 DEF new
  <2>11. run.passed \ {"ep1", "ep2"} \subseteq new
    BY DEF new
  <2>12. \A i \in Interfaces : Stored(i) \in new =>
           Stored(i) \in run.passed \/ d.idle[i] = sent[i]
    BY <2>4, <2>5, <2>9, Names DEF new
  <2>13. loss = 0 => \A i \in Interfaces : d.idle[i] = sent[i] => Stored(i) \in new
    BY <2>3, <2>6 DEF new
  <2>14. \A i \in Met(guest.handler) :
          /\ i = 0 /\ {"protocol", "ep1"} \subseteq run.passed => Iface(i) \in new
          /\ i = 1 /\ "ep2" \in run.passed => Iface(i) \in new
          /\ i = 2 /\ loss = 0 /\ d.idle[i] = sent[i] => Iface(i) \in new
    <3>1. \A i \in met : Iface(i) \in new
      BY DEF new
    <3>2. 2 \in Interfaces
      BY Names
    <3> QED
      BY <2>3, <2>6, <2>7, <3>1, <3>2
  <2>15. /\ run'.sent = sent /\ guest' = SetAll(guest, sent)
         /\ \A i \in Interfaces : Stored(i) \in run'.passed =>
              Stored(i) \in run.passed \/ guest'.idle[i] = sent[i]
         /\ run'.lost = 0 => \A i \in Interfaces :
              guest'.idle[i] = sent[i] => Stored(i) \in run'.passed
         /\ \A i \in Met(guest.handler) :
              /\ i = 0 /\ {"protocol", "ep1"} \subseteq run.passed
                   => Iface(i) \in run'.passed
              /\ i = 1 /\ "ep2" \in run.passed => Iface(i) \in run'.passed
              /\ i = 2 /\ run'.lost = 0 /\ guest'.idle[i] = sent[i]
                   => Iface(i) \in run'.passed
    BY <2>2, <2>8, <2>12, <2>13, <2>14 DEF d
  <2>16. /\ run'.missed = run.missed /\ run'.pc = "swap"
         /\ run'.lost = 0 => run.lost = 0
         /\ run'.passed \subseteq run.passed \cup FaceNames
         /\ run.passed \ {"ep1", "ep2"} \subseteq run'.passed
    BY <2>3, <2>8, <2>10, <2>11
  <2> QED
    BY <1>0, <1>2, <2>15, <2>16, Zenon
<1> QED
  BY <1>1, <1>2

(* The swap is followed, or is not, by the device.                         *)
LEMMA SwappedIs ==
  ASSUME TypeOK, Swap
  PROVE  /\ run'.missed = run.missed
         /\ run'.lost = 0 => run.lost = 0
         /\ \/ /\ "inventory" \notin run.passed /\ guest' = guest
               /\ StepTo("swap", "malformed", {})
            \/ /\ "inventory" \in run.passed
               /\ \E a \in Rates, b \in Bytes, lost \in SUBSET {"per_interface"} :
                    /\ a = run.sent[0] /\ a # b
                    /\ guest' = SetIdle(SetIdle(guest, 0, b), 2, a)
                    /\ run'.lost = 0 => lost = {}
                    /\ \E differed \in BOOLEAN :
                         /\ differed => {"stored0", "stored2"} \subseteq run.passed
                         /\ StepTo("swap", "malformed",
                              If(differed, "distinct_before") \cup
                              (If(differed /\ FollowedSwap(guest', a, b),
                                  "per_interface") \ lost))
<1>0. run.pc = "swap"
  BY DEF Swap
<1>1. CASE "inventory" \notin run.passed
  <2>1. Goto("malformed") /\ guest' = guest
    BY <1>1 DEF Swap
  <2>2. StepTo("swap", "malformed", {}) /\ run'.missed = run.missed
        /\ run'.lost = run.lost
    BY <1>0, <2>1 DEF Goto, StepTo, TypeOK, RunType
  <2> QED
    BY <1>1, <2>1, <2>2
<1>2. CASE "inventory" \in run.passed
  <2>1. PICK b \in Bytes, lost \in Losable({"per_interface"}) :
          LET a == run.sent[0]
              d == SetIdle(SetIdle(guest, 0, b), 2, a)
              differed == /\ {"stored0", "stored2"} \subseteq run.passed
                          /\ a # run.sent[2]
          IN /\ IF a = run.sent[2] THEN b # a ELSE b = run.sent[2]
             /\ guest' = d
             /\ run' = [run EXCEPT
                          !.pc = "malformed", !.sent = [i \in Interfaces |-> 0],
                          !.lost = @ + Cardinality(lost),
                          !.passed = @ \cup
                            If(differed, "distinct_before") \cup
                            (If(differed /\ FollowedSwap(d, a, b),
                                "per_interface") \ lost)]
    BY <1>2 DEF Swap
  <2> DEFINE a == run.sent[0]
             d == SetIdle(SetIdle(guest, 0, b), 2, a)
             differed == /\ {"stored0", "stored2"} \subseteq run.passed
                         /\ a # run.sent[2]
             new == If(differed, "distinct_before") \cup
                    (If(differed /\ FollowedSwap(d, a, b), "per_interface") \ lost)
             loss == run.lost + Cardinality(lost)
             none == [i \in Interfaces |-> 0]
  <2>2. a # b /\ guest' = d
        /\ run' = [run EXCEPT !.pc = "malformed", !.sent = none, !.lost = loss,
                              !.passed = run.passed \cup new]
    BY <2>1
  <2>3. lost \in SUBSET {"per_interface"} /\ (loss = 0 => run.lost = 0 /\ lost = {})
    BY FewNames, LossIs
  <2>4. a \in Rates
    <3>1. run.sent \in [Interfaces -> Rates]
      BY DEF TypeOK, RunType
    <3> QED
      BY <3>1, Names
  <2>5. differed \in BOOLEAN /\ (differed => {"stored0", "stored2"} \subseteq run.passed)
    OBVIOUS
  <2>6. new = If(differed, "distinct_before") \cup
              (If(differed /\ FollowedSwap(guest', a, b), "per_interface") \ lost)
    BY <2>2
  <2> HIDE DEF d, differed, new, loss, none
  <2>7. StepTo("swap", "malformed", new) /\ run'.missed = run.missed
        /\ run'.lost = loss
    BY <1>0, <2>2 DEF StepTo, TypeOK, RunType
  <2>8. guest' = SetIdle(SetIdle(guest, 0, b), 2, a)
    BY <2>2 DEF d
  <2> HIDE DEF a
  <2>9. a = run.sent[0]
    BY DEF a
  <2> QED
    BY <1>2, <2>2, <2>3, <2>4, <2>5, <2>6, <2>7, <2>8, <2>9
<1> QED
  BY <1>1, <1>2

(* The malformed requests may hurt the device.                             *)
LEMMA MalformedIs ==
  ASSUME TypeOK, Malformed
  PROVE  /\ run'.missed = run.missed
         /\ run'.lost = 0 => run.lost = 0
         /\ \A f \in {"store", "handler", "keys", "idle", "owed"} : guest'[f] = guest[f]
         /\ \/ run.control /\ StepTo("malformed", "recover", {})
            \/ /\ ~run.control
               /\ \E lost \in SUBSET {"adversarial"} :
                    /\ run'.lost = 0 => lost = {}
                    /\ StepTo("malformed", "recover", {"adversarial"} \ lost)
<1>1. PICK hurt \in SUBSET {"idle", "protocol"}, lost \in Losable({"adversarial"}) :
        IF run.control THEN UNCHANGED guest /\ Goto("recover")
        ELSE /\ guest' = [guest EXCEPT !.hurt = hurt]
             /\ Pass("recover", {"adversarial"}, lost)
  BY DEF Malformed
<1>2. run.pc = "malformed"
  BY DEF Malformed
<1>3. CASE run.control
  BY <1>1, <1>2, <1>3 DEF Goto, StepTo, TypeOK, RunType
<1>4. CASE ~run.control
  <2>1. lost \in SUBSET {"adversarial"}
    BY DEF Losable
  <2>2. /\ StepTo("malformed", "recover", {"adversarial"} \ lost)
        /\ run'.missed = run.missed
        /\ run'.lost = 0 => run.lost = 0 /\ lost = {}
    BY <1>1, <1>2, <1>4, FewNames, PassIs
  <2>3. \A f \in {"store", "handler", "keys", "idle", "owed"} : guest'[f] = guest[f]
    BY <1>1, <1>4 DEF TypeOK, GuestType, Guests
  <2> QED
    BY <1>4, <2>1, <2>2, <2>3
<1> QED
  BY <1>3, <1>4

(* A device has recovered when each storing interface answers its new byte.*)
LEMMA RecoverIs ==
  ASSUME TypeOK, Recover
  PROVE  /\ run'.missed = run.missed
         /\ run'.lost = 0 => run.lost = 0
         /\ \A f \in {"store", "handler", "keys", "owed", "hurt"} : guest'[f] = guest[f]
         /\ guest'.idle = guest.idle \/ guest'.idle = [i \in Interfaces |-> 0]
         /\ \/ "inventory" \notin run.passed /\ StepTo("recover", "log", {})
            \/ /\ "inventory" \in run.passed
               /\ \E fresh \in [Interfaces -> Bytes], lost \in SUBSET Interfaces :
                    /\ run'.lost = 0 => lost = {}
                    /\ StepTo("recover", "log",
                         If(/\ \E i \in Interfaces : Stored(i) \in run.passed
                            /\ \A i \in Interfaces : Stored(i) \in run.passed =>
                                 IdleAnswer(SetAll(guest, fresh), lost, i) = fresh[i],
                            "recovered"))
<1>0. run.pc = "recover"
  BY DEF Recover
<1>1. CASE "inventory" \notin run.passed
  <2>1. Goto("log") /\ guest' = guest
    BY <1>1 DEF Recover
  <2>2. StepTo("recover", "log", {}) /\ run'.missed = run.missed
        /\ run'.lost = run.lost
    BY <1>0, <2>1 DEF Goto, StepTo, TypeOK, RunType
  <2> QED
    BY <1>1, <2>1, <2>2
<1>2. CASE "inventory" \in run.passed
  <2>1. PICK fresh \in [Interfaces -> Bytes], lost \in Losable(Interfaces) :
          LET d == SetAll(guest, fresh)
              storing == {i \in Interfaces : Stored(i) \in run.passed}
          IN /\ guest' = [guest EXCEPT !.idle = [i \in Interfaces |-> 0]]
             /\ run' = [run EXCEPT
                          !.pc = "log", !.lost = @ + Cardinality(lost),
                          !.passed = @ \cup
                            If(/\ storing # {}
                               /\ \A i \in storing :
                                    IdleAnswer(d, lost, i) = fresh[i],
                               "recovered")]
    BY <1>2 DEF Recover
  <2> DEFINE d == SetAll(guest, fresh)
             storing == {i \in Interfaces : Stored(i) \in run.passed}
             whole == /\ storing # {}
                      /\ \A i \in storing : IdleAnswer(d, lost, i) = fresh[i]
             loss == run.lost + Cardinality(lost)
             new == If(whole, "recovered")
             none == [i \in Interfaces |-> 0]
  <2>2. /\ guest' = [guest EXCEPT !.idle = none]
        /\ run' = [run EXCEPT !.pc = "log", !.lost = loss, !.passed = @ \cup new]
    BY <2>1
  <2>3. lost \in SUBSET Interfaces /\ (loss = 0 => run.lost = 0 /\ lost = {})
    BY FewNames, LossIs
  <2>4. whole <=> /\ \E i \in Interfaces : Stored(i) \in run.passed
                  /\ \A i \in Interfaces : Stored(i) \in run.passed =>
                       IdleAnswer(SetAll(guest, fresh), lost, i) = fresh[i]
    OBVIOUS
  <2>5. new = If(/\ \E i \in Interfaces : Stored(i) \in run.passed
                 /\ \A i \in Interfaces : Stored(i) \in run.passed =>
                      IdleAnswer(SetAll(guest, fresh), lost, i) = fresh[i],
                 "recovered")
    <3> HIDE DEF whole
    <3> QED
      BY <2>4 DEF If
  <2> HIDE DEF new, loss, none
  <2>6. StepTo("recover", "log", new) /\ run'.missed = run.missed /\ run'.lost = loss
    BY <1>0, <2>2 DEF StepTo, TypeOK, RunType
  <2>7. /\ \A f \in {"store", "handler", "keys", "owed", "hurt"} : guest'[f] = guest[f]
        /\ guest'.idle = none
    BY <2>2 DEF TypeOK, GuestType, Guests
  <2> QED
    BY <1>2, <2>3, <2>5, <2>6, <2>7 DEF none
<1> QED
  BY <1>1, <1>2

(* The log is quiet, or that is lost.                                      *)
LEMMA SearchLogIs ==
  ASSUME TypeOK, SearchLog
  PROVE  /\ run'.missed = run.missed /\ guest' = guest
         /\ run'.lost = 0 => run.lost = 0
         /\ \E lost \in SUBSET {"quiet"} :
              /\ run'.lost = 0 => lost = {}
              /\ StepTo("log", "whoami", {"quiet"} \ lost)
<1>1. PICK lost \in Losable({"quiet"}) : Pass("whoami", {"quiet"}, lost)
  BY DEF SearchLog
<1>2. lost \in SUBSET {"quiet"} /\ run.pc = "log" /\ guest' = guest
  BY DEF SearchLog, Losable
<1>3. /\ StepTo(run.pc, "whoami", {"quiet"} \ lost) /\ run'.missed = run.missed
      /\ run'.lost = 0 => run.lost = 0 /\ lost = {}
  BY <1>1, FewNames, PassIs
<1> QED
  BY <1>2, <1>3

(* The host model is challenged again.                                     *)
LEMMA WhoAmIIs ==
  ASSUME TypeOK, WhoAmI
  PROVE  /\ run'.missed = run.missed /\ guest' = guest
         /\ run'.lost = 0 => run.lost = 0
         /\ \E lost \in SUBSET {"rechallenged"} :
              /\ run'.lost = 0 => lost = {}
              /\ StepTo("whoami", "verdict", {"rechallenged", "image"} \ lost)
<1>1. PICK lost \in Losable({"rechallenged"}) :
        Pass("verdict", {"rechallenged", "image"}, lost)
  BY DEF WhoAmI
<1>2. lost \in SUBSET {"rechallenged"} /\ run.pc = "whoami" /\ guest' = guest
  BY DEF WhoAmI, Losable
<1> DEFINE names == {"rechallenged", "image"}
<1>3. IsFiniteSet({"rechallenged"}) /\ Pass("verdict", names, lost)
  BY <1>1, FewNames
<1> HIDE DEF names
<1>4. /\ StepTo(run.pc, "verdict", names \ lost) /\ run'.missed = run.missed
      /\ run'.lost = 0 => run.lost = 0 /\ lost = {}
  BY <1>1, <1>3, PassIs
<1> QED
  BY <1>2, <1>4 DEF names

(* The other steps tell the run nothing new.                               *)
LEMMA RestIs ==
  ASSUME TypeOK,
         AwardMilestone \/ Raise \/ Report \/ RepeatIdle \/ Crash \/ UNCHANGED vars
  PROVE  /\ run'.missed = run.missed /\ run'.lost = run.lost
         /\ run'.passed = run.passed /\ run'.plan = run.plan
         /\ run'.turning = run.turning /\ run'.sent = run.sent
         /\ \/ run'.pc = run.pc /\ run'.rung = run.rung
            \/ run'.pc = "raised"
            \/ run.pc = "verdict" /\ run'.pc = "over" /\ run'.rung = Rung(run.passed)
         /\ \A f \in {"store", "handler", "keys", "idle", "hurt"} : guest'[f] = guest[f]
         /\ guest'.owed \subseteq guest.owed
<1>1. CASE AwardMilestone
  <2> DEFINE r == Rung(run.passed)
  <2>1. run' = [run EXCEPT !.pc = "over", !.rung = r] /\ guest' = guest
        /\ run.pc = "verdict"
    BY <1>1 DEF AwardMilestone
  <2> HIDE DEF r
  <2>2. /\ run'.missed = run.missed /\ run'.lost = run.lost
        /\ run'.passed = run.passed /\ run'.plan = run.plan
        /\ run'.turning = run.turning /\ run'.sent = run.sent
        /\ run'.pc = "over" /\ run'.rung = r
    BY <2>1 DEF TypeOK, RunType
  <2> QED
    BY <2>1, <2>2 DEF r
<1>2. CASE Raise
  BY <1>2 DEF Raise, TypeOK, RunType
<1>3. CASE Report
  <2>1. PICK o \in guest.owed :
          /\ guest' = [guest EXCEPT !.owed = @ \ {o}]
          /\ IF InWindow
             THEN run' = [run EXCEPT !.reports =
                            Append(@, [of |-> o, frame |-> Frame(o)])]
             ELSE UNCHANGED run
    BY <1>3 DEF Report
  <2>2. /\ run'.missed = run.missed /\ run'.lost = run.lost
        /\ run'.passed = run.passed /\ run'.plan = run.plan
        /\ run'.turning = run.turning /\ run'.sent = run.sent
        /\ run'.pc = run.pc /\ run'.rung = run.rung
    BY <2>1 DEF TypeOK, RunType
  <2>3. /\ \A f \in {"store", "handler", "keys", "idle", "hurt"} : guest'[f] = guest[f]
        /\ guest'.owed = guest.owed \ {o}
    BY <2>1 DEF TypeOK, GuestType, Guests
  <2> QED
    BY <2>2, <2>3
<1>4. CASE RepeatIdle
  BY <1>4 DEF RepeatIdle, TypeOK, RunType
<1>5. CASE Crash
  BY <1>5 DEF Crash, TypeOK, GuestType, Guests
<1>6. CASE UNCHANGED vars
  BY <1>6 DEF vars
<1> QED
  BY <1>1, <1>2, <1>3, <1>4, <1>5, <1>6

-----------------------------------------------------------------------------
(* Isolation *)

(* Only a device that keeps a rate per interface answers the swapped bytes.*)
LEMMA OnlyPerInterfaceSwaps ==
  ASSUME NEW d \in Guests, NEW a \in Bytes, NEW b \in Bytes, a # b, d.idle[0] = a,
         FollowedSwap(SetIdle(SetIdle(d, 0, b), 2, a), a, b)
  PROVE  d.store = "per_interface"
<1> DEFINE e == SetIdle(d, 0, b)
<1>1. /\ 0 \in Interfaces /\ 2 \in Interfaces
      /\ a \in Rates /\ b \in Rates /\ a # 0
  BY Names, RatesAre
<1>2. e \in Guests /\ e.store = d.store
  BY <1>1, SetIdleIs
<1>3. SetIdle(e, 2, a).idle[0] = b
  BY DEF FollowedSwap
<1>4. d.store \in Stores /\ d.idle \in [Interfaces -> Rates]
  BY DEF Guests
<1>5. d.store = "first_answer" => e.idle = [d.idle EXCEPT ![0] = IF @ = 0 THEN b ELSE @]
  BY <1>1 DEF SetIdle, Guests
<1> HIDE DEF e
<1>6. CASE d.store = "single"
  <2>1. SetIdle(e, 2, a).idle = [j \in Interfaces |-> a]
    BY <1>1, <1>2, <1>6 DEF SetIdle, Guests
  <2> QED
    BY <1>1, <1>3, <2>1
<1>7. CASE d.store = "first_answer"
  <2>1. e.idle \in [Interfaces -> Rates]
    BY <1>2 DEF Guests
  <2>2. e.idle[0] = a
    BY <1>1, <1>4, <1>5, <1>7
  <2>3. SetIdle(e, 2, a).idle = [e.idle EXCEPT ![2] = IF @ = 0 THEN a ELSE @]
    BY <1>1, <1>2, <1>7 DEF SetIdle, Guests
  <2> QED
    BY <1>1, <1>3, <2>1, <2>2, <2>3
<1> QED
  BY <1>4, <1>6, <1>7 DEF Stores

(* No request changes what kind of device it is.                           *)
LEMMA GuestKept ==
  TypeOK /\ [Next]_vars =>
    \A f \in {"store", "handler", "keys"} : guest'[f] = guest[f]
<1> SUFFICES ASSUME TypeOK, [Next]_vars
             PROVE  \A f \in {"store", "handler", "keys"} : guest'[f] = guest[f]
  OBVIOUS
<1>0. guest \in Guests /\ 0 \in Interfaces
  BY Names DEF TypeOK, GuestType
<1>1. CASE Enumerate
  BY <1>1, EnumerateIs
<1>2. CASE ClassRequests
  <2>1. \A v \in Bytes, f \in {"store", "handler", "keys"} :
          SetIdle(guest, 0, v)[f] = guest[f]
    <3>1. \A v \in Bytes : v \in Rates
      BY RatesAre
    <3> QED
      BY <1>0, <3>1, SetIdleIs
  <2> QED
    BY <1>2, <2>1, ClassIs
<1>3. CASE PressKey \/ KeyReleased \/ Turn \/ Turned \/ Rotated
  BY <1>3, PressKeyIs, KeyReleasedIs, TurnIs, TurnedIs, RotatedIs
<1>4. CASE AskInterfaces
  <2>1. \A sent \in [Interfaces -> Bytes], f \in {"store", "handler", "keys"} :
          SetAll(guest, sent)[f] = guest[f]
    BY SetAllIs
  <2>2. guest' = guest \/ \E sent \in [Interfaces -> Bytes] : guest' = SetAll(guest, sent)
    BY <1>4, AskInterfacesIs, Zenon
  <2> QED
    BY <2>1, <2>2
<1>5. CASE Swap
  <2>1. guest' = guest \/ \E a \in Rates, b \in Bytes :
          guest' = SetIdle(SetIdle(guest, 0, b), 2, a)
    BY <1>5, SwappedIs, Zenon
  <2> QED
    BY <2>1, SwapIs
<1>6. CASE Malformed \/ Recover
  BY <1>6, MalformedIs, RecoverIs
<1>7. CASE SearchLog \/ WhoAmI
  BY <1>7, SearchLogIs, WhoAmIIs
<1>8. CASE AwardMilestone \/ Raise \/ Report \/ RepeatIdle \/ Crash \/ UNCHANGED vars
  BY <1>8, RestIs
<1> QED
  BY <1>1, <1>2, <1>3, <1>4, <1>5, <1>6, <1>7, <1>8 DEF Next, Questions

(* What interface 0 has stored tells the stores apart.                     *)
LEMMA NextStore == TypeOK /\ StoreTells /\ [Next]_vars => StoreTells'
<1> SUFFICES ASSUME TypeOK, StoreTells, [Next]_vars PROVE StoreTells'
  OBVIOUS
<1>0. guest'.store = guest.store
  BY GuestKept
<1>1. ASSUME NEW from, NEW to, NEW new, StepTo(from, to, new), to # "swap",
             to \in Early => from \in Early,
             new \cap {"stored0", "per_interface"} = {}
      PROVE  StoreTells'
  BY <1>0, <1>1 DEF StepTo, StoreTells
<1>2. CASE Enumerate
  <2>1. PICK got \in EnumerationPrefixes : StepTo("enumerate", "class", got)
    BY <1>2, EnumerateIs
  <2>2. got \cap {"stored0", "per_interface"} = {}
    BY DEF EnumerationPrefixes
  <2> QED
    BY <1>1, <2>1, <2>2 DEF Early
<1>3. CASE ClassRequests
  <2>1. PICK new \in SUBSET {"protocol", "idle", "refusals"} :
          StepTo("class", "press", new)
    BY <1>3, ClassIs DEF If
  <2> QED
    BY <1>1, <2>1 DEF Early
<1>4. CASE PressKey
  BY <1>1, <1>4, PressKeyIs DEF Early
<1>5. CASE KeyReleased
  <2>1. PICK new \in SUBSET {"inert"} : StepTo("key", "rotate", new)
    BY <1>5, KeyReleasedIs DEF If
  <2> QED
    BY <1>1, <2>1 DEF Early
<1>6. CASE Turn
  BY <1>1, <1>6, TurnIs DEF Early
<1>7. CASE Turned
  <2>1. PICK new \in SUBSET {"ep1", "ep2"} : StepTo("turning", "rotate", new)
    BY <1>7, TurnedIs DEF Endpoint
  <2> QED
    BY <1>1, <2>1 DEF Early
<1>8. CASE Rotated
  <2>1. PICK new \in SUBSET {"rotations"} : StepTo("rotate", "interfaces", new)
    BY <1>8, RotatedIs DEF If
  <2> QED
    BY <1>1, <2>1 DEF Early
<1>9. CASE AskInterfaces
  <2>1. run.pc = "interfaces" /\ run'.pc = "swap" /\ "stored0" \notin run.passed
    BY <1>9, AskInterfacesIs DEF StoreTells, Early
  <2>2. CASE "inventory" \notin run.passed
    BY <1>0, <1>9, <2>1, <2>2, AskInterfacesIs DEF StoreTells, Early
  <2>3. CASE "inventory" \in run.passed
    <3>1. PICK sent \in [Interfaces -> Bytes] :
            /\ run'.sent = sent
            /\ \A i \in Interfaces : Stored(i) \in run'.passed =>
                 Stored(i) \in run.passed \/ guest'.idle[i] = sent[i]
      BY <1>9, <2>3, AskInterfacesIs, Zenon
    <3>2. run'.passed \subseteq run.passed \cup FaceNames
      BY <1>9, <2>3, AskInterfacesIs
    <3>3. "stored0" \in run'.passed => guest'.idle[0] = run'.sent[0]
      BY <2>1, <3>1, Names
    <3>4. run'.sent[0] \in Bytes
      BY <3>1, Names
    <3> QED
      BY <1>0, <2>1, <3>2, <3>3, <3>4 DEF StoreTells, Early, FaceNames
  <2> QED
    BY <2>2, <2>3
<1>10. CASE Swap
  <2>1. CASE "inventory" \notin run.passed
    BY <1>1, <1>10, <2>1, SwappedIs DEF Early
  <2>2. CASE "inventory" \in run.passed
    <3>1. PICK a \in Rates, b \in Bytes, lost \in SUBSET {"per_interface"} :
            /\ a = run.sent[0] /\ a # b
            /\ guest' = SetIdle(SetIdle(guest, 0, b), 2, a)
            /\ \E differed \in BOOLEAN :
                 /\ differed => {"stored0", "stored2"} \subseteq run.passed
                 /\ StepTo("swap", "malformed",
                      If(differed, "distinct_before") \cup
                      (If(differed /\ FollowedSwap(guest', a, b),
                          "per_interface") \ lost))
      BY <1>10, <2>2, SwappedIs, Zenon
    <3>2. PICK differed \in BOOLEAN :
            /\ differed => {"stored0", "stored2"} \subseteq run.passed
            /\ StepTo("swap", "malformed",
                      If(differed, "distinct_before") \cup
                      (If(differed /\ FollowedSwap(guest', a, b),
                          "per_interface") \ lost))
      BY <3>1
    <3>3. differed => guest.idle[0] = a /\ a \in Bytes
      BY <2>2, <3>1, <3>2 DEF StoreTells, StepTo
    <3>4. guest \in Guests
      BY DEF TypeOK, GuestType
    <3>5. differed /\ FollowedSwap(guest', a, b) => guest.store = "per_interface"
      BY <3>1, <3>3, <3>4, OnlyPerInterfaceSwaps
    <3> DEFINE followed == differed /\ FollowedSwap(guest', a, b)
               more == If(followed, "per_interface") \ lost
               new == If(differed, "distinct_before") \cup more
    <3>6. StepTo("swap", "malformed", new)
      BY <3>2
    <3>7. "per_interface" \in more => followed
      <4> HIDE DEF followed
      <4> QED
        BY DEF If
    <3>8. "per_interface" \in new => "per_interface" \in more
      <4> HIDE DEF more
      <4> QED
        BY DEF If
    <3> HIDE DEF new, more
    <3>9. run'.pc = "malformed"
          /\ ("per_interface" \in run'.passed => "per_interface" \in run.passed \/ followed)
      BY <3>6, <3>7, <3>8 DEF StepTo
    <3> QED
      BY <1>0, <3>5, <3>9 DEF StoreTells, Early
  <2> QED
    BY <2>1, <2>2
<1>11. CASE Malformed
  <2>1. PICK new \in SUBSET {"adversarial"} : StepTo("malformed", "recover", new)
    BY <1>11, MalformedIs
  <2> QED
    BY <1>1, <2>1 DEF Early
<1>12. CASE Recover
  <2>1. PICK new \in SUBSET {"recovered"} : StepTo("recover", "log", new)
    BY <1>12, RecoverIs DEF If
  <2> QED
    BY <1>1, <2>1 DEF Early
<1>13. CASE SearchLog
  <2>1. PICK new \in SUBSET {"quiet"} : StepTo("log", "whoami", new)
    BY <1>13, SearchLogIs
  <2> QED
    BY <1>1, <2>1 DEF Early
<1>14. CASE WhoAmI
  <2>1. PICK new \in SUBSET {"rechallenged", "image"} :
          StepTo("whoami", "verdict", new)
    BY <1>14, WhoAmIIs
  <2> QED
    BY <1>1, <2>1 DEF Early
<1>15. CASE AwardMilestone \/ Raise \/ Report \/ RepeatIdle \/ Crash \/ UNCHANGED vars
  BY <1>0, <1>15, RestIs DEF StoreTells, Early
<1> QED
  BY <1>2, <1>3, <1>4, <1>5, <1>6, <1>7, <1>8, <1>9, <1>10, <1>11, <1>12, <1>13,
     <1>14, <1>15 DEF Next, Questions

(* Isolation is granted to a device that keeps its idle rates per          *)
(* interface, and to none other: neither one store for all the interfaces  *)
(* nor a first answer repeated passes, whatever bytes the run draws.       *)
THEOREM IsolationIsEarned == Spec => []IsolationEarned
<1>1. Init => StoreTells
  <2> SUFFICES ASSUME Init PROVE StoreTells
    OBVIOUS
  <2>1. run.pc = "enumerate" /\ run.passed = Greeting
    BY InitRun
  <2> QED
    BY <2>1 DEF StoreTells, Early, Greeting
<1>2. StoreTells => IsolationEarned
  BY DEF StoreTells, IsolationEarned, Isolated
<1> QED
  BY <1>1, <1>2, NextStore, TypeCorrect, PTL DEF Spec

-----------------------------------------------------------------------------
(* A genuine device gets the highest rung *)

(* The stages, by program counter.                                         *)
LEMMA StageIs ==
  /\ Stage("enumerate") = 0 /\ Stage("raised") = 0 /\ Stage("class") = 1
  /\ Stage("press") = 2 /\ Stage("key") = 3 /\ Stage("rotate") = 4
  /\ Stage("turning") = 4 /\ Stage("interfaces") = 5 /\ Stage("swap") = 6
  /\ Stage("malformed") = 7 /\ Stage("recover") = 8 /\ Stage("log") = 9
  /\ Stage("whoami") = 10 /\ Stage("verdict") = 11 /\ Stage("over") = 12
  BY DEF Stage

(* A store per interface keeps what interfaces 0 and 2 are told.           *)
LEMMA PerInterfaceSets ==
  ASSUME NEW d \in Guests, d.store = "per_interface",
         NEW i \in {0, 2}, NEW v \in Rates
  PROVE  /\ SetIdle(d, i, v) \in Guests
         /\ SetIdle(d, i, v).store = "per_interface"
         /\ SetIdle(d, i, v).idle[i] = v
         /\ \A j \in Interfaces \ {i} : SetIdle(d, i, v).idle[j] = d.idle[j]
<1>1. i \in Interfaces /\ i # 1
  BY Names
<1>2. SetIdle(d, i, v) \in Guests /\ SetIdle(d, i, v).store = "per_interface"
  BY <1>1, SetIdleIs
<1>3. SetIdle(d, i, v) = [d EXCEPT !.idle[i] = v]
  BY <1>1 DEF SetIdle
<1>4. SetIdle(d, i, v).idle = [d.idle EXCEPT ![i] = v]
  BY <1>3 DEF Guests
<1>5. d.idle \in [Interfaces -> Rates]
  BY DEF Guests
<1> QED
  BY <1>1, <1>2, <1>4, <1>5

(* The three interfaces are different ones.                                *)
LEMMA Others ==
  0 \in Interfaces \ {2} /\ 1 \in Interfaces \ {2} /\ 1 \in Interfaces \ {0}
  BY DEF Interfaces

(* Such a store keeps what interface 0 is told,                            *)
LEMMA PerInterfaceSet ==
  ASSUME TypeOK, guest.store = "per_interface", NEW v \in Bytes
  PROVE  /\ SetIdle(guest, 0, v).idle[0] = v
         /\ SetIdle(guest, 0, v).idle[1] = guest.idle[1]
<1>1. guest \in Guests /\ v \in Rates /\ 0 \in {0, 2}
  BY RatesAre DEF TypeOK, GuestType
<1>2. /\ SetIdle(guest, 0, v) \in Guests
      /\ SetIdle(guest, 0, v).store = "per_interface"
      /\ SetIdle(guest, 0, v).idle[0] = v
      /\ \A j \in Interfaces \ {0} : SetIdle(guest, 0, v).idle[j] = guest.idle[j]
  BY <1>1, PerInterfaceSets, Zenon
<1> QED
  BY <1>2, Others

(* what each of the interfaces but 1 is told,                              *)
LEMMA PerInterfaceSetAll ==
  ASSUME TypeOK, guest.store = "per_interface", NEW sent \in [Interfaces -> Bytes]
  PROVE  /\ SetAll(guest, sent).idle[0] = sent[0]
         /\ SetAll(guest, sent).idle[1] = guest.idle[1]
         /\ SetAll(guest, sent).idle[2] = sent[2]
<1> DEFINE d == SetIdle(guest, 0, sent[0])
           f == SetIdle(d, 1, sent[1])
<1>1. /\ sent[0] \in Rates /\ sent[1] \in Rates /\ sent[2] \in Rates
      /\ guest \in Guests /\ 1 \in Interfaces
  BY Names, RatesAre DEF TypeOK, GuestType
<1>2. /\ d \in Guests /\ d.store = "per_interface"
      /\ d.idle[0] = sent[0] /\ d.idle[1] = guest.idle[1]
  <2>1. 0 \in {0, 2} /\ 1 \in Interfaces \ {0}
    BY Others
  <2>2. /\ d \in Guests /\ d.store = "per_interface" /\ d.idle[0] = sent[0]
        /\ \A j \in Interfaces \ {0} : d.idle[j] = guest.idle[j]
    BY <1>1, <2>1, PerInterfaceSets, Zenon
  <2> QED
    BY <2>1, <2>2
<1> HIDE DEF d
<1>3. f \in Guests /\ f.store = "per_interface"
  BY <1>1, <1>2, SetIdleIs
<1>4. f.idle = d.idle
  <2>1. f = [d EXCEPT !.idle[1] = d.idle[1]]
    BY <1>2 DEF SetIdle
  <2>2. f.idle = [d.idle EXCEPT ![1] = d.idle[1]]
    BY <1>2, <2>1 DEF Guests
  <2>3. d.idle \in [Interfaces -> Rates]
    BY <1>2 DEF Guests
  <2> QED
    BY <2>2, <2>3
<1> HIDE DEF f
<1>5. /\ SetIdle(f, 2, sent[2]).idle[2] = sent[2]
      /\ \A j \in Interfaces \ {2} : SetIdle(f, 2, sent[2]).idle[j] = f.idle[j]
  BY <1>1, <1>3, PerInterfaceSets, ZenonT(30)
<1>6. SetAll(guest, sent) = SetIdle(f, 2, sent[2])
  BY DEF SetAll, d, f
<1> QED
  BY <1>2, <1>4, <1>5, <1>6, Names

(* and the swapped bytes.                                                  *)
LEMMA PerInterfaceSwap ==
  ASSUME TypeOK, guest.store = "per_interface", NEW a \in Rates, NEW b \in Bytes
  PROVE  /\ FollowedSwap(SetIdle(SetIdle(guest, 0, b), 2, a), a, b)
         /\ SetIdle(SetIdle(guest, 0, b), 2, a).idle[1] = guest.idle[1]
<1> DEFINE d == SetIdle(guest, 0, b)
<1>1. guest \in Guests /\ b \in Rates /\ Interfaces = {0, 1, 2}
  BY Names, RatesAre DEF TypeOK, GuestType
<1>2. /\ d \in Guests /\ d.store = "per_interface"
      /\ d.idle[0] = b /\ d.idle[1] = guest.idle[1]
  <2>1. 0 \in {0, 2} /\ 1 \in Interfaces \ {0}
    BY Others
  <2>2. /\ d \in Guests /\ d.store = "per_interface" /\ d.idle[0] = b
        /\ \A j \in Interfaces \ {0} : d.idle[j] = guest.idle[j]
    BY <1>1, <2>1, PerInterfaceSets, ZenonT(30)
  <2> QED
    BY <2>1, <2>2
<1> HIDE DEF d
<1>3. /\ SetIdle(d, 2, a).idle[2] = a
      /\ \A j \in Interfaces \ {2} : SetIdle(d, 2, a).idle[j] = d.idle[j]
  BY <1>2, PerInterfaceSets
<1>4. SetIdle(d, 2, a).idle[0] = d.idle[0] /\ SetIdle(d, 2, a).idle[1] = d.idle[1]
  BY <1>3, Others
<1>5. FollowedSwap(SetIdle(d, 2, a), a, b)
      /\ SetIdle(d, 2, a).idle[1] = guest.idle[1]
  BY <1>2, <1>3, <1>4 DEF FollowedSwap
<1> QED
  BY <1>5 DEF d

(* A run that is genuine so far was so before the step.                    *)
LEMMA GenuineBack ==
  TypeOK /\ [Next]_vars /\ Genuine' =>
    /\ ~run.control /\ ~guest.keys /\ guest.store = "per_interface"
    /\ guest.handler = "as_declared" /\ run.lost = 0 /\ ~run.missed
    /\ "serial" \in run.passed \/ Enumerate
<1> SUFFICES ASSUME TypeOK, [Next]_vars, Genuine'
             PROVE  /\ run.lost = 0 /\ ~run.missed
                    /\ "serial" \in run.passed \/ Enumerate
  BY ControlKept, GuestKept DEF Genuine
<1>1. CASE Enumerate
  BY <1>1, EnumerateIs DEF Genuine
<1>2. CASE ClassRequests
  <2>1. run'.passed \subseteq run.passed \cup {"protocol", "idle", "refusals"}
    BY <1>2, ClassIs DEF StepTo, If
  <2> QED
    BY <1>2, <2>1, ClassIs DEF Genuine
<1>3. CASE PressKey \/ Turn
  BY <1>3, PressKeyIs, TurnIs DEF Genuine, StepTo
<1>4. CASE KeyReleased \/ Rotated
  <2>1. run'.passed \subseteq run.passed \cup {"inert", "rotations"}
    BY <1>4, KeyReleasedIs, RotatedIs DEF StepTo, If
  <2> QED
    BY <1>4, <2>1, KeyReleasedIs, RotatedIs DEF Genuine
<1>5. CASE Turned
  <2>1. "serial" \notin Endpoint(FirstPress(run.reports))
    BY DEF Endpoint
  <2> QED
    BY <1>5, <2>1, TurnedIs DEF Genuine, StepTo
<1>6. CASE AskInterfaces
  <2>1. run'.passed \subseteq run.passed \cup FaceNames
    BY <1>6, AskInterfacesIs
  <2> QED
    BY <1>6, <2>1, AskInterfacesIs DEF Genuine, FaceNames
<1>7. CASE Swap
  <2>1. run'.passed \subseteq run.passed \cup {"distinct_before", "per_interface"}
    BY <1>7, SwappedIs DEF StepTo, If
  <2> QED
    BY <1>7, <2>1, SwappedIs DEF Genuine
<1>8. CASE Malformed
  <2>1. run'.passed \subseteq run.passed \cup {"adversarial"}
    BY <1>8, MalformedIs DEF StepTo
  <2> QED
    BY <1>8, <2>1, MalformedIs DEF Genuine
<1>9. CASE Recover
  <2>1. run'.passed \subseteq run.passed \cup {"recovered"}
    BY <1>9, RecoverIs DEF StepTo, If
  <2> QED
    BY <1>9, <2>1, RecoverIs DEF Genuine
<1>10. CASE SearchLog \/ WhoAmI
  <2>1. run'.passed \subseteq run.passed \cup {"quiet", "rechallenged", "image"}
    BY <1>10, SearchLogIs, WhoAmIIs DEF StepTo
  <2> QED
    BY <1>10, <2>1, SearchLogIs, WhoAmIIs DEF Genuine
<1>11. CASE AwardMilestone \/ Raise \/ Report \/ RepeatIdle \/ Crash \/ UNCHANGED vars
  BY <1>11, RestIs DEF Genuine
<1> QED
  BY <1>1, <1>2, <1>3, <1>4, <1>5, <1>6, <1>7, <1>8, <1>9, <1>10, <1>11
     DEF Next, Questions

(* Every step keeps the books.                                             *)
LEMMA NextLedger == TypeOK /\ Ledger /\ [Next]_vars => Ledger'
<1> SUFFICES ASSUME TypeOK, Ledger, [Next]_vars PROVE Ledger'
  OBVIOUS
<1>0. guest'.store = guest.store /\ guest'.keys = guest.keys
      /\ guest \in Guests /\ 1 \in Interfaces \ {0} /\ 1 \in Interfaces
  BY GuestKept, Names DEF TypeOK, GuestType
<1>1. ASSUME NEW from, NEW to, NEW new, StepTo(from, to, new),
             guest.store = "per_interface" => guest'.idle[1] = guest.idle[1],
             to \notin {"key", "over", "enumerate"},
             new \cap {"distinct_before", "stored1"} = {},
             to \in Unswapped => from \in Unswapped
      PROVE  Ledger'
  BY <1>0, <1>1 DEF StepTo, Ledger
<1>2. CASE Enumerate
  <2>1. PICK got \in EnumerationPrefixes : StepTo("enumerate", "class", got)
    BY <1>2, EnumerateIs
  <2>2. got \cap {"distinct_before", "stored1"} = {}
    BY DEF EnumerationPrefixes
  <2> QED
    BY <1>1, <1>2, <2>1, <2>2, EnumerateIs DEF Unswapped, Early
<1>3. CASE ClassRequests
  <2>1. PICK new \in SUBSET {"protocol", "idle", "refusals"} :
          StepTo("class", "press", new)
    BY <1>3, ClassIs DEF If
  <2>2. guest' = guest \/ \E v \in Bytes : guest' = SetIdle(guest, 0, v)
    BY <1>3, ClassIs
  <2>3. ASSUME NEW v \in Bytes, guest.store = "per_interface"
        PROVE  SetIdle(guest, 0, v).idle[1] = guest.idle[1]
    BY <2>3, PerInterfaceSet
  <2>4. guest.store = "per_interface" => guest'.idle[1] = guest.idle[1]
    BY <2>2, <2>3
  <2> QED
    BY <1>1, <2>1, <2>4 DEF Unswapped, Early
<1>4. CASE PressKey
  <2>1. /\ run.pc = "press" /\ run'.pc = "key" /\ run'.passed = run.passed
        /\ run'.reports = <<>> /\ guest'.idle = guest.idle
        /\ ~guest.keys => guest'.owed = {}
    BY <1>4, PressKeyIs DEF StepTo
  <2>2. \A n \in DOMAIN run'.reports : run'.reports[n].frame = Release.frame
    BY <2>1
  <2> QED
    BY <1>0, <2>1, <2>2 DEF Ledger, Unswapped, Early
<1>5. CASE KeyReleased
  <2>1. PICK new \in SUBSET {"inert"} : StepTo("key", "rotate", new)
    BY <1>5, KeyReleasedIs DEF If
  <2> QED
    BY <1>1, <1>5, <2>1, KeyReleasedIs DEF Unswapped, Early
<1>6. CASE Turn
  BY <1>1, <1>6, TurnIs DEF Unswapped, Early
<1>7. CASE Turned
  <2>1. PICK new \in SUBSET {"ep1", "ep2"} : StepTo("turning", "rotate", new)
    BY <1>7, TurnedIs DEF Endpoint
  <2> QED
    BY <1>1, <1>7, <2>1, TurnedIs DEF Unswapped, Early
<1>8. CASE Rotated
  <2>1. PICK new \in SUBSET {"rotations"} : StepTo("rotate", "interfaces", new)
    BY <1>8, RotatedIs DEF If
  <2> QED
    BY <1>1, <1>8, <2>1, RotatedIs DEF Unswapped, Early
<1>9. CASE AskInterfaces
  <2>1. run.pc = "interfaces" /\ run'.pc = "swap"
    BY <1>9, AskInterfacesIs
  <2>2. CASE "inventory" \notin run.passed
    <3>1. run'.passed = run.passed /\ guest' = guest
      BY <1>9, <2>2, AskInterfacesIs
    <3> QED
      BY <2>1, <3>1 DEF Unswapped, Early, Ledger
  <2>3. CASE "inventory" \in run.passed
    <3>1. PICK sent \in [Interfaces -> Bytes] :
            /\ guest' = SetAll(guest, sent)
            /\ \A i \in Interfaces : Stored(i) \in run'.passed =>
                 Stored(i) \in run.passed \/ guest'.idle[i] = sent[i]
      BY <1>9, <2>3, AskInterfacesIs, Zenon
    <3>2. run'.passed \subseteq run.passed \cup FaceNames
          /\ run.passed \ {"ep1", "ep2"} \subseteq run'.passed
      BY <1>9, <2>3, AskInterfacesIs
    <3>3. guest.store = "per_interface" => guest'.idle[1] = guest.idle[1]
      BY <3>1, PerInterfaceSetAll
    <3>4. sent[1] \in Bytes /\ sent[1] # 0
      BY <1>0, RatesAre
    <3>5. guest.store = "per_interface" => guest'.idle[1] = 0 /\ "stored1" \notin run'.passed
      BY <1>0, <3>1, <3>3, <3>4, Names DEF Ledger
    <3>6. Greeting \subseteq run'.passed /\ "distinct_before" \notin run'.passed
      BY <2>1, <3>2 DEF Unswapped, Early, Ledger, FaceNames, Greeting
    <3> QED
      BY <1>0, <2>1, <3>5, <3>6 DEF Ledger
  <2> QED
    BY <2>2, <2>3
<1>10. CASE Swap
  <2>1. run.pc = "swap" /\ run'.pc = "malformed" /\ run.passed \subseteq run'.passed
        /\ run'.passed \subseteq run.passed \cup {"distinct_before", "per_interface"}
    BY <1>10, SwappedIs DEF StepTo, If
  <2>2. guest' = guest \/ \E a \in Rates, b \in Bytes :
          guest' = SetIdle(SetIdle(guest, 0, b), 2, a)
    BY <1>10, SwappedIs, Zenon
  <2>3. ASSUME guest.store = "per_interface" PROVE guest'.idle[1] = guest.idle[1]
    <3>1. \A a \in Rates, b \in Bytes :
            SetIdle(SetIdle(guest, 0, b), 2, a).idle[1] = guest.idle[1]
      BY <2>3, PerInterfaceSwap
    <3> QED
      BY <2>2, <3>1
  <2> QED
    BY <1>0, <2>1, <2>3 DEF Unswapped, Early, Ledger
<1>11. CASE Malformed
  <2>1. PICK new \in SUBSET {"adversarial"} : StepTo("malformed", "recover", new)
    BY <1>11, MalformedIs
  <2> QED
    BY <1>1, <1>11, <2>1, MalformedIs DEF Unswapped, Early
<1>12. CASE Recover
  <2>1. PICK new \in SUBSET {"recovered"} : StepTo("recover", "log", new)
    BY <1>12, RecoverIs DEF If
  <2>2. guest.store = "per_interface" => guest'.idle[1] = guest.idle[1]
    BY <1>0, <1>12, RecoverIs DEF Ledger
  <2> QED
    BY <1>1, <2>1, <2>2 DEF Unswapped, Early
<1>13. CASE SearchLog
  <2>1. PICK new \in SUBSET {"quiet"} : StepTo("log", "whoami", new)
    BY <1>13, SearchLogIs
  <2> QED
    BY <1>1, <1>13, <2>1, SearchLogIs DEF Unswapped, Early
<1>14. CASE WhoAmI
  <2>1. PICK new \in SUBSET {"rechallenged", "image"} :
          StepTo("whoami", "verdict", new)
    BY <1>14, WhoAmIIs
  <2> QED
    BY <1>1, <1>14, <2>1, WhoAmIIs DEF Unswapped, Early
<1>15. CASE AwardMilestone \/ Raise \/ Report \/ RepeatIdle \/ Crash \/ UNCHANGED vars
  <2>1. ASSUME run'.pc = "key", ~guest'.keys
        PROVE  \A n \in DOMAIN run'.reports : run'.reports[n].frame = Release.frame
    <3>1. run.pc = "key" /\ guest.owed = {}
          /\ \A n \in DOMAIN run.reports : run.reports[n].frame = Release.frame
      BY <1>0, <1>15, <2>1, RestIs DEF Ledger
    <3>2. run'.reports = run.reports \/ run'.reports = <<Release>>
      BY <1>15, <3>1 DEF AwardMilestone, Raise, Report, RepeatIdle, Crash, vars,
         TypeOK, RunType
    <3>3. \A n \in DOMAIN <<Release>> : <<Release>>[n] = Release
      OBVIOUS
    <3> QED
      BY <3>1, <3>2, <3>3
  <2>2. run'.pc = "key" => run.pc = "key"
    BY <1>15, RestIs
  <2> QED
    BY <1>0, <1>15, <2>1, <2>2, RestIs DEF Unswapped, Early, Ledger
<1> QED
  BY <1>2, <1>3, <1>4, <1>5, <1>6, <1>7, <1>8, <1>9, <1>10, <1>11, <1>12, <1>13,
     <1>14, <1>15 DEF Next, Questions

(* What is due from each stage.                                            *)
LEMMA DueIs ==
  ASSUME NEW passed, NEW hurt
  PROVE  /\ Due(1, passed, hurt) = Enumerated /\ Due(2, passed, hurt) = ClassDone
         /\ Due(3, passed, hurt) = {} /\ Due(4, passed, hurt) = {"inert"}
         /\ Due(5, passed, hurt) = {"rotations"} /\ Due(6, passed, hurt) = FacesDone
         /\ Due(7, passed, hurt) =
              (IF "distinct_before" \in passed THEN {"per_interface"} ELSE {})
         /\ Due(8, passed, hurt) = {"adversarial"}
         /\ Due(9, passed, hurt) = (IF hurt = {} THEN {"recovered"} ELSE {})
         /\ Due(10, passed, hurt) = {"quiet"}
         /\ Due(11, passed, hurt) = {"rechallenged", "image"}
         /\ Due(12, passed, hurt) = {}
  BY DEF Due

(* No more becomes due of a stage that is over.                            *)
LEMMA DueStays ==
  ASSUME NEW m \in 1 .. 12, NEW passed, NEW hurt, NEW now, NEW harm,
         m = 7 => ("distinct_before" \in now => "distinct_before" \in passed),
         m = 9 => harm = hurt
  PROVE  /\ Due(m, now, harm) \subseteq Due(m, passed, hurt)
         /\ Due(m, passed, hurt) \cap {"ep1", "ep2"} = {}
<1>1. CASE m \in {1, 2, 6}
  <2>1. Due(m, now, harm) = Due(m, passed, hurt)
    BY <1>1, DueIs
  <2>2. Due(m, passed, hurt) \in {Enumerated, ClassDone, FacesDone}
    BY <1>1, DueIs
  <2> QED
    BY <2>1, <2>2 DEF Enumerated, ClassDone, FacesDone
<1>2. CASE m \in {3, 4, 5, 8}
  <2>1. CASE m = 3
    BY <2>1, DueIs
  <2>2. CASE m = 4
    BY <2>2, DueIs
  <2>3. CASE m = 5
    BY <2>3, DueIs
  <2>4. CASE m = 8
    BY <2>4, DueIs
  <2> QED
    BY <1>2, <2>1, <2>2, <2>3, <2>4
<1>3. CASE m \in {10, 11, 12}
  <2>1. CASE m = 10
    BY <2>1, DueIs
  <2>2. CASE m = 11
    BY <2>2, DueIs
  <2>3. CASE m = 12
    BY <2>3, DueIs
  <2> QED
    BY <1>3, <2>1, <2>2, <2>3
<1>4. CASE m = 7
  BY <1>4, DueIs
<1>5. CASE m = 9
  BY <1>5, DueIs
<1>6. m \in {1, 2, 6} \/ m \in {3, 4, 5, 8} \/ m \in {10, 11, 12} \/ m = 7 \/ m = 9
  OBVIOUS
<1> QED
  BY <1>1, <1>2, <1>3, <1>4, <1>5, <1>6

(* A stage passes what it is due, and takes nothing back that an earlier   *)
(* one has passed.                                                         *)
LEMMA EarnsStep ==
  ASSUME Earns, NEW k \in Nat, NEW n \in Nat,
         Stage(run.pc) = k, Stage(run'.pc) = n, n <= k + 1,
         run.passed \ {"ep1", "ep2"} \subseteq run'.passed,
         k >= 7 => ("distinct_before" \in run'.passed => "distinct_before" \in run.passed),
         k >= 9 => guest'.hurt = guest.hurt,
         n = k + 1 => Due(n, run'.passed, guest'.hurt) \subseteq run'.passed
  PROVE  Earns'
<1> SUFFICES ASSUME NEW m \in 1 .. 12, m <= n
             PROVE  Due(m, run'.passed, guest'.hurt) \subseteq run'.passed
  BY DEF Earns
<1>1. CASE m = n /\ n = k + 1
  BY <1>1
<1>2. CASE m <= k
  <2>1. Due(m, run.passed, guest.hurt) \subseteq run.passed
    BY <1>2 DEF Earns
  <2>2. k >= m
    BY <1>2
  <2>3. /\ m = 7 => ("distinct_before" \in run'.passed => "distinct_before" \in run.passed)
        /\ m = 9 => guest'.hurt = guest.hurt
    BY <2>2
  <2>4. /\ Due(m, run'.passed, guest'.hurt) \subseteq Due(m, run.passed, guest.hurt)
        /\ Due(m, run.passed, guest.hurt) \cap {"ep1", "ep2"} = {}
    BY <2>3, DueStays
  <2> QED
    BY <2>1, <2>4
<1>3. m <= k \/ (m = n /\ n = k + 1)
  <2>1. m \in Nat /\ m <= n /\ n <= k + 1
    OBVIOUS
  <2> QED
    BY <2>1
<1> QED
  BY <1>1, <1>2, <1>3

(* What each step of a genuine run adds is what its stage is due.          *)
LEMMA NextEarns ==
  TypeOK /\ ReportsHonest /\ Ledger /\ GenuineEarns /\ [Next]_vars => GenuineEarns'
<1> SUFFICES ASSUME TypeOK, ReportsHonest, Ledger, GenuineEarns, [Next]_vars, Genuine'
             PROVE  (Earns /\ Heard)'
  BY DEF GenuineEarns
<1>1. /\ ~run.control /\ ~guest.keys /\ guest.store = "per_interface"
      /\ guest.handler = "as_declared" /\ run.lost = 0 /\ ~run.missed
      /\ "serial" \in run.passed \/ Enumerate
  BY GenuineBack
<1>2. run'.lost = 0 /\ ~run'.missed /\ guest'.store = "per_interface"
  BY DEF Genuine
<1>3. ASSUME run'.pc \notin {"rotate", "turning", "interfaces"} PROVE Heard'
  BY <1>3 DEF Heard
<1>4. CASE Enumerate
  <2>1. PICK got \in EnumerationPrefixes : StepTo("enumerate", "class", got)
    BY <1>4, EnumerateIs
  <2>2. Stage(run.pc) = 0 /\ Stage(run'.pc) = 1
    BY <2>1, StageIs DEF StepTo
  <2>3. "serial" \in got
    BY <2>1 DEF Ledger, StepTo, Genuine
  <2>4. Enumerated \subseteq got
    BY <2>3 DEF EnumerationPrefixes, Enumerated
  <2>5. Due(1, run'.passed, guest'.hurt) \subseteq run'.passed
    BY <2>1, <2>4, DueIs DEF StepTo
  <2>6. Earns
    BY <2>2 DEF Earns
  <2>7. run.passed \ {"ep1", "ep2"} \subseteq run'.passed
    BY <2>1 DEF StepTo
  <2>8. 0 \in Nat /\ 1 \in Nat /\ 1 <= 0 + 1 /\ ~(0 >= 7) /\ ~(0 >= 9)
    OBVIOUS
  <2>9. Earns'
    BY <2>2, <2>5, <2>6, <2>7, <2>8, EarnsStep
  <2> QED
    BY <1>3, <2>1, <2>9 DEF StepTo
<1>5. CASE ~Enumerate
  <2>1. Earns /\ Heard
    BY <1>1, <1>5 DEF GenuineEarns, Genuine
  <2>2. ASSUME Stage(run.pc) >= 1 PROVE "inventory" \in run.passed
    <3>1. Due(1, run.passed, guest.hurt) \subseteq run.passed
      BY <2>1, <2>2 DEF Earns
    <3> QED
      BY <3>1, DueIs DEF Enumerated
  <2>3. CASE ClassRequests
    <3>1. PICK bits \in [1 .. 2 -> {0, 1}], v \in Bytes :
            /\ guest' = SetIdle(guest, 0, v)
            /\ StepTo("class", "press",
                 (If(\A n \in 1 .. 2 : ProtocolAnswer(guest', bits, n) = bits[n],
                     "protocol")
                  \cup If(guest'.idle[0] = v, "idle") \cup {"refusals"}) \ {})
      <4>1. \E bits \in [1 .. 2 -> {0, 1}], v \in Bytes,
               lost \in SUBSET {"protocol", "idle", "refusals"} :
              /\ run'.lost = 0 => lost = {}
              /\ guest' = SetIdle(guest, 0, v)
              /\ StepTo("class", "press",
                   (If(\A n \in 1 .. 2 : ProtocolAnswer(guest', bits, n) = bits[n],
                       "protocol")
                    \cup If(guest'.idle[0] = v, "idle") \cup {"refusals"}) \ lost)
        BY <1>1, <2>3, ClassIs, Zenon
      <4>2. PICK bits \in [1 .. 2 -> {0, 1}], v \in Bytes,
                 lost \in SUBSET {"protocol", "idle", "refusals"} :
              /\ run'.lost = 0 => lost = {}
              /\ guest' = SetIdle(guest, 0, v)
              /\ StepTo("class", "press",
                   (If(\A n \in 1 .. 2 : ProtocolAnswer(guest', bits, n) = bits[n],
                       "protocol")
                    \cup If(guest'.idle[0] = v, "idle") \cup {"refusals"}) \ lost)
        BY <4>1, Zenon
      <4>3. lost = {}
        BY <1>2, <4>2
      <4> QED
        BY <4>2, <4>3, Zenon
    <3>2. \A n \in 1 .. 2 : ProtocolAnswer(guest', bits, n) = bits[n]
      BY <1>2 DEF ProtocolAnswer
    <3>3. guest'.idle[0] = v
      BY <1>1, <3>1, PerInterfaceSet
    <3>4. StepTo("class", "press", ClassDone)
      BY <3>1, <3>2, <3>3 DEF If, ClassDone
    <3>5. Stage(run.pc) = 1 /\ Stage(run'.pc) = 2
      BY <3>4, StageIs DEF StepTo
    <3>6. Due(2, run'.passed, guest'.hurt) \subseteq run'.passed
      BY <3>4, DueIs DEF StepTo
    <3>7. Earns'
      BY <2>1, <3>4, <3>5, <3>6, EarnsStep DEF StepTo
    <3> QED
      BY <1>3, <3>4, <3>7 DEF StepTo
  <2>4. CASE PressKey
    <3>1. StepTo("press", "key", {})
      BY <2>4, PressKeyIs
    <3>2. Stage(run.pc) = 2 /\ Stage(run'.pc) = 3
      BY <3>1, StageIs DEF StepTo
    <3>3. Due(3, run'.passed, guest'.hurt) \subseteq run'.passed
      BY DueIs
    <3>4. Earns'
      BY <2>1, <3>1, <3>2, <3>3, EarnsStep DEF StepTo
    <3> QED
      BY <1>3, <3>1, <3>4 DEF StepTo
  <2>5. CASE KeyReleased
    <3>1. /\ StepTo("key", "rotate",
                    If(FirstPress(run.reports) = Nothing /\ ~run.control, "inert"))
          /\ run'.plan = Rotations
      BY <2>5, KeyReleasedIs
    <3>2. \A n \in DOMAIN run.reports : run.reports[n].frame = Release.frame
      BY <1>1, <3>1 DEF Ledger, StepTo
    <3>3. FirstPress(run.reports) = Nothing
      <4>1. run.reports \in Seq(Reports)
        BY DEF TypeOK, RunType
      <4> QED
        BY <3>2, <4>1, FirstPressIs
    <3>4. StepTo("key", "rotate", {"inert"})
      BY <1>1, <3>1, <3>3 DEF If
    <3>5. Stage(run.pc) = 3 /\ Stage(run'.pc) = 4
      BY <3>4, StageIs DEF StepTo
    <3>6. Due(4, run'.passed, guest'.hurt) \subseteq run'.passed
      BY <3>4, DueIs DEF StepTo
    <3>7. Earns'
      BY <2>1, <3>4, <3>5, <3>6, EarnsStep DEF StepTo
    <3>8. Graded' = {} /\ run'.pc = "rotate"
      BY <3>1, <3>4 DEF Graded, StepTo
    <3> QED
      BY <3>7, <3>8 DEF Heard
  <2>6. CASE Turn
    <3>1. PICK o \in run.plan :
            /\ StepTo("rotate", "turning", {})
            /\ run'.plan = run.plan \ {o} /\ run'.turning = o
            /\ guest'.hurt = guest.hurt
      BY <2>6, TurnIs
    <3>2. Stage(run.pc) = 4 /\ Stage(run'.pc) = 4
      BY <3>1, StageIs DEF StepTo
    <3>3. Earns'
      BY <2>1, <3>1, <3>2, EarnsStep DEF StepTo
    <3>4. Graded' = Graded
      BY <3>1 DEF Graded, StepTo
    <3> QED
      BY <2>1, <3>1, <3>3, <3>4 DEF Heard, StepTo
  <2>7. CASE Turned
    <3>1. /\ StepTo("turning", "rotate", Endpoint(FirstPress(run.reports)))
          /\ Matches /\ run'.plan = run.plan
      BY <1>2, <2>7, TurnedIs
    <3>2. Stage(run.pc) = 4 /\ Stage(run'.pc) = 4
      BY <3>1, StageIs DEF StepTo
    <3>3. Earns'
      BY <2>1, <3>1, <3>2, EarnsStep DEF StepTo
    <3>4. FirstPress(run.reports) = run.turning
      BY <3>1 DEF Matches, Frame
    <3>5. Graded' \subseteq Graded \cup {run.turning}
      BY <3>1 DEF Graded, StepTo
    <3>6. \A o \in Graded' : Endpoint(o) \subseteq run'.passed
      BY <2>1, <3>1, <3>4, <3>5 DEF Heard, StepTo
    <3> QED
      BY <3>1, <3>3, <3>6 DEF Heard, StepTo
  <2>8. CASE Rotated
    <3>1. StepTo("rotate", "interfaces", {"rotations"}) /\ run.plan = {}
      BY <1>1, <2>8, RotatedIs DEF If
    <3>2. Stage(run.pc) = 4 /\ Stage(run'.pc) = 5
      BY <3>1, StageIs DEF StepTo
    <3>3. Due(5, run'.passed, guest'.hurt) \subseteq run'.passed
      BY <3>1, DueIs DEF StepTo
    <3>4. Earns'
      BY <2>1, <3>1, <3>2, <3>3, EarnsStep DEF StepTo
    <3>5. PICK v \in Volume, w \in Rotations \ Volume : TRUE
      BY AttackAssumption
    <3>6. v \in Graded /\ w \in Graded
      BY <3>1, <3>5, AttackAssumption DEF Graded, StepTo
    <3>7. Endpoint(v) = {"ep2"} /\ Endpoint(w) = {"ep1"}
      BY <3>5, AttackAssumption DEF Endpoint
    <3>8. {"ep1", "ep2"} \subseteq run'.passed
      BY <2>1, <3>1, <3>6, <3>7 DEF Heard, StepTo
    <3> QED
      BY <3>1, <3>4, <3>8 DEF Heard, StepTo
  <2>9. CASE AskInterfaces
    <3>1. run.pc = "interfaces" /\ run'.pc = "swap"
      BY <2>9, AskInterfacesIs
    <3>2. Stage(run.pc) = 5 /\ Stage(run'.pc) = 6
      BY <3>1, StageIs
    <3>3. "inventory" \in run.passed
      BY <2>2, <3>2
    <3>4. /\ run'.passed \subseteq run.passed \cup FaceNames
          /\ run.passed \ {"ep1", "ep2"} \subseteq run'.passed
      BY <2>9, <3>3, AskInterfacesIs
    <3>5. PICK sent \in [Interfaces -> Bytes] :
            /\ guest' = SetAll(guest, sent)
            /\ run'.lost = 0 => \A i \in Interfaces :
                 guest'.idle[i] = sent[i] => Stored(i) \in run'.passed
            /\ \A i \in Met(guest.handler) :
                 /\ i = 0 /\ {"protocol", "ep1"} \subseteq run.passed
                      => Iface(i) \in run'.passed
                 /\ i = 1 /\ "ep2" \in run.passed => Iface(i) \in run'.passed
                 /\ i = 2 /\ run'.lost = 0 /\ guest'.idle[i] = sent[i]
                      => Iface(i) \in run'.passed
      BY <2>9, <3>3, AskInterfacesIs, Zenon
    <3>6. guest'.idle[0] = sent[0] /\ guest'.idle[2] = sent[2]
      BY <1>1, <3>5, PerInterfaceSetAll
    <3>7. "stored0" \in run'.passed /\ "stored2" \in run'.passed
      BY <1>2, <3>5, <3>6, Names
    <3>8. "protocol" \in run.passed
      <4>1. Due(2, run.passed, guest.hurt) \subseteq run.passed
        BY <2>1, <3>2 DEF Earns
      <4> QED
        BY <4>1, DueIs DEF ClassDone
    <3>9. {"ep1", "ep2"} \subseteq run.passed
      BY <2>1, <3>1 DEF Heard
    <3>10. Met(guest.handler) = {0, 1, 2}
      BY <1>1, Names DEF Met
    <3>11. "iface0" \in run'.passed /\ "iface1" \in run'.passed /\ "iface2" \in run'.passed
      BY <1>2, <3>5, <3>6, <3>8, <3>9, <3>10, Names
    <3>12. Due(6, run'.passed, guest'.hurt) \subseteq run'.passed
      BY <3>7, <3>11, DueIs DEF FacesDone
    <3>13. Earns'
      BY <2>1, <3>2, <3>4, <3>12, EarnsStep
    <3> QED
      BY <1>3, <3>1, <3>13
  <2>10. CASE Swap
    <3>1. run.pc = "swap" /\ run'.pc = "malformed" /\ run.passed \subseteq run'.passed
      BY <2>10, SwappedIs DEF StepTo
    <3>2. Stage(run.pc) = 6 /\ Stage(run'.pc) = 7
      BY <3>1, StageIs
    <3>3. "inventory" \in run.passed /\ "distinct_before" \notin run.passed
      BY <2>2, <3>1, <3>2 DEF Ledger, Unswapped
    <3>4. PICK a \in Rates, b \in Bytes, differed \in BOOLEAN :
            /\ guest' = SetIdle(SetIdle(guest, 0, b), 2, a)
            /\ StepTo("swap", "malformed",
                 If(differed, "distinct_before") \cup
                 (If(differed /\ FollowedSwap(guest', a, b), "per_interface") \ {}))
      BY <1>2, <2>10, <3>3, SwappedIs
    <3>5. FollowedSwap(guest', a, b)
      BY <1>1, <3>4, PerInterfaceSwap
    <3>6. "distinct_before" \in run'.passed => "per_interface" \in run'.passed
      BY <3>3, <3>4, <3>5 DEF StepTo, If
    <3>7. Due(7, run'.passed, guest'.hurt) \subseteq run'.passed
      BY <3>6, DueIs
    <3>8. Earns'
      BY <2>1, <3>1, <3>2, <3>7, EarnsStep
    <3> QED
      BY <1>3, <3>1, <3>8
  <2>11. CASE Malformed
    <3>1. StepTo("malformed", "recover", {"adversarial"})
      BY <1>1, <1>2, <2>11, MalformedIs
    <3>2. Stage(run.pc) = 7 /\ Stage(run'.pc) = 8
      BY <3>1, StageIs DEF StepTo
    <3>3. Due(8, run'.passed, guest'.hurt) \subseteq run'.passed
      BY <3>1, DueIs DEF StepTo
    <3>4. Earns'
      BY <2>1, <3>1, <3>2, <3>3, EarnsStep DEF StepTo
    <3> QED
      BY <1>3, <3>1, <3>4 DEF StepTo
  <2>12. CASE Recover
    <3>1. guest'.hurt = guest.hurt
      BY <2>12, RecoverIs
    <3>2. run.pc = "recover" /\ run'.pc = "log" /\ run.passed \subseteq run'.passed
          /\ run'.passed \subseteq run.passed \cup {"recovered"}
      BY <2>12, RecoverIs DEF StepTo, If
    <3>3. Stage(run.pc) = 8 /\ Stage(run'.pc) = 9
      BY <3>2, StageIs
    <3>4. "inventory" \in run.passed
      BY <2>2, <3>3
    <3>5. PICK fresh \in [Interfaces -> Bytes] :
            StepTo("recover", "log",
              If(/\ \E i \in Interfaces : Stored(i) \in run.passed
                 /\ \A i \in Interfaces : Stored(i) \in run.passed =>
                      IdleAnswer(SetAll(guest, fresh), {}, i) = fresh[i],
                 "recovered"))
      BY <1>2, <2>12, <3>4, RecoverIs
    <3>6. Stored(0) \in run.passed
      <4>1. Due(6, run.passed, guest.hurt) \subseteq run.passed
        BY <2>1, <3>3 DEF Earns
      <4> QED
        BY <4>1, DueIs, Names DEF FacesDone
    <3>7. ASSUME guest.hurt = {}, NEW i \in Interfaces, Stored(i) \in run.passed
          PROVE  IdleAnswer(SetAll(guest, fresh), {}, i) = fresh[i]
      <4>1. i # 1
        BY <1>1, <3>7, Names DEF Ledger
      <4>2. i \in {0, 2}
        BY <4>1, Names
      <4>3. SetAll(guest, fresh).idle[0] = fresh[0]
            /\ SetAll(guest, fresh).idle[2] = fresh[2]
        BY <1>1, PerInterfaceSetAll
      <4>4. SetAll(guest, fresh).hurt = {}
        BY <3>7, SetAllIs
      <4> QED
        BY <4>2, <4>3, <4>4 DEF IdleAnswer
    <3>8. guest.hurt = {} => "recovered" \in run'.passed
      <4>1. 0 \in Interfaces
        BY Names
      <4> QED
        BY <3>5, <3>6, <3>7, <4>1 DEF If, StepTo
    <3>9. Due(9, run'.passed, guest'.hurt) \subseteq run'.passed
      BY <3>1, <3>8, DueIs
    <3>10. Earns'
      BY <2>1, <3>1, <3>2, <3>3, <3>9, EarnsStep
    <3> QED
      BY <1>3, <3>2, <3>10
  <2>13. CASE SearchLog
    <3>1. StepTo("log", "whoami", {"quiet"}) /\ guest' = guest
      BY <1>2, <2>13, SearchLogIs
    <3>2. Stage(run.pc) = 9 /\ Stage(run'.pc) = 10
      BY <3>1, StageIs DEF StepTo
    <3>3. Due(10, run'.passed, guest'.hurt) \subseteq run'.passed
      BY <3>1, DueIs DEF StepTo
    <3>4. Earns'
      BY <2>1, <3>1, <3>2, <3>3, EarnsStep DEF StepTo
    <3> QED
      BY <1>3, <3>1, <3>4 DEF StepTo
  <2>14. CASE WhoAmI
    <3>1. StepTo("whoami", "verdict", {"rechallenged", "image"}) /\ guest' = guest
      BY <1>2, <2>14, WhoAmIIs
    <3>2. Stage(run.pc) = 10 /\ Stage(run'.pc) = 11
      BY <3>1, StageIs DEF StepTo
    <3>3. Due(11, run'.passed, guest'.hurt) \subseteq run'.passed
      BY <3>1, DueIs DEF StepTo
    <3>4. Earns'
      BY <2>1, <3>1, <3>2, <3>3, EarnsStep DEF StepTo
    <3> QED
      BY <1>3, <3>1, <3>4 DEF StepTo
  <2>15. CASE AwardMilestone \/ Raise \/ Report \/ RepeatIdle \/ Crash \/ UNCHANGED vars
    <3>1. /\ run'.passed = run.passed /\ run'.plan = run.plan
          /\ run'.turning = run.turning /\ guest'.hurt = guest.hurt
          /\ \/ run'.pc = run.pc
             \/ run'.pc = "raised"
             \/ run.pc = "verdict" /\ run'.pc = "over"
      BY <2>15, RestIs
    <3>2. CASE run'.pc = run.pc
      <4>1. Earns'
        BY <2>1, <3>1, <3>2 DEF Earns
      <4>2. Graded' = Graded
        BY <3>1, <3>2 DEF Graded
      <4> QED
        BY <2>1, <3>1, <3>2, <4>1, <4>2 DEF Heard
    <3>3. CASE run'.pc = "raised"
      <4>1. Stage(run'.pc) = 0
        BY <3>3, StageIs
      <4>2. Earns'
        BY <4>1 DEF Earns
      <4> QED
        BY <1>3, <3>3, <4>2
    <3>4. CASE run.pc = "verdict" /\ run'.pc = "over"
      <4>1. Stage(run.pc) = 11 /\ Stage(run'.pc) = 12
        BY <3>4, StageIs
      <4>2. Due(12, run'.passed, guest'.hurt) \subseteq run'.passed
        BY DueIs
      <4>3. Earns'
        BY <2>1, <3>1, <4>1, <4>2, EarnsStep
      <4> QED
        BY <1>3, <3>4, <4>3
    <3> QED
      BY <3>1, <3>2, <3>3, <3>4
  <2> QED
    BY <1>5, <2>3, <2>4, <2>5, <2>6, <2>7, <2>8, <2>9, <2>10, <2>11, <2>12, <2>13,
       <2>14, <2>15 DEF Next, Questions
<1> QED
  BY <1>4, <1>5

(* At the end of a genuine run every check has passed.                     *)
LEMMA GenuinePasses ==
  ASSUME TypeOK, Ledger, GenuineEarns, Genuine, run.pc = "over", guest.hurt = {},
         "distinct_before" \in run.passed
  PROVE  /\ Checks \subseteq run.passed
         /\ FacesDone \cup {"adversarial"} \subseteq run.passed
<1>1. /\ \A n \in 1 .. 12 : Due(n, run.passed, guest.hurt) \subseteq run.passed
      /\ Greeting \subseteq run.passed
  BY StageIs DEF GenuineEarns, Earns, Ledger
<1>2. Enumerated \cup ClassDone \subseteq run.passed
  BY <1>1, DueIs
<1>3. {"inert", "rotations"} \cup FacesDone \subseteq run.passed
  BY <1>1, DueIs
<1>4. {"per_interface", "adversarial", "recovered"} \subseteq run.passed
  BY <1>1, DueIs
<1>5. {"quiet", "rechallenged", "image"} \subseteq run.passed
  BY <1>1, DueIs
<1> QED
  BY <1>1, <1>2, <1>3, <1>4, <1>5 DEF Checks, Greeting, Enumerated, ClassDone

(* GenuineGetsParity: the verdict of a run whose guest is what the         *)
(* prediction says, answers in time and survives the malformed requests is *)
(* the highest rung, for any plan of rotations and any bytes drawn.        *)
THEOREM ParityIsEarned == Spec => []GenuineGetsParity
<1> DEFINE Inv == TypeOK /\ ReportsHonest /\ Ledger /\ GenuineEarns
<1>1. Init => Ledger /\ GenuineEarns
  <2> SUFFICES ASSUME Init PROVE Ledger /\ GenuineEarns
    OBVIOUS
  <2>1. run.pc = "enumerate" /\ run.passed = Greeting
    BY InitRun
  <2>2. guest.idle[1] = 0
    BY DEF Init, Interfaces
  <2>3. "serial" \notin run.passed
    BY <2>1 DEF Greeting
  <2> QED
    BY <2>1, <2>2, <2>3 DEF Ledger, GenuineEarns, Genuine, Greeting
<1>2. Init => ReportsHonest
  BY InitRun DEF ReportsHonest
<1>3. Inv => GenuineGetsParity
  <2> SUFFICES ASSUME TypeOK, Ledger, GenuineEarns,
                      run.pc = "over", ~run.control, ~guest.keys, guest.hurt = {},
                      guest.store = "per_interface", guest.handler = "as_declared",
                      "serial" \in run.passed, run.lost = 0, ~run.missed,
                      "distinct_before" \in run.passed
               PROVE  run.rung = 8
    BY DEF GenuineGetsParity
  <2>1. Genuine
    BY DEF Genuine
  <2>2. Checks \subseteq run.passed /\ FacesDone \cup {"adversarial"} \subseteq run.passed
    BY <2>1, GenuinePasses
  <2>3. Faces(run.passed) = Interfaces
    BY <2>2, Names DEF Faces, FacesDone
  <2>4. Cardinality(Interfaces) >= 2
    BY FewNames, Names
  <2>5. Landed(run.passed) /\ Isolated(run.passed) /\ Stateful(run.passed)
        /\ Adversarial(run.passed)
    BY <2>2, <2>3, <2>4 DEF Landed, Isolated, Stateful, Adversarial, Checks
  <2>6. Rung(run.passed) = 8
    BY <2>3, <2>5 DEF Rung
  <2> QED
    BY <2>6 DEF Ledger
<1> QED
  BY <1>1, <1>2, <1>3, InitType, NextType, NextReports, NextLedger, NextEarns, PTL
     DEF Spec, Inv
=============================================================================

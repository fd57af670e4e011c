--------------------------- MODULE UsbHost_proofs ---------------------------
(***************************************************************************)
(* The modelled USB host against any firmware of UsbHost's kind: types, an *)
(* EP0 that never holds two completions, packets that land in the buffer,  *)
(* reports in order; and, when the host's patience outlasts the firmware's *)
(* handler, a host that is a control pipe at every step.                   *)
(***************************************************************************)
EXTENDS UsbHost, FiniteSetTheorems, SequenceTheorems, WellFoundedInduction, TLAPS

(* The bytes that travel, and the answers.                                 *)
Octets == Requests \X Nat
Verdicts == [verdict : {"ok", "stall"}, data : Seq(Octets)]

(* What TypeOK leaves open.  A reply is cut into packets only while its    *)
(* request is one the firmware has read.                                   *)
MoreTypes ==
    /\ rxBuf \in Requests \cup {None}
    /\ txBuf \in [Ep -> Seq(Octets \cup Nat)] /\ txBuf[0] \in Seq(Octets)
    /\ data \in Seq(Octets) /\ answers \in Seq(Verdicts)
    /\ submitted \in Seq(Requests)
    /\ reports \in [InEps -> Seq(Seq(Octets \cup Nat))]
    /\ published \in [InEps -> Nat] /\ waited \in Nat
    /\ ep0state = "tx" /\ serving # "setup" => setupReq \in Supported

Types == TypeOK /\ MoreTypes

(* Before the host has seen EP0 open it sends nothing.                     *)
Booting == state \in {"wait_attach", "reset", "wait_ep0"}

Opening == ~Booting => described /\ daddrEnabled

Buffered == Opening /\ GivenIntoBuffer

(* The bus reset comes before everything the firmware does.                *)
Untold == \A r \in Requests : performed[r] = 0

ResetFirst ==
    /\ ~enabled => state = "wait_attach"
    /\ state \in {"wait_attach", "reset"} => ~resetEvent /\ serving = None
    /\ Booting => ~EpBusy(0) /\ serving \in {None, "reset"}
    /\ Booting \/ resetEvent => Untold
    /\ resetEvent => serving = None

(* A report that is armed is the next one.                                 *)
ReportsKept ==
    \A ep \in InEps :
        /\ \A i \in DOMAIN reports[ep] : reports[ep][i] = <<i>>
        /\ IF epr[ep].statTx = VALID
           THEN published[ep] = Len(reports[ep]) + 1 /\ txBuf[ep] = <<published[ep]>>
           ELSE published[ep] = Len(reports[ep])
        /\ published[ep] > 0 => performed[SetCfg] > 0

-----------------------------------------------------------------------------
(* The registers *)

(* Exclusive or stays within two bits, and undoes itself.                  *)
LEMMA ToggleIs ==
  ASSUME NEW a \in 0 .. 3, NEW b \in 0 .. 3
  PROVE  /\ Toggle(a, b) \in 0 .. 3
         /\ Toggle(a, Toggle(a, b)) = b
         /\ Toggle(a, 0) = a /\ Toggle(a, a) = 0 /\ Toggle(0, a) = a
<1>1. a \in {0, 1, 2, 3} /\ b \in {0, 1, 2, 3}
  OBVIOUS
<1>2. CASE a = 0
  BY <1>1, <1>2 DEF Toggle
<1>3. CASE a = 1
  BY <1>1, <1>3 DEF Toggle
<1>4. CASE a = 2
  BY <1>1, <1>4 DEF Toggle
<1>5. CASE a = 3
  BY <1>1, <1>5 DEF Toggle
<1> QED
  BY <1>1, <1>2, <1>3, <1>4, <1>5

(* A register is its fields.                                               *)
LEMMA SameFields ==
  ASSUME NEW d \in Epr, NEW e \in Epr,
         d.ctrRx = e.ctrRx, d.ctrTx = e.ctrTx, d.setup = e.setup,
         d.statRx = e.statRx, d.statTx = e.statTx, d.rw = e.rw
  PROVE  d = e
<1> QED
  BY DEF Epr

(* What the driver's writes come to: one field changes, and nothing else.  *)
LEMMA WritesAre ==
  ASSUME NEW e \in Epr, NEW s \in 0 .. 3
  PROVE  /\ SetStatRx(e, s) = [e EXCEPT !.statRx = s]
         /\ SetStatTx(e, s) = [e EXCEPT !.statTx = s]
         /\ ClearCtrRx(e) = [e EXCEPT !.ctrRx = FALSE]
         /\ ClearCtrTx(e) = [e EXCEPT !.ctrTx = FALSE]
<1>1. e.statRx \in 0 .. 3 /\ e.statTx \in 0 .. 3
  BY DEF Epr
<1>2. /\ Toggle(e.statRx, Toggle(e.statRx, s)) = s /\ Toggle(e.statRx, 0) = e.statRx
      /\ Toggle(e.statTx, Toggle(e.statTx, s)) = s /\ Toggle(e.statTx, 0) = e.statTx
  BY <1>1, ToggleIs
<1>3. SetStatRx(e, s) = [e EXCEPT !.statRx = s]
  BY <1>2 DEF SetStatRx, EprWrite, Keep, Epr
<1>4. SetStatTx(e, s) = [e EXCEPT !.statTx = s]
  BY <1>2 DEF SetStatTx, EprWrite, Keep, Epr
<1>5. ClearCtrRx(e) = [e EXCEPT !.ctrRx = FALSE]
  <2>1. ClearCtrRx(e) \in Epr /\ [e EXCEPT !.ctrRx = FALSE] \in Epr
    BY <1>1, <1>2 DEF ClearCtrRx, EprWrite, Keep, Epr
  <2>2. /\ ClearCtrRx(e).ctrRx = FALSE /\ ClearCtrRx(e).ctrTx = e.ctrTx
        /\ ClearCtrRx(e).setup = e.setup /\ ClearCtrRx(e).statRx = e.statRx
        /\ ClearCtrRx(e).statTx = e.statTx /\ ClearCtrRx(e).rw = e.rw
    BY <1>2 DEF ClearCtrRx, EprWrite, Keep, Epr
  <2>3. /\ [e EXCEPT !.ctrRx = FALSE].ctrRx = FALSE
        /\ [e EXCEPT !.ctrRx = FALSE].ctrTx = e.ctrTx
        /\ [e EXCEPT !.ctrRx = FALSE].setup = e.setup
        /\ [e EXCEPT !.ctrRx = FALSE].statRx = e.statRx
        /\ [e EXCEPT !.ctrRx = FALSE].statTx = e.statTx
        /\ [e EXCEPT !.ctrRx = FALSE].rw = e.rw
    BY DEF Epr
  <2> QED
    BY <2>1, <2>2, <2>3, SameFields
<1>6. ClearCtrTx(e) = [e EXCEPT !.ctrTx = FALSE]
  <2>1. ClearCtrTx(e) \in Epr /\ [e EXCEPT !.ctrTx = FALSE] \in Epr
    BY <1>1, <1>2 DEF ClearCtrTx, EprWrite, Keep, Epr
  <2>2. /\ ClearCtrTx(e).ctrRx = e.ctrRx /\ ClearCtrTx(e).ctrTx = FALSE
        /\ ClearCtrTx(e).setup = e.setup /\ ClearCtrTx(e).statRx = e.statRx
        /\ ClearCtrTx(e).statTx = e.statTx /\ ClearCtrTx(e).rw = e.rw
    BY <1>2 DEF ClearCtrTx, EprWrite, Keep, Epr
  <2>3. /\ [e EXCEPT !.ctrTx = FALSE].ctrTx = FALSE
        /\ [e EXCEPT !.ctrTx = FALSE].ctrRx = e.ctrRx
        /\ [e EXCEPT !.ctrTx = FALSE].setup = e.setup
        /\ [e EXCEPT !.ctrTx = FALSE].statRx = e.statRx
        /\ [e EXCEPT !.ctrTx = FALSE].statTx = e.statTx
        /\ [e EXCEPT !.ctrTx = FALSE].rw = e.rw
    BY DEF Epr
  <2> QED
    BY <2>1, <2>2, <2>3, SameFields
<1> QED
  BY <1>3, <1>4, <1>5, <1>6

(* Opening EP0 drops its flags and leaves it at NAK in both directions.    *)
LEMMA OpenedIs ==
  ASSUME NEW e \in Epr
  PROVE  Opened(e) = [ctrRx |-> FALSE, ctrTx |-> FALSE, setup |-> e.setup,
                      statRx |-> NAK, statTx |-> NAK, rw |-> TRUE]
<1>1. e.statRx \in 0 .. 3 /\ e.statTx \in 0 .. 3 /\ NAK \in 0 .. 3
  BY DEF Epr, NAK
<1>2. /\ Toggle(e.statRx, e.statRx) = 0 /\ Toggle(e.statTx, e.statTx) = 0
      /\ Toggle(0, NAK) = NAK
  BY <1>1, ToggleIs
<1> QED
  BY <1>2 DEF Opened, EprWrite, EprZero, Epr

(* The least member of a set of numbers, as the code's scans find it.      *)
LEMMA LeastIs ==
  ASSUME NEW T, T \subseteq Nat, T # {}
  PROVE  LET least == CHOOSE n \in T : \A m \in T : n <= m
         IN  least \in T /\ \A m \in T : least <= m
<1> DEFINE R == OpToRel(<, Nat)
<1>1. IsWellFoundedOn(R, Nat)
  BY NatLessThanWellFounded
<1>2. \A n, m \in Nat : n < m => <<n, m>> \in R
  BY DEF OpToRel
<1> HIDE DEF R
<1>3. PICK m \in T : \A n \in T : ~ (<<n, m>> \in R)
  BY <1>1, WFMin
<1>4. ASSUME NEW n \in T PROVE m <= n
  <2>1. n \in Nat /\ m \in Nat
    OBVIOUS
  <2>2. ~ (n < m)
    BY <1>2, <1>3, <2>1, Zenon
  <2> QED
    BY <2>1, <2>2
<1> QED
  BY <1>4

(* ISTR names an endpoint that has an event, EP0 whenever it has one.      *)
LEMMA IstrIs ==
  ASSUME CtrEps # {}
  PROVE  IstrEp \in CtrEps /\ (EpBusy(0) => IstrEp = 0)
<1>1. CtrEps \subseteq Nat
  <2>1. CtrEps \subseteq Ep
    BY DEF CtrEps
  <2> QED
    BY <2>1, InEpsAssumption DEF Ep
<1>2. IstrEp \in CtrEps /\ \A ep \in CtrEps : IstrEp <= ep
  BY <1>1, LeastIs DEF IstrEp
<1>3. ASSUME EpBusy(0) PROVE IstrEp = 0
  <2>1. 0 \in CtrEps
    BY <1>3 DEF CtrEps, EpBusy, Ep
  <2> QED
    BY <1>1, <1>2, <2>1
<1> QED
  BY <1>2, <1>3

(* Bytes a + 1 .. b of what the firmware has for a request.                *)
LEMMA BytesAre ==
  ASSUME NEW r \in Requests, NEW a \in Nat, NEW b \in Nat, a <= b
  PROVE  /\ Bytes(r, a, b) \in Seq(Octets) /\ Len(Bytes(r, a, b)) = b - a
         /\ Bytes(r, 0, a) \o Bytes(r, a, b) = Bytes(r, 0, b)
         /\ (a = b) => Bytes(r, a, b) = <<>>
<1>1. /\ Bytes(r, a, b) \in [1 .. b - a -> Octets] /\ b - a \in Nat
      /\ Bytes(r, 0, a) \in [1 .. a -> Octets] /\ Bytes(r, 0, b) \in [1 .. b -> Octets]
  BY DEF Bytes, Octets
<1>2. /\ Bytes(r, a, b) \in Seq(Octets) /\ Len(Bytes(r, a, b)) = b - a
      /\ Bytes(r, 0, a) \in Seq(Octets) /\ Len(Bytes(r, 0, a)) = a
      /\ Bytes(r, 0, b) \in Seq(Octets) /\ Len(Bytes(r, 0, b)) = b
  BY <1>1
<1> DEFINE both == Bytes(r, 0, a) \o Bytes(r, a, b)
<1>3. both \in Seq(Octets) /\ Len(both) = b
  BY <1>2
<1>4. ASSUME NEW i \in 1 .. b
      PROVE  both[i] = Bytes(r, 0, b)[i]
  <2>1. Bytes(r, 0, b)[i] = <<r, i>>
    BY DEF Bytes
  <2>2. CASE i <= a
    <3>1. Bytes(r, 0, a)[i] = <<r, i>>
      BY <2>2 DEF Bytes
    <3>2. both[i] = Bytes(r, 0, a)[i]
      BY <1>2, <2>2
    <3> QED
      BY <2>1, <3>1, <3>2
  <2>3. CASE i > a
    <3>1. i - a \in 1 .. b - a /\ a + (i - a) = i
      BY <2>3
    <3>2. Bytes(r, a, b)[i - a] = <<r, i>>
      BY <3>1 DEF Bytes
    <3>3. both[i] = Bytes(r, a, b)[i - Len(Bytes(r, 0, a))]
      BY <1>2, <2>3, ConcatProperties
    <3> QED
      BY <1>2, <2>1, <3>2, <3>3
  <2>4. i <= a \/ i > a
    OBVIOUS
  <2> QED
    BY <2>2, <2>3, <2>4, Zenon
<1>5. both = Bytes(r, 0, b)
  <2> HIDE DEF both
  <2> QED
    BY <1>2, <1>3, <1>4, SeqEqual
<1> QED
  BY <1>2, <1>5

-----------------------------------------------------------------------------
(* Types *)

(* The registers of the endpoints are registers.                           *)
LEMMA EprIs ==
  ASSUME TypeOK
  PROVE  /\ \A ep \in Ep : epr[ep] \in Epr
         /\ \A ep \in Ep, e \in Epr : [epr EXCEPT ![ep] = e] \in [Ep -> Epr]
         /\ 0 \in Ep /\ InEps \subseteq Ep /\ 0 \notin InEps
<1> QED
  BY InEpsAssumption DEF TypeOK, DevTypeOK, Ep

(* A packet given or taken leaves a register a register.                   *)
LEMMA RaisesAre ==
  ASSUME NEW e \in Epr
  PROVE  /\ RaiseCtrTx(e) \in Epr
         /\ RaiseCtrRx(e, TRUE) \in Epr /\ RaiseCtrRx(e, FALSE) \in Epr
         /\ SetStatTx(e, VALID) \in Epr /\ SetStatRx(e, VALID) \in Epr
         /\ SetStatTx(ClearCtrTx(e), VALID) \in Epr
         /\ SetStatRx(SetStatTx(e, STALL), STALL) \in Epr
         /\ ClearCtrRx(e) \in Epr /\ ClearCtrTx(e) \in Epr
         /\ Opened(e) \in Epr /\ EprZero \in Epr
<1>0. NAK \in 0 .. 3
  BY DEF NAK
<1>1. RaiseCtrTx(e) \in Epr
  BY <1>0 DEF Epr, RaiseCtrTx
<1>2. ASSUME NEW b \in BOOLEAN PROVE RaiseCtrRx(e, b) \in Epr
  BY <1>0 DEF Epr, RaiseCtrRx
<1>3. EprZero \in Epr
  BY DEF Epr, EprZero, DISABLED
<1>4. /\ VALID \in 0 .. 3 /\ STALL \in 0 .. 3
  BY DEF VALID, STALL
<1>5. ASSUME NEW d \in Epr, NEW s \in 0 .. 3
      PROVE  /\ SetStatTx(d, s) \in Epr /\ SetStatRx(d, s) \in Epr
             /\ ClearCtrRx(d) \in Epr /\ ClearCtrTx(d) \in Epr
  <2>1. [d EXCEPT !.statTx = s] \in Epr
    BY DEF Epr
  <2>2. [d EXCEPT !.statRx = s] \in Epr
    BY DEF Epr
  <2>3. [d EXCEPT !.ctrRx = FALSE] \in Epr
    BY DEF Epr
  <2>4. [d EXCEPT !.ctrTx = FALSE] \in Epr
    BY DEF Epr
  <2> QED
    BY <2>1, <2>2, <2>3, <2>4, WritesAre
<1>6. Opened(e) \in Epr
  <2>1. [ctrRx |-> FALSE, ctrTx |-> FALSE, setup |-> e.setup,
         statRx |-> NAK, statTx |-> NAK, rw |-> TRUE] \in Epr
    BY <1>0 DEF Epr
  <2> QED
    BY <2>1, OpenedIs
<1> QED
  BY <1>1, <1>2, <1>3, <1>4, <1>5, <1>6

(* The stage that a request begins with.                                   *)
LEMMA FirstStageIs ==
  ASSUME NEW r \in Requests
  PROVE  FirstStage(r) \in {"data_in", "data_out", "status_in"}
<1> QED
  BY DEF FirstStage

(* The packets of the reply are cut from what there is to send.            *)
LEMMA ChunkIs ==
  ASSUME TypeOK, setupReq \in Requests, NEW n \in Nat, n <= ReplySize(setupReq)
  PROVE  /\ Chunk(n) \in Seq(Octets)
         /\ Len(Chunk(n)) \in Nat
         /\ n + Len(Chunk(n)) = Smaller(n + MaxPacket, ReplySize(setupReq))
         /\ n + Len(Chunk(n)) <= ReplySize(setupReq)
         /\ Len(Chunk(n)) <= MaxPacket
<1>1. Want(setupReq) \in Nat /\ Size(setupReq) \in Nat /\ MaxPacket \in Nat
  BY RequestAssumption, PacketAssumption
<1>2. ReplySize(setupReq) \in Nat
  BY <1>1 DEF ReplySize, Smaller
<1> DEFINE m == Smaller(n + MaxPacket, ReplySize(setupReq))
<1>3. m \in Nat /\ n <= m /\ m <= ReplySize(setupReq) /\ m <= n + MaxPacket
  <2> HIDE DEF ReplySize
  <2> QED
    BY <1>1, <1>2 DEF Smaller
<1> HIDE DEF m
<1>4. Chunk(n) = Bytes(setupReq, n, m)
  BY DEF Chunk, m
<1>5. Chunk(n) \in Seq(Octets) /\ Len(Chunk(n)) = m - n
  BY <1>3, <1>4, BytesAre
<1>6. n + Len(Chunk(n)) = m
  BY <1>3, <1>5
<1>7. m = Smaller(n + MaxPacket, ReplySize(setupReq))
  BY DEF m
<1>8. Len(Chunk(n)) \in Nat /\ Len(Chunk(n)) <= MaxPacket
  BY <1>1, <1>3, <1>5
<1> QED
  BY <1>3, <1>5, <1>6, <1>7, <1>8

(* What an answer adds to the answers.                                     *)
LEMMA FinishIs ==
  ASSUME Types, NEW b \in BOOLEAN, Finish(b)
  PROVE  /\ cur' = None /\ data' = <<>> /\ stageSteps' = 0 /\ stallSeen' = 0
         /\ state' \in {"idle", "advance"} /\ queue' = queue
         /\ answers' \in Seq(Verdicts)
<1>1. /\ cur' = None /\ data' = <<>> /\ stageSteps' = 0 /\ stallSeen' = 0
      /\ state' \in {"idle", "advance"} /\ queue' = queue
  BY DEF Finish
<1>2. answers \in Seq(Verdicts) /\ data \in Seq(Octets)
  BY DEF Types, MoreTypes
<1> DEFINE a == [verdict |-> IF b THEN "stall" ELSE "ok", data |-> data]
<1>3. a \in Verdicts
  BY <1>2 DEF Verdicts
<1>4. answers' = IF cur = None THEN answers ELSE Append(answers, a)
  BY DEF Finish
<1> HIDE DEF a
<1>5. Append(answers, a) \in Seq(Verdicts)
  BY <1>2, <1>3
<1> QED
  BY <1>1, <1>2, <1>4, <1>5

(* What the host writes of its own, and of EP0, keeps its type.            *)
HostTypes ==
    /\ state' \in {"wait_attach", "reset", "wait_ep0", "advance", "data_in",
                   "data_out", "status_out", "status_in", "idle"}
    /\ queue' \in Seq(Requests) /\ cur' \in Requests \cup {None}
    /\ stageSteps' \in 0 .. StepPatience /\ stallSeen' \in 0 .. StallPatience - 1
    /\ (cur' = None) = (state' \in {"wait_attach", "reset", "wait_ep0", "advance",
                                    "idle"})
    /\ data' \in Seq(Octets) /\ answers' \in Seq(Verdicts)
    /\ submitted' \in Seq(Requests)
    /\ reports' \in [InEps -> Seq(Seq(Octets \cup Nat))]
    /\ epr' \in [Ep -> Epr] /\ rxBuf' \in Requests \cup {None}
    /\ resetEvent' \in BOOLEAN

LEMMA WaitsTypes ==
  ASSUME Types, NEW seen \in 0 .. StallPatience - 1, TickPatience(seen),
         UNCHANGED <<submitted, reports, resetEvent>>
  PROVE  HostTypes
<1>1. CASE stageSteps + 1 > StepPatience
  <2>1. Finish(TRUE) /\ Untouched
    BY <1>1 DEF TickPatience
  <2>2. /\ cur' = None /\ data' = <<>> /\ stageSteps' = 0 /\ stallSeen' = 0
        /\ state' \in {"idle", "advance"} /\ queue' = queue
        /\ answers' \in Seq(Verdicts)
    BY <2>1, FinishIs
  <2> QED
    BY <2>1, <2>2, PatienceAssumption, SMTT(30)
       DEF HostTypes, Untouched, Types, TypeOK, MoreTypes, DevTypeOK
<1>2. CASE ~(stageSteps + 1 > StepPatience)
  BY <1>2, PatienceAssumption
     DEF TickPatience, HostTypes, Untouched, Types, TypeOK, MoreTypes, DevTypeOK
<1> QED
  BY <1>1, <1>2

LEMMA StagesTypes ==
  ASSUME Types, NEW out \in BOOLEAN, NEW ready, Waits(out, ready),
         UNCHANGED <<submitted, reports, resetEvent>>
  PROVE  HostTypes
<1>0. stallSeen \in 0 .. StallPatience - 1 /\ StallPatience \in Nat \ {0}
  BY PatienceAssumption DEF Types, TypeOK
<1>1. CASE StallBelieved(out) /\ Untouched /\ Finish(TRUE)
  <2>2. /\ cur' = None /\ data' = <<>> /\ stageSteps' = 0 /\ stallSeen' = 0
        /\ state' \in {"idle", "advance"} /\ queue' = queue
        /\ answers' \in Seq(Verdicts)
    BY <1>1, FinishIs
  <2> QED
    BY <1>1, <2>2, PatienceAssumption
       DEF HostTypes, Untouched, Types, TypeOK, MoreTypes, DevTypeOK
<1>2. CASE ~StallBelieved(out) /\ TickPatience(SeenAfter(out))
  <2>1. SeenAfter(out) \in 0 .. StallPatience - 1
    BY <1>0, <1>2 DEF StallBelieved, SeenAfter
  <2> QED
    BY <1>2, <2>1, WaitsTypes
<1> QED
  BY <1>1, <1>2 DEF Waits

(* Every control step, and every report taken, keeps the types.            *)
LEMMA ControlTypes ==
  ASSUME Types, ControlStep
  PROVE  HostTypes
<1>z. 0 \in 0 .. StepPatience /\ 0 \in 0 .. StallPatience - 1
  BY PatienceAssumption
<1>n. None \notin Requests /\ Script \in Seq(Requests)
  BY RequestAssumption DEF None
<1>s. \A q \in Seq(Requests) : q \o Script \in Seq(Requests)
  BY <1>n
<1>0. /\ epr[0] \in Epr /\ 0 \in Ep
      /\ \A e \in Epr : [epr EXCEPT ![0] = e] \in [Ep -> Epr]
      /\ \A e \in Epr, b \in BOOLEAN : RaiseCtrTx(e) \in Epr /\ RaiseCtrRx(e, b) \in Epr
  BY EprIs, RaisesAre DEF Types
<1>1. CASE Attach
  BY <1>1 DEF Attach, Types, TypeOK, MoreTypes, DevTypeOK, HostTypes, logVars
<1>2. CASE DriveReset
  BY <1>2 DEF DriveReset, Types, TypeOK, MoreTypes, DevTypeOK, HostTypes, logVars
<1>3. CASE WaitEp0
  BY <1>s, <1>3 DEF WaitEp0, Types, TypeOK, MoreTypes, DevTypeOK, HostTypes
<1>4. CASE Advance
  <2>1. CASE EpBusy(0)
    <3>1. TickPatience(stallSeen) /\ UNCHANGED <<submitted, reports, resetEvent>>
      BY <1>4, <2>1 DEF Advance
    <3> QED
      BY <3>1, WaitsTypes DEF Types, TypeOK
  <2>2. CASE ~EpBusy(0) /\ queue = <<>>
    BY <1>4, <2>2 DEF Advance, StartNext, Untouched, Types, TypeOK, MoreTypes,
       DevTypeOK, HostTypes
  <2>3. CASE ~EpBusy(0) /\ queue # <<>>
    <3>1. Head(queue) \in Requests /\ Tail(queue) \in Seq(Requests)
      BY <2>3 DEF Types, TypeOK
    <3>2. FirstStage(Head(queue)) \in {"data_in", "data_out", "status_in"}
      BY <3>1, FirstStageIs
    <3>3. Give(Head(queue), TRUE) => epr' \in [Ep -> Epr]
      BY <1>0 DEF Give
    <3>4. /\ cur' = Head(queue) /\ queue' = Tail(queue)
          /\ state' = FirstStage(Head(queue))
          /\ data' = <<>> /\ stageSteps' = 0 /\ stallSeen' = 0
          /\ Give(Head(queue), TRUE)
          /\ UNCHANGED <<answers, submitted, reports, resetEvent>>
      BY <1>4, <2>3 DEF Advance, StartNext
    <3>5. rxBuf' = Head(queue)
      BY <3>4 DEF Give
    <3>6. /\ cur' \in Requests /\ queue' \in Seq(Requests) /\ rxBuf' \in Requests
          /\ state' \in {"data_in", "data_out", "status_in"}
          /\ data' = <<>> /\ stageSteps' = 0 /\ stallSeen' = 0
          /\ epr' \in [Ep -> Epr]
          /\ UNCHANGED <<answers, submitted, reports, resetEvent>>
      BY <3>1, <3>2, <3>3, <3>4, <3>5
    <3>7. cur' # None /\ (cur' = None) = (state' \in {"wait_attach", "reset",
                                              "wait_ep0", "advance", "idle"})
      BY <1>n, <3>6
    <3>8. stageSteps' \in 0 .. StepPatience /\ stallSeen' \in 0 .. StallPatience - 1
      BY <1>z, <3>6
    <3> QED
      BY <3>6, <3>7, <3>8, SMTT(30)
         DEF Types, TypeOK, MoreTypes, DevTypeOK, HostTypes
  <2> QED
    BY <2>1, <2>2, <2>3
<1>5. CASE DataIn
  <2>1. CASE Waits(FALSE, ReadyTx)
    BY <1>5, <2>1, StagesTypes DEF DataIn
  <2>2. CASE ReadyTx /\ Take(0)
             /\ data' = data \o txBuf[0]
             /\ state' = (IF LastPacket(txBuf[0]) THEN "status_out" ELSE state)
             /\ stageSteps' = 0 /\ stallSeen' = 0
             /\ UNCHANGED <<queue, cur, answers>>
    <3>1. data' \in Seq(Octets)
      BY <2>2 DEF Types, MoreTypes
    <3>2. epr' \in [Ep -> Epr] /\ rxBuf' = rxBuf
      BY <1>0, <2>2 DEF Take
    <3>3. state' \in {"status_out", "data_in"} /\ state = "data_in"
      BY <1>5, <2>2 DEF DataIn
    <3> QED
      BY <1>z, <1>n, <1>5, <2>2, <3>1, <3>2, <3>3, SMTT(30)
         DEF DataIn, Types, TypeOK, MoreTypes, DevTypeOK, HostTypes
  <2> QED
    BY <1>5, <2>1, <2>2 DEF DataIn
<1>6. CASE DataOut
  <2>1. CASE Waits(TRUE, ReadyRx)
    BY <1>6, <2>1, StagesTypes DEF DataOut
  <2>2. CASE ReadyRx /\ Give(cur, FALSE)
             /\ state' = "status_in" /\ stageSteps' = 0 /\ stallSeen' = 0
             /\ UNCHANGED <<queue, cur, data, answers>>
    <3>1. epr' \in [Ep -> Epr] /\ rxBuf' = cur
      BY <1>0, <2>2 DEF Give
    <3> QED
      BY <1>z, <1>n, <1>6, <2>2, <3>1, SMTT(30)
         DEF DataOut, Types, TypeOK, MoreTypes, DevTypeOK, HostTypes
  <2> QED
    BY <1>6, <2>1, <2>2 DEF DataOut
<1>7. CASE StatusOut
  <2>1. CASE Waits(TRUE, ReadyRx)
    BY <1>7, <2>1, StagesTypes DEF StatusOut
  <2>2. CASE ReadyRx /\ Give(None, FALSE) /\ Finish(FALSE)
    <3>1. epr' \in [Ep -> Epr] /\ rxBuf' = None
      BY <1>0, <2>2 DEF Give
    <3>2. /\ cur' = None /\ data' = <<>> /\ stageSteps' = 0 /\ stallSeen' = 0
          /\ state' \in {"idle", "advance"} /\ queue' = queue
          /\ answers' \in Seq(Verdicts)
      BY <2>2, FinishIs
    <3> QED
      BY <1>z, <1>n, <1>7, <2>2, <3>1, <3>2, SMTT(30)
         DEF StatusOut, Types, TypeOK, MoreTypes, DevTypeOK, HostTypes
  <2> QED
    BY <1>7, <2>1, <2>2 DEF StatusOut
<1>8. CASE StatusIn
  <2>1. CASE Waits(FALSE, ReadyTx)
    BY <1>8, <2>1, StagesTypes DEF StatusIn
  <2>2. CASE ReadyTx /\ Take(0) /\ Finish(FALSE)
    <3>1. epr' \in [Ep -> Epr] /\ rxBuf' = rxBuf
      BY <1>0, <2>2 DEF Take
    <3>2. /\ cur' = None /\ data' = <<>> /\ stageSteps' = 0 /\ stallSeen' = 0
          /\ state' \in {"idle", "advance"} /\ queue' = queue
          /\ answers' \in Seq(Verdicts)
      BY <2>2, FinishIs
    <3> QED
      BY <1>z, <1>n, <1>8, <2>2, <3>1, <3>2, SMTT(30)
         DEF StatusIn, Types, TypeOK, MoreTypes, DevTypeOK, HostTypes
  <2> QED
    BY <1>8, <2>1, <2>2 DEF StatusIn
<1>9. CASE Idle
  BY <1>9 DEF Idle, Types, TypeOK, MoreTypes, DevTypeOK, HostTypes, logVars
<1> QED
  BY <1>1, <1>2, <1>3, <1>4, <1>5, <1>6, <1>7, <1>8, <1>9 DEF ControlStep

(* The report that is taken is that of the least endpoint that has one.    *)
LEMMA ReportIs ==
  ASSUME Types, TakeReport
  PROVE  \E ep \in ReadyIn :
           /\ epr' = [epr EXCEPT ![ep] = RaiseCtrTx(@)] /\ rxBuf' = rxBuf
           /\ reports' = [reports EXCEPT ![ep] = Append(@, txBuf[ep])]
           /\ UNCHANGED <<hostVars, answers, submitted, resetEvent>>
<1> DEFINE ep == CHOOSE e \in ReadyIn : \A other \in ReadyIn : e <= other
<1>1. ReadyIn \subseteq Nat /\ ReadyIn # {}
  <2>1. ReadyIn \subseteq InEps /\ ReadyIn # {}
    BY DEF ReadyIn, TakeReport, PollsIn
  <2> QED
    BY <2>1, InEpsAssumption
<1>2. ep \in ReadyIn
  BY <1>1, LeastIs
<1>3. /\ epr' = [epr EXCEPT ![ep] = RaiseCtrTx(@)] /\ rxBuf' = rxBuf
      /\ reports' = [reports EXCEPT ![ep] = Append(@, txBuf[ep])]
      /\ UNCHANGED <<hostVars, answers, submitted, resetEvent>>
  BY DEF TakeReport, Take
<1> HIDE DEF ep
<1> QED
  BY <1>2, <1>3

LEMMA ReportTypes ==
  ASSUME Types, TakeReport
  PROVE  HostTypes
<1>1. PICK ep \in ReadyIn :
           /\ epr' = [epr EXCEPT ![ep] = RaiseCtrTx(@)] /\ rxBuf' = rxBuf
           /\ reports' = [reports EXCEPT ![ep] = Append(@, txBuf[ep])]
           /\ UNCHANGED <<hostVars, answers, submitted, resetEvent>>
  BY ReportIs
<1>2. ep \in InEps /\ ep \in Ep /\ epr[ep] \in Epr
  BY EprIs DEF ReadyIn, Types
<1>3. RaiseCtrTx(epr[ep]) \in Epr
  BY <1>2, RaisesAre
<1>4. epr' \in [Ep -> Epr]
  BY <1>1, <1>2, <1>3, EprIs, SMTT(30) DEF Types
<1>5. txBuf[ep] \in Seq(Octets \cup Nat) /\ reports[ep] \in Seq(Seq(Octets \cup Nat))
  BY <1>2 DEF Types, MoreTypes
<1>6. Append(reports[ep], txBuf[ep]) \in Seq(Seq(Octets \cup Nat))
  BY <1>5
<1>7. reports' \in [InEps -> Seq(Seq(Octets \cup Nat))]
  BY <1>1, <1>2, <1>6 DEF Types, MoreTypes
<1> QED
  BY <1>1, <1>4, <1>7 DEF HostTypes, Types, TypeOK, MoreTypes, DevTypeOK, hostVars

(* The host leaves the firmware's state alone.                             *)
LEMMA HostStepTypes ==
  ASSUME Types, HostStep
  PROVE  Types'
<1>1. HostTypes
  BY ControlTypes, ReportTypes DEF HostStep
<1>2. UNCHANGED <<enabled, attached, daddrEnabled, described, txBuf, fwVars>>
  BY DEF HostStep
<1>3. waited' \in Nat
  BY DEF HostStep, Types, MoreTypes
<1>4. TypeOK'
  BY <1>1, <1>2 DEF HostTypes, Types, TypeOK, DevTypeOK, fwVars
<1>5. MoreTypes'
  BY <1>1, <1>2, <1>3 DEF HostTypes, Types, MoreTypes, fwVars
<1> QED
  BY <1>4, <1>5 DEF Types

(* What the firmware writes keeps its type.                                *)
FwTypes ==
    /\ epr' \in [Ep -> Epr] /\ txBuf' \in [Ep -> Seq(Octets \cup Nat)]
    /\ txBuf'[0] \in Seq(Octets)
    /\ resetEvent' \in BOOLEAN /\ enabled' \in BOOLEAN /\ attached' \in BOOLEAN
    /\ daddrEnabled' \in BOOLEAN /\ described' \in BOOLEAN
    /\ ep0state' \in {"setup", "tx", "txzlp", "waitsts", "rx", "sendsts", "error"}
    /\ serving' \in {None, "reset", "setup", "out", "in"}
    /\ setupReq' \in Requests \cup {None} /\ sent' \in Nat
    /\ performed' \in [Requests -> Nat] /\ published' \in [InEps -> Nat]
    /\ ep0state' = "tx" /\ serving' # "setup" => setupReq' \in Supported

LEMMA FwTypesAre ==
  ASSUME Types, FwTypes, UNCHANGED <<rxBuf, hostVars, logVars, waited>>
  PROVE  Types'
<1>1. TypeOK'
  BY DEF FwTypes, Types, TypeOK, DevTypeOK, hostVars, logVars
<1>2. MoreTypes'
  BY DEF FwTypes, Types, MoreTypes, hostVars, logVars
<1> QED
  BY <1>1, <1>2 DEF Types

LEMMA FirmwareTypes ==
  ASSUME Types, Firmware
  PROVE  Types'
<1>0. /\ epr[0] \in Epr /\ 0 \in Ep
      /\ \A ep \in Ep, e \in Epr : [epr EXCEPT ![ep] = e] \in [Ep -> Epr]
      /\ \A ep \in Ep : epr[ep] \in Epr
  BY EprIs DEF Types
<1>r. /\ ClearCtrRx(epr[0]) \in Epr /\ ClearCtrTx(epr[0]) \in Epr
      /\ SetStatTx(ClearCtrTx(epr[0]), VALID) \in Epr
      /\ SetStatTx(epr[0], VALID) \in Epr /\ SetStatRx(epr[0], VALID) \in Epr
      /\ SetStatRx(SetStatTx(epr[0], STALL), STALL) \in Epr
      /\ Opened(epr[0]) \in Epr /\ EprZero \in Epr
  BY <1>0, RaisesAre
<1>s. \A r \in Supported : r \in Requests
  BY RequestAssumption
<1>b. ASSUME NEW packet \in Seq(Octets), txBuf' = [txBuf EXCEPT ![0] = packet]
      PROVE  txBuf' \in [Ep -> Seq(Octets \cup Nat)] /\ txBuf'[0] \in Seq(Octets)
  <2>1. packet \in Seq(Octets \cup Nat)
    BY SeqMonotonic
  <2> QED
    BY <1>0, <1>b, <2>1, SMTT(30) DEF Types, MoreTypes
<1>e. <<>> \in Seq(Octets)
  OBVIOUS
<1>1. CASE FwStart
  <2>1. FwTypes
    <3>1. /\ epr' = [epr EXCEPT ![0] = Opened(@)] \/ epr' = epr
          /\ daddrEnabled' = TRUE \/ daddrEnabled' = daddrEnabled
          /\ described' = TRUE \/ described' = described
          /\ enabled' = TRUE
          /\ UNCHANGED <<resetEvent, attached, txBuf, fwVars>>
      BY <1>1, Zenon DEF FwStart
    <3>2. epr' \in [Ep -> Epr]
      BY <1>0, <1>r, <3>1
    <3> QED
      BY <3>1, <3>2, ZenonT(60) DEF FwTypes, Types, TypeOK, MoreTypes, DevTypeOK, fwVars
  <2> QED
    BY <1>1, <2>1, FwTypesAre DEF FwStart
<1>2. CASE FwAttach
  <2>1. FwTypes
    BY <1>2 DEF FwAttach, FwTypes, Types, TypeOK, MoreTypes, DevTypeOK, fwVars
  <2> QED
    BY <1>2, <2>1, FwTypesAre DEF FwAttach
<1>3. CASE FwReset
  <2>1. epr' \in [Ep -> Epr]
    BY <1>3, <1>r DEF FwReset
  <2>2. FwTypes
    BY <1>3, <2>1 DEF FwReset, FwTypes, Types, TypeOK, MoreTypes, DevTypeOK, None
  <2> QED
    BY <1>3, <2>2, FwTypesAre DEF FwReset
<1>4. CASE FwDescribe
  <2>1. FwTypes
    BY <1>4 DEF FwDescribe, FwTypes, Types, TypeOK, MoreTypes, DevTypeOK
  <2> QED
    BY <1>4, <2>1, FwTypesAre DEF FwDescribe
<1>5. CASE FwReceive
  <2>1. serving' \in {"setup", "out"} /\ setupReq' \in Requests \cup {None}
    BY <1>5 DEF FwReceive, Types, TypeOK, MoreTypes
  <2>2. epr' \in [Ep -> Epr]
    BY <1>0, <1>5, <1>r DEF FwReceive
  <2>3. serving' # "setup" => setupReq' = setupReq
    BY <1>5 DEF FwReceive
  <2>4. serving = None /\ None # "setup"
    BY <1>5 DEF FwReceive, Serves, None
  <2>5. FwTypes
    BY <1>5, <2>1, <2>2, <2>3, <2>4
       DEF FwReceive, FwTypes, Types, TypeOK, MoreTypes, DevTypeOK
  <2> QED
    BY <1>5, <2>5, FwTypesAre DEF FwReceive
<1>6. CASE FwTransmitted
  <2>1. serving = None /\ None # "setup"
    BY <1>6 DEF FwTransmitted, Serves, None
  <2>2. CASE ep0state = "tx" /\ sent < ReplySize(setupReq)
    <3>1. setupReq \in Requests
      BY <1>s, <2>1, <2>2 DEF Types, MoreTypes
    <3>2. ReplySize(setupReq) \in Nat /\ sent \in Nat
      BY <3>1, RequestAssumption DEF ReplySize, Smaller, Types, TypeOK
    <3>3. Chunk(sent) \in Seq(Octets) /\ Len(Chunk(sent)) \in Nat
      <4>1. sent <= ReplySize(setupReq)
        BY <2>2, <3>2
      <4> QED
        BY <3>1, <3>2, <4>1, ChunkIs DEF Types
    <3>4. /\ epr' = [epr EXCEPT ![0] = SetStatTx(ClearCtrTx(@), VALID)]
          /\ txBuf' = [txBuf EXCEPT ![0] = Chunk(sent)]
          /\ sent' = sent + Len(Chunk(sent)) /\ UNCHANGED serving
      BY <1>6, <2>2 DEF FwTransmitted
    <3>5. txBuf' \in [Ep -> Seq(Octets \cup Nat)] /\ txBuf'[0] \in Seq(Octets)
      BY <1>b, <3>3, <3>4, ZenonT(60)
    <3>6. sent' \in Nat
      BY <3>2, <3>3, <3>4
    <3>7. epr' \in [Ep -> Epr]
      BY <1>0, <1>r, <3>4, SMTT(30)
    <3>8. FwTypes
      BY <1>6, <3>4, <3>5, <3>6, <3>7, SMTT(60)
         DEF FwTransmitted, FwTypes, Types, TypeOK, MoreTypes, DevTypeOK
    <3> QED
      BY <1>6, <3>8, FwTypesAre DEF FwTransmitted
  <2>3. CASE ~(ep0state = "tx" /\ sent < ReplySize(setupReq))
    <3>1. /\ epr' = [epr EXCEPT ![0] = ClearCtrTx(@)]
          /\ serving' = "in" /\ UNCHANGED <<txBuf, sent>>
      BY <1>6, <2>3 DEF FwTransmitted
    <3>2. epr' \in [Ep -> Epr]
      BY <1>0, <1>r, <3>1
    <3>3. FwTypes
      BY <1>6, <2>1, <3>1, <3>2
         DEF FwTransmitted, FwTypes, Types, TypeOK, MoreTypes, DevTypeOK
    <3> QED
      BY <1>6, <3>3, FwTypesAre DEF FwTransmitted
  <2> QED
    BY <2>2, <2>3
<1>7. CASE FwReported
  <2>1. IstrEp \in CtrEps /\ CtrEps \subseteq Ep
    BY <1>7, IstrIs DEF FwReported, Serves, CtrEps
  <2>2. ClearCtrTx(epr[IstrEp]) \in Epr
    BY <1>0, <2>1, RaisesAre
  <2>3. epr' \in [Ep -> Epr]
    BY <1>0, <1>7, <2>1, <2>2 DEF FwReported
  <2>4. FwTypes
    BY <1>7, <2>3 DEF FwReported, FwTypes, Types, TypeOK, MoreTypes, DevTypeOK, fwVars
  <2> QED
    BY <1>7, <2>4, FwTypesAre DEF FwReported
<1>8. CASE FwSetup
  <2>1. serving' = None /\ UNCHANGED <<resetEvent, enabled, attached, daddrEnabled,
          described, rxBuf, hostVars, logVars, setupReq, published, waited>>
    BY <1>8 DEF FwSetup, EndsCallback
  <2>2. CASE setupReq \notin Supported /\ Refuse /\ UNCHANGED <<sent, performed>>
    <3>1. epr' \in [Ep -> Epr]
      BY <1>0, <1>r, <2>2 DEF Refuse
    <3>2. FwTypes
      BY <2>1, <2>2, <3>1
         DEF Refuse, FwTypes, Types, TypeOK, MoreTypes, DevTypeOK
    <3> QED
      BY <2>1, <3>2, FwTypesAre
  <2>3. CASE /\ setupReq \in Supported /\ Want(setupReq) > 0
             /\ Transmit(Chunk(0), "tx") /\ sent' = Len(Chunk(0))
             /\ UNCHANGED performed
    <3>1. setupReq \in Requests
      BY <1>s, <2>3
    <3>2. ReplySize(setupReq) \in Nat
      BY <3>1, RequestAssumption DEF ReplySize, Smaller
    <3>3. Chunk(0) \in Seq(Octets) /\ Len(Chunk(0)) \in Nat
      BY <3>1, <3>2, ChunkIs DEF Types
    <3>4. txBuf' \in [Ep -> Seq(Octets \cup Nat)] /\ txBuf'[0] \in Seq(Octets)
      BY <1>b, <2>3, <3>3 DEF Transmit
    <3>5. epr' \in [Ep -> Epr]
      BY <1>0, <1>r, <2>3 DEF Transmit
    <3>6. ep0state' = "tx"
      BY <2>3 DEF Transmit
    <3>7. FwTypes
      BY <2>1, <2>3, <3>3, <3>4, <3>5, <3>6
         DEF FwTypes, Types, TypeOK, MoreTypes, DevTypeOK
    <3> QED
      BY <2>1, <3>7, FwTypesAre
  <2>4. CASE Receive("rx") /\ UNCHANGED <<sent, performed>>
    <3>1. epr' \in [Ep -> Epr]
      BY <1>0, <1>r, <2>4 DEF Receive
    <3>2. FwTypes
      BY <2>1, <2>4, <3>1
         DEF Receive, FwTypes, Types, TypeOK, MoreTypes, DevTypeOK
    <3> QED
      BY <2>1, <3>2, FwTypesAre
  <2>5. CASE /\ setupReq \in Supported /\ Transmit(<<>>, "sendsts")
             /\ performed' = [performed EXCEPT ![setupReq] = @ + 1]
             /\ UNCHANGED sent
    <3>1. txBuf' \in [Ep -> Seq(Octets \cup Nat)] /\ txBuf'[0] \in Seq(Octets)
      BY <1>b, <1>e, <2>5 DEF Transmit
    <3>2. epr' \in [Ep -> Epr] /\ ep0state' = "sendsts"
      BY <1>0, <1>r, <2>5 DEF Transmit
    <3>3. performed' \in [Requests -> Nat]
      BY <1>s, <2>5 DEF Types, TypeOK
    <3>4. FwTypes
      BY <2>1, <2>5, <3>1, <3>2, <3>3
         DEF FwTypes, Types, TypeOK, MoreTypes, DevTypeOK
    <3> QED
      BY <2>1, <3>4, FwTypesAre
  <2> QED
    BY <1>8, <2>2, <2>3, <2>4, <2>5 DEF FwSetup
<1>9. CASE FwIn
  <2>1. serving' = None /\ UNCHANGED <<resetEvent, enabled, attached, daddrEnabled,
          described, rxBuf, hostVars, logVars, setupReq, published, waited,
          sent, performed>>
    BY <1>9 DEF FwIn, EndsCallback
  <2>2. CASE Transmit(<<>>, "txzlp")
    <3>1. txBuf' \in [Ep -> Seq(Octets \cup Nat)] /\ txBuf'[0] \in Seq(Octets)
      BY <1>b, <1>e, <2>2 DEF Transmit
    <3>2. epr' \in [Ep -> Epr] /\ ep0state' = "txzlp"
      BY <1>0, <1>r, <2>2 DEF Transmit
    <3>3. FwTypes
      BY <2>1, <3>1, <3>2 DEF FwTypes, Types, TypeOK, MoreTypes, DevTypeOK
    <3> QED
      BY <2>1, <3>3, FwTypesAre
  <2>3. CASE Receive("waitsts")
    <3>1. epr' \in [Ep -> Epr] /\ ep0state' = "waitsts" /\ txBuf' = txBuf
      BY <1>0, <1>r, <2>3 DEF Receive
    <3>2. FwTypes
      BY <2>1, <3>1 DEF FwTypes, Types, TypeOK, MoreTypes, DevTypeOK
    <3> QED
      BY <2>1, <3>2, FwTypesAre
  <2>4. CASE ep0state' = "setup" /\ UNCHANGED <<epr, txBuf>>
    <3>1. FwTypes
      BY <2>1, <2>4 DEF FwTypes, Types, TypeOK, MoreTypes, DevTypeOK
    <3> QED
      BY <2>1, <3>1, FwTypesAre
  <2>5. CASE Refuse
    <3>1. epr' \in [Ep -> Epr] /\ ep0state' = "error" /\ txBuf' = txBuf
      BY <1>0, <1>r, <2>5 DEF Refuse
    <3>2. FwTypes
      BY <2>1, <3>1 DEF FwTypes, Types, TypeOK, MoreTypes, DevTypeOK
    <3> QED
      BY <2>1, <3>2, FwTypesAre
  <2> QED
    BY <1>9, <2>2, <2>3, <2>4, <2>5 DEF FwIn
<1>10. CASE FwOut
  <2>1. serving' = None /\ UNCHANGED <<resetEvent, enabled, attached, daddrEnabled,
          described, rxBuf, hostVars, logVars, setupReq, published, waited, sent>>
    BY <1>10 DEF FwOut, EndsCallback
  <2>p. performed' \in [Requests -> Nat]
    <3> DEFINE more(n) == IF ep0state = "rx" THEN n + 1 ELSE n
    <3>1. performed \in [Requests -> Nat]
      BY DEF Types, TypeOK
    <3>2. performed' = [performed EXCEPT ![setupReq] = more(@)]
      BY <1>10 DEF FwOut
    <3>3. \A n \in Nat : more(n) \in Nat
      OBVIOUS
    <3> HIDE DEF more
    <3> QED
      BY <3>1, <3>2, <3>3
  <2>2. CASE ep0state' = "setup" /\ UNCHANGED <<epr, txBuf>>
    <3>1. FwTypes
      BY <2>1, <2>p, <2>2 DEF FwTypes, Types, TypeOK, MoreTypes, DevTypeOK
    <3> QED
      BY <2>1, <3>1, FwTypesAre
  <2>3. CASE Transmit(<<>>, "sendsts")
    <3>1. txBuf' \in [Ep -> Seq(Octets \cup Nat)] /\ txBuf'[0] \in Seq(Octets)
      BY <1>b, <1>e, <2>3 DEF Transmit
    <3>2. epr' \in [Ep -> Epr] /\ ep0state' = "sendsts"
      BY <1>0, <1>r, <2>3 DEF Transmit
    <3>3. FwTypes
      BY <2>1, <2>p, <3>1, <3>2 DEF FwTypes, Types, TypeOK, MoreTypes, DevTypeOK
    <3> QED
      BY <2>1, <3>3, FwTypesAre
  <2>4. CASE Refuse
    <3>1. epr' \in [Ep -> Epr] /\ ep0state' = "error" /\ txBuf' = txBuf
      BY <1>0, <1>r, <2>4 DEF Refuse
    <3>2. FwTypes
      BY <2>1, <2>p, <3>1 DEF FwTypes, Types, TypeOK, MoreTypes, DevTypeOK
    <3> QED
      BY <2>1, <3>2, FwTypesAre
  <2> QED
    BY <1>10, <2>2, <2>3, <2>4 DEF FwOut
<1> QED
  BY <1>1, <1>2, <1>3, <1>4, <1>5, <1>6, <1>7, <1>8, <1>9, <1>10 DEF Firmware

(* A report that is published is a packet of its own.                      *)
LEMMA PublishTypes ==
  ASSUME Types, FwPublish
  PROVE  Types'
<1>1. PICK ep \in InEps :
         /\ published' = [published EXCEPT ![ep] = @ + 1]
         /\ txBuf' = [txBuf EXCEPT ![ep] = <<published[ep] + 1>>]
         /\ epr' = [epr EXCEPT ![ep] = SetStatTx(@, VALID)]
  BY DEF FwPublish
<1>2. ep \in Ep /\ ep # 0 /\ epr[ep] \in Epr
  BY EprIs DEF Types
<1>3. SetStatTx(epr[ep], VALID) \in Epr
  BY <1>2, RaisesAre
<1>4. epr' \in [Ep -> Epr]
  BY <1>1, <1>2, <1>3, EprIs, SMTT(30) DEF Types
<1>5. published[ep] + 1 \in Nat
  BY DEF Types, MoreTypes
<1>6. <<published[ep] + 1>> \in Seq(Octets \cup Nat)
  BY <1>5
<1>7. txBuf' \in [Ep -> Seq(Octets \cup Nat)] /\ txBuf'[0] = txBuf[0]
  BY <1>1, <1>2, <1>6, EprIs, SMTT(30) DEF Types, MoreTypes
<1>8. published' \in [InEps -> Nat]
  BY <1>1, <1>5 DEF Types, MoreTypes
<1>9. FwTypes
  <2>1. UNCHANGED <<resetEvent, enabled, attached, daddrEnabled, described, ep0state,
                    serving, setupReq, sent, performed>>
    BY Zenon DEF FwPublish
  <2> QED
    BY <1>4, <1>7, <1>8, <2>1, ZenonT(60) DEF FwTypes, Types, TypeOK, MoreTypes, DevTypeOK
<1> QED
  BY <1>9, FwTypesAre DEF FwPublish

(* A client only adds to the queue.                                        *)
LEMMA SubmitTypes ==
  ASSUME Types, Submit
  PROVE  Types'
<1>1. queue' \in Seq(Requests) /\ submitted' \in Seq(Requests)
  BY DEF Submit, Types, TypeOK, MoreTypes
<1>2. TypeOK'
  BY <1>1 DEF Submit, Types, TypeOK, DevTypeOK, devVars, fwVars
<1>3. MoreTypes'
  BY <1>1 DEF Submit, Types, MoreTypes, devVars, fwVars
<1> QED
  BY <1>2, <1>3 DEF Types

LEMMA TypesStep ==
  ASSUME Types, [Next]_vars
  PROVE  Types'
<1>1. CASE UNCHANGED vars
  <2>1. TypeOK'
    BY <1>1 DEF vars, devVars, hostVars, logVars, fwVars, Types, TypeOK, DevTypeOK
  <2>2. MoreTypes'
    BY <1>1 DEF vars, devVars, hostVars, logVars, fwVars, Types, MoreTypes
  <2> QED
    BY <2>1, <2>2 DEF Types
<1> QED
  BY <1>1, HostStepTypes, SubmitTypes, FirmwareTypes, PublishTypes DEF Next

LEMMA TypesInit ==
  ASSUME Init
  PROVE  Types
<1>1. TypeOK
  <2>1. EprZero \in Epr
    BY DEF EprZero, Epr, DISABLED
  <2>2. epr \in [Ep -> Epr]
    BY <2>1 DEF Init, DevInit
  <2>3. 0 \in 0 .. StepPatience /\ 0 \in 0 .. StallPatience - 1
    BY PatienceAssumption
  <2>4. (cur = None) = (state \in {"wait_attach", "reset", "wait_ep0", "advance",
                                  "idle"})
    BY DEF Init
  <2>5. DevTypeOK
    BY <2>2 DEF Init, DevInit, DevTypeOK
  <2>6. performed \in [Requests -> Nat]
    BY DEF Init
  <2> QED
    BY <2>3, <2>4, <2>5, <2>6 DEF Init, TypeOK
<1>2. MoreTypes
  <2>1. 0 \in Ep
    BY DEF Ep
  <2> QED
    BY <2>1 DEF Init, DevInit, MoreTypes, None
<1> QED
  BY <1>1, <1>2 DEF Types

-----------------------------------------------------------------------------
(* EP0 and its buffer, the bus reset, the reports *)

(* What a step of the host does to EP0: nothing, or one packet given or    *)
(* taken while it is not busy, once it has been seen open.                 *)
LEMMA HostAtEp0 ==
  ASSUME Types, HostStep
  PROVE  /\ \/ epr'[0] = epr[0]
            \/ ~Booting /\ ~EpBusy(0) /\ epr'[0] = RaiseCtrTx(epr[0])
            \/ \E b \in BOOLEAN :
                 ~Booting /\ ~EpBusy(0) /\ epr'[0] = RaiseCtrRx(epr[0], b)
         /\ Booting' => Booting /\ epr' = epr
         /\ Booting /\ ~Booting' => epr' = epr /\ described /\ daddrEnabled
<1>0. 0 \in Ep /\ epr \in [Ep -> Epr]
  BY EprIs DEF Types, TypeOK, DevTypeOK
<1>1. CASE TakeReport
  <2>1. PICK ep \in ReadyIn : epr' = [epr EXCEPT ![ep] = RaiseCtrTx(@)]
    BY <1>1, ReportIs
  <2>2. ep # 0
    BY <2>1, EprIs DEF ReadyIn, Types
  <2>3. state' = state /\ ~Booting
    BY <1>1 DEF TakeReport, PollsIn, hostVars, Booting
  <2> QED
    BY <1>0, <2>1, <2>2, <2>3 DEF Booting
<1>2. CASE ControlStep
  <2>w. ASSUME NEW seen, TickPatience(seen), ~Booting
        PROVE  epr' = epr /\ ~Booting'
    BY <2>w DEF TickPatience, Untouched, Finish, Booting
  <2>f. ASSUME NEW b, Finish(b) PROVE ~Booting'
    BY <2>f DEF Finish, Booting
  <2>v. ASSUME NEW out, NEW ready, Waits(out, ready), ~Booting
        PROVE  epr' = epr /\ ~Booting'
    <3>1. CASE TickPatience(SeenAfter(out))
      BY <2>v, <2>w, <3>1
    <3>2. CASE Untouched /\ Finish(TRUE)
      BY <3>2, <2>f DEF Untouched
    <3> QED
      BY <2>v, <3>1, <3>2 DEF Waits
  <2>1. CASE Attach
    BY <2>1 DEF Attach, Booting
  <2>2. CASE DriveReset
    BY <2>2 DEF DriveReset, Booting
  <2>3. CASE WaitEp0
    BY <2>3 DEF WaitEp0, OpenEp0, Booting
  <2>4. CASE Advance
    <3>1. CASE EpBusy(0)
      BY <2>4, <2>w, <3>1 DEF Advance, Booting
    <3>2. CASE ~EpBusy(0) /\ queue = <<>>
      BY <2>4, <3>2 DEF Advance, StartNext, Untouched, Booting
    <3>3. CASE ~EpBusy(0) /\ queue # <<>>
      <4>1. /\ state' = FirstStage(Head(queue)) /\ Give(Head(queue), TRUE)
            /\ state = "advance"
        BY <2>4, <3>3 DEF Advance, StartNext
      <4>2. ~Booting /\ ~Booting'
        BY <4>1 DEF Booting, FirstStage
      <4>3. epr'[0] = RaiseCtrRx(epr[0], TRUE)
        BY <1>0, <4>1 DEF Give
      <4> QED
        BY <3>3, <4>2, <4>3
    <3> QED
      BY <3>1, <3>2, <3>3
  <2>5. CASE DataIn
    <3>1. state = "data_in" /\ ~Booting
      BY <2>5 DEF DataIn, Booting
    <3>2. CASE Waits(FALSE, ReadyTx)
      BY <2>v, <3>1, <3>2
    <3>3. CASE ReadyTx /\ Take(0) /\ state' \in {"status_out", state}
      BY <1>0, <3>1, <3>3 DEF ReadyTx, Take, Booting
    <3> QED
      BY <2>5, <3>2, <3>3 DEF DataIn
  <2>6. CASE DataOut
    <3>1. state = "data_out" /\ ~Booting
      BY <2>6 DEF DataOut, Booting
    <3>2. CASE Waits(TRUE, ReadyRx)
      BY <2>v, <3>1, <3>2
    <3>3. CASE ReadyRx /\ Give(cur, FALSE) /\ state' = "status_in"
      BY <1>0, <3>1, <3>3 DEF ReadyRx, Give, Booting
    <3> QED
      BY <2>6, <3>2, <3>3 DEF DataOut
  <2>7. CASE StatusOut
    <3>1. state = "status_out" /\ ~Booting
      BY <2>7 DEF StatusOut, Booting
    <3>2. CASE Waits(TRUE, ReadyRx)
      BY <2>v, <3>1, <3>2
    <3>3. CASE ReadyRx /\ Give(None, FALSE) /\ Finish(FALSE)
      BY <1>0, <2>f, <3>1, <3>3 DEF ReadyRx, Give
    <3> QED
      BY <2>7, <3>2, <3>3 DEF StatusOut
  <2>8. CASE StatusIn
    <3>1. state = "status_in" /\ ~Booting
      BY <2>8 DEF StatusIn, Booting
    <3>2. CASE Waits(FALSE, ReadyTx)
      BY <2>v, <3>1, <3>2
    <3>3. CASE ReadyTx /\ Take(0) /\ Finish(FALSE)
      BY <1>0, <2>f, <3>1, <3>3 DEF ReadyTx, Take
    <3> QED
      BY <2>8, <3>2, <3>3 DEF StatusIn
  <2>9. CASE Idle
    BY <2>9 DEF Idle, Booting
  <2> QED
    BY <1>2, <2>1, <2>2, <2>3, <2>4, <2>5, <2>6, <2>7, <2>8, <2>9 DEF ControlStep
<1> QED
  BY <1>1, <1>2 DEF HostStep

(* What the firmware does to EP0's flags: it clears them.                  *)
LEMMA FirmwareAtEp0 ==
  ASSUME Types, Firmware \/ FwPublish
  PROVE  /\ epr'[0].ctrRx => epr[0].ctrRx
         /\ epr'[0].ctrTx => epr[0].ctrTx
         /\ described => described'
         /\ daddrEnabled => daddrEnabled'
         /\ state' = state /\ queue' = queue
<1>0. 0 \in Ep /\ epr \in [Ep -> Epr] /\ epr[0] \in Epr
  BY EprIs DEF Types, TypeOK, DevTypeOK
<1>s. VALID \in 0 .. 3 /\ STALL \in 0 .. 3
  BY DEF VALID, STALL
<1>w. ASSUME NEW e \in Epr, NEW s \in 0 .. 3
      PROVE  /\ SetStatTx(e, s).ctrRx = e.ctrRx /\ SetStatTx(e, s).ctrTx = e.ctrTx
             /\ SetStatRx(e, s).ctrRx = e.ctrRx /\ SetStatRx(e, s).ctrTx = e.ctrTx
             /\ ClearCtrRx(e).ctrRx = FALSE /\ ClearCtrRx(e).ctrTx = e.ctrTx
             /\ ClearCtrTx(e).ctrTx = FALSE /\ ClearCtrTx(e).ctrRx = e.ctrRx
             /\ Opened(e).ctrRx = FALSE /\ Opened(e).ctrTx = FALSE
  <2>1. /\ [e EXCEPT !.statTx = s].ctrRx = e.ctrRx
        /\ [e EXCEPT !.statTx = s].ctrTx = e.ctrTx
        /\ [e EXCEPT !.statRx = s].ctrRx = e.ctrRx
        /\ [e EXCEPT !.statRx = s].ctrTx = e.ctrTx
        /\ [e EXCEPT !.ctrRx = FALSE].ctrRx = FALSE
        /\ [e EXCEPT !.ctrRx = FALSE].ctrTx = e.ctrTx
        /\ [e EXCEPT !.ctrTx = FALSE].ctrTx = FALSE
        /\ [e EXCEPT !.ctrTx = FALSE].ctrRx = e.ctrRx
    BY DEF Epr
  <2>2. /\ SetStatRx(e, s) = [e EXCEPT !.statRx = s]
        /\ SetStatTx(e, s) = [e EXCEPT !.statTx = s]
        /\ ClearCtrRx(e) = [e EXCEPT !.ctrRx = FALSE]
        /\ ClearCtrTx(e) = [e EXCEPT !.ctrTx = FALSE]
    BY WritesAre
  <2>3. Opened(e).ctrRx = FALSE /\ Opened(e).ctrTx = FALSE
    BY OpenedIs
  <2> QED
    BY <2>1, <2>2, <2>3, Zenon
<1>h. state' = state /\ queue' = queue
  BY DEF Firmware, FwPublish, FwStart, FwAttach, FwReset, FwDescribe, FwReceive,
     FwTransmitted, FwReported, FwSetup, FwIn, FwOut, EndsCallback, hostVars
<1>d. described => described'
  BY DEF Firmware, FwPublish, FwStart, FwAttach, FwReset, FwDescribe, FwReceive,
     FwTransmitted, FwReported, FwSetup, FwIn, FwOut, EndsCallback
<1>e. daddrEnabled => daddrEnabled'
  BY DEF Firmware, FwPublish, FwStart, FwAttach, FwReset, FwDescribe, FwReceive,
     FwTransmitted, FwReported, FwSetup, FwIn, FwOut, EndsCallback
<1> DEFINE Cleared(e) == (e.ctrRx => epr[0].ctrRx) /\ (e.ctrTx => epr[0].ctrTx)
<1> SUFFICES Cleared(epr'[0])
  BY <1>h, <1>d, <1>e
<1>c. ASSUME NEW e \in Epr, Cleared(e), NEW s \in 0 .. 3
      PROVE  /\ Cleared(SetStatTx(e, s)) /\ Cleared(SetStatRx(e, s))
             /\ Cleared(ClearCtrRx(e)) /\ Cleared(ClearCtrTx(e)) /\ Cleared(Opened(e))
  <2>1. /\ SetStatTx(e, s).ctrRx = e.ctrRx /\ SetStatTx(e, s).ctrTx = e.ctrTx
        /\ SetStatRx(e, s).ctrRx = e.ctrRx /\ SetStatRx(e, s).ctrTx = e.ctrTx
        /\ ClearCtrRx(e).ctrRx = FALSE /\ ClearCtrRx(e).ctrTx = e.ctrTx
        /\ ClearCtrTx(e).ctrTx = FALSE /\ ClearCtrTx(e).ctrRx = e.ctrRx
        /\ Opened(e).ctrRx = FALSE /\ Opened(e).ctrTx = FALSE
    BY <1>w
  <2>2. (e.ctrRx => epr[0].ctrRx) /\ (e.ctrTx => epr[0].ctrTx)
    BY <1>c
  <2> QED
    BY <2>1, <2>2, Zenon
<1>b. Cleared(epr[0])
  OBVIOUS
<1> HIDE DEF Cleared
<1>1. CASE FwStart \/ FwAttach \/ FwReset \/ FwDescribe
  <2>1. epr'[0] = epr[0] \/ epr'[0] = Opened(epr[0])
    BY <1>0, <1>1 DEF FwStart, FwAttach, FwReset, FwDescribe
  <2> QED
    BY <1>0, <1>s, <1>b, <1>c, <2>1
<1>2. CASE FwReceive \/ FwTransmitted
  <2>1. \/ epr'[0] = ClearCtrRx(epr[0]) \/ epr'[0] = ClearCtrTx(epr[0])
        \/ epr'[0] = SetStatTx(ClearCtrTx(epr[0]), VALID)
    BY <1>0, <1>2 DEF FwReceive, FwTransmitted
  <2>2. ClearCtrTx(epr[0]) \in Epr
    BY <1>0, RaisesAre
  <2> QED
    BY <1>0, <1>s, <1>b, <1>c, <2>1, <2>2
<1>3. CASE FwReported \/ FwPublish
  <2>1. epr'[0] = epr[0]
    BY <1>0, <1>3, InEpsAssumption DEF FwReported, FwPublish
  <2> QED
    BY <1>b, <2>1
<1>4. CASE FwSetup \/ FwIn \/ FwOut
  <2>1. \/ epr'[0] = epr[0]
        \/ epr'[0] = SetStatTx(epr[0], VALID) \/ epr'[0] = SetStatRx(epr[0], VALID)
        \/ epr'[0] = SetStatRx(SetStatTx(epr[0], STALL), STALL)
    BY <1>0, <1>4 DEF FwSetup, FwIn, FwOut, Transmit, Receive, Refuse
  <2>2. SetStatTx(epr[0], STALL) \in Epr
    <3>1. [epr[0] EXCEPT !.statTx = STALL] \in Epr
      BY <1>0, <1>s DEF Epr
    <3> QED
      BY <1>0, <1>s, <3>1, WritesAre
  <2> QED
    BY <1>0, <1>s, <1>b, <1>c, <2>1, <2>2
<1> QED
  BY <1>1, <1>2, <1>3, <1>4 DEF Firmware

(* One transaction per step: no flag is raised while another one is up.    *)
LEMMA NeverBothStep ==
  ASSUME Types, NeverBothCtr, [Next]_vars
  PROVE  NeverBothCtr'
<1>0. epr[0] \in Epr
  BY EprIs DEF Types
<1>1. CASE HostStep
  <2>1. CASE epr'[0] = epr[0]
    BY <2>1 DEF NeverBothCtr
  <2>2. CASE ~EpBusy(0) /\ epr'[0] = RaiseCtrTx(epr[0])
    <3>1. RaiseCtrTx(epr[0]).ctrRx = epr[0].ctrRx
      BY <1>0 DEF RaiseCtrTx, Epr
    <3> QED
      BY <2>2, <3>1, Zenon DEF NeverBothCtr, EpBusy
  <2>3. ASSUME NEW b \in BOOLEAN, ~EpBusy(0), epr'[0] = RaiseCtrRx(epr[0], b)
        PROVE  NeverBothCtr'
    <3>1. RaiseCtrRx(epr[0], b).ctrTx = epr[0].ctrTx
      BY <1>0 DEF RaiseCtrRx, Epr
    <3> QED
      BY <2>3, <3>1, Zenon DEF NeverBothCtr, EpBusy
  <2> QED
    BY <1>1, <2>1, <2>2, <2>3, HostAtEp0
<1>2. CASE Submit \/ UNCHANGED vars
  BY <1>2 DEF Submit, vars, devVars, NeverBothCtr
<1>3. CASE Firmware \/ FwPublish
  <2>1. (epr'[0].ctrRx => epr[0].ctrRx) /\ (epr'[0].ctrTx => epr[0].ctrTx)
    BY <1>3, FirmwareAtEp0
  <2> QED
    BY <2>1, Zenon DEF NeverBothCtr
<1> QED
  BY <1>1, <1>2, <1>3 DEF Next

(* What is opened stays open, and only what is open is written to.         *)
LEMMA BufferedStep ==
  ASSUME Types, Buffered, [Next]_vars
  PROVE  Buffered'
<1>0. epr[0] \in Epr
  BY EprIs DEF Types
<1>1. CASE HostStep
  <2>0. described' = described /\ daddrEnabled' = daddrEnabled
    BY <1>1 DEF HostStep
  <2>1. Opening'
    BY <1>1, <2>0, HostAtEp0 DEF Opening, Buffered
  <2>2. CASE epr'[0] = epr[0]
    BY <2>0, <2>1, <2>2 DEF GivenIntoBuffer, Buffered
  <2>3. CASE ~Booting
    BY <2>0, <2>1, <2>3 DEF GivenIntoBuffer, Buffered, Opening
  <2> QED
    BY <1>1, <2>2, <2>3, HostAtEp0
<1>2. CASE Submit \/ UNCHANGED vars
  BY <1>2 DEF Submit, vars, devVars, hostVars, Buffered, Opening, Booting, GivenIntoBuffer
<1>3. CASE Firmware \/ FwPublish
  <2>1. /\ epr'[0].ctrRx => epr[0].ctrRx
        /\ described => described' 
        /\ daddrEnabled => daddrEnabled'
        /\ state' = state
    BY <1>3, FirmwareAtEp0
  <2>2. Opening'
    BY <2>1, Zenon DEF Buffered, Opening, Booting
  <2>3. GivenIntoBuffer'
    BY <2>1, Zenon DEF Buffered, GivenIntoBuffer
  <2> QED
    BY <2>2, <2>3 DEF Buffered
<1> QED
  BY <1>1, <1>2, <1>3 DEF Next

(* Before the bus reset is dealt with the firmware has carried out nothing.*)
LEMMA ResetStep ==
  ASSUME Types, ResetFirst, [Next]_vars
  PROVE  ResetFirst'
<1>0. None \notin {"reset", "setup", "out", "in"}
  BY DEF None
<1>1. CASE HostStep
  <2>0. /\ enabled' = enabled /\ serving' = serving /\ performed' = performed
        /\ enabled
    BY <1>1 DEF HostStep, fwVars
  <2>1. CASE TakeReport
    <3>1. state' = state /\ resetEvent' = resetEvent /\ ~Booting
      BY <2>1 DEF TakeReport, PollsIn, hostVars, Booting
    <3> QED
      BY <2>0, <3>1 DEF ResetFirst, Booting, Untold
  <2>2. CASE ControlStep
    <3>1. CASE Attach
      <4>1. /\ state = "wait_attach" /\ state' \in {"wait_attach", "reset"}
            /\ epr' = epr /\ resetEvent' = resetEvent
        BY <3>1 DEF Attach
      <4> QED
        BY <2>0, <4>1 DEF ResetFirst, Booting, EpBusy, Untold
    <3>2. CASE DriveReset
      <4>1. /\ state = "reset" /\ state' = "wait_ep0" /\ epr' = epr
        BY <3>2 DEF DriveReset
      <4> QED
        BY <2>0, <4>1 DEF ResetFirst, Booting, EpBusy, Untold
    <3>3. CASE ~Attach /\ ~DriveReset
      <4>1. resetEvent' = resetEvent /\ state \notin {"wait_attach", "reset"}
        BY <2>2, <3>3 DEF ControlStep, WaitEp0, Advance, DataIn, DataOut, StatusOut,
           StatusIn, Idle, Attach, DriveReset
      <4>2. state' \notin {"wait_attach", "reset"}
        <5>1. CASE Booting
          BY <2>2, <3>3, <4>1, <5>1
             DEF ControlStep, WaitEp0, Advance, DataIn, DataOut, StatusOut,
             StatusIn, Idle, Attach, DriveReset, Booting
        <5>2. CASE ~Booting
          BY <1>1, <5>2, HostAtEp0 DEF Booting
        <5> QED
          BY <5>1, <5>2
      <4>3. Booting' => Booting /\ epr' = epr
        BY <1>1, HostAtEp0
      <4> QED
        BY <2>0, <4>1, <4>2, <4>3 DEF ResetFirst, Booting, EpBusy, Untold
    <3> QED
      BY <3>1, <3>2, <3>3
  <2> QED
    BY <1>1, <2>1, <2>2 DEF HostStep
<1>2. CASE Submit \/ UNCHANGED vars
  BY <1>2 DEF Submit, vars, devVars, hostVars, fwVars, ResetFirst, Booting, EpBusy, Untold
<1>3. CASE Firmware \/ FwPublish
  <2>1. /\ epr'[0].ctrRx => epr[0].ctrRx
        /\ epr'[0].ctrTx => epr[0].ctrTx
        /\ state' = state
    BY <1>3, FirmwareAtEp0
  <2>2. ~EpBusy(0) => ~EpBusy(0)'
    BY <2>1, Zenon DEF EpBusy
  <2>3. /\ enabled => enabled'
        /\ resetEvent' => resetEvent
    BY <1>3 DEF Firmware, FwPublish, FwStart, FwAttach, FwReset, FwDescribe,
       FwReceive, FwTransmitted, FwReported, FwSetup, FwIn, FwOut, EndsCallback
  <2>4. serving' \in {serving, None}
        \/ (resetEvent /\ serving' = "reset" /\ ~resetEvent')
        \/ (EpBusy(0) /\ serving' \in {"setup", "out", "in"} /\ ~resetEvent)
    <3>1. CASE FwReceive \/ FwTransmitted
      <4>1. Serves /\ IstrEp = 0 /\ serving' \in {serving, "setup", "out", "in"}
        BY <3>1 DEF FwReceive, FwTransmitted
      <4>2. EpBusy(0)
        <5>1. 0 \in CtrEps
          BY <4>1, IstrIs DEF Serves
        <5> QED
          BY <5>1 DEF CtrEps, EpBusy
      <4> QED
        BY <4>1, <4>2 DEF Serves
    <3>2. CASE ~(FwReceive \/ FwTransmitted)
      BY <1>3, <3>2 DEF Firmware, FwPublish, FwStart, FwAttach, FwReset,
         FwDescribe, FwReported, FwSetup, FwIn, FwOut, EndsCallback, fwVars
    <3> QED
      BY <3>1, <3>2
  <2>5. performed' = performed \/ serving \in {"setup", "out"}
    BY <1>3 DEF Firmware, FwPublish, FwStart, FwAttach, FwReset, FwDescribe,
       FwReceive, FwTransmitted, FwReported, FwSetup, FwIn, FwOut, fwVars
  <2>6. Booting' = Booting
    BY <2>1 DEF Booting
  <2>7. /\ ~enabled' => state' = "wait_attach"
        /\ state' \in {"wait_attach", "reset"} => ~resetEvent' /\ serving' = None
    BY <1>0, <2>1, <2>3, <2>4 DEF ResetFirst, Booting
  <2>8. Booting' => ~EpBusy(0)' /\ serving' \in {None, "reset"}
    BY <1>0, <2>2, <2>4, <2>6 DEF ResetFirst
  <2>9. Booting' \/ resetEvent' => Untold'
    <3>1. SUFFICES ASSUME Booting \/ resetEvent PROVE Untold'
      BY <2>3, <2>6
    <3>2. serving \in {None, "reset"} /\ Untold
      BY <3>1 DEF ResetFirst
    <3> QED
      BY <1>0, <2>5, <3>2 DEF Untold
  <2>10. resetEvent' => serving' = None
    BY <1>0, <2>3, <2>4 DEF ResetFirst
  <2> QED
    BY <2>7, <2>8, <2>9, <2>10 DEF ResetFirst
<1> QED
  BY <1>1, <1>2, <1>3 DEF Next

(* What has no part in the reports leaves them in order.                   *)
LEMMA ReportsFrame ==
  ASSUME Types, ReportsKept,
         \A ep \in InEps : epr'[ep].statTx = epr[ep].statTx /\ txBuf'[ep] = txBuf[ep],
         reports' = reports, published' = published,
         performed[SetCfg] > 0 => performed'[SetCfg] > 0
  PROVE  ReportsKept'
<1> QED
  BY DEF ReportsKept

LEMMA ReportsStep ==
  ASSUME Types, ResetFirst, ReportsKept, [Next]_vars
  PROVE  ReportsKept'
<1>0. /\ epr \in [Ep -> Epr] /\ txBuf \in [Ep -> Seq(Octets \cup Nat)]
      /\ reports \in [InEps -> Seq(Seq(Octets \cup Nat))]
      /\ published \in [InEps -> Nat] /\ performed \in [Requests -> Nat]
      /\ SetCfg \in Requests /\ InEps \subseteq Ep /\ 0 \notin InEps
  BY EprIs, RequestAssumption DEF Types, TypeOK, MoreTypes, DevTypeOK
<1>v. VALID # NAK /\ VALID # DISABLED /\ VALID \in 0 .. 3
  BY DEF VALID, NAK, DISABLED
<1>1. CASE TakeReport /\ UNCHANGED <<txBuf, fwVars>>
  <2>1. PICK e \in ReadyIn :
           /\ epr' = [epr EXCEPT ![e] = RaiseCtrTx(@)]
           /\ reports' = [reports EXCEPT ![e] = Append(@, txBuf[e])]
    BY <1>1, ReportIs
  <2>2. /\ e \in InEps /\ epr[e].statTx = VALID /\ epr[e] \in Epr
        /\ reports[e] \in Seq(Seq(Octets \cup Nat))
        /\ txBuf[e] \in Seq(Octets \cup Nat)
    BY <1>0 DEF ReadyIn
  <2>3. published' = published /\ performed' = performed /\ txBuf' = txBuf
    BY <1>1 DEF fwVars
  <2>4. published[e] = Len(reports[e]) + 1 /\ txBuf[e] = <<published[e]>>
    BY <2>2 DEF ReportsKept
  <2>5. epr'[e].statTx # VALID
    <3>1. RaiseCtrTx(epr[e]).statTx = NAK
      BY <2>2 DEF RaiseCtrTx, Epr
    <3> QED
      BY <1>0, <1>v, <2>1, <2>2, <3>1
  <2>6. reports'[e] = Append(reports[e], txBuf[e])
    BY <1>0, <2>1, <2>2
  <2>7. Len(reports'[e]) = published[e]
    BY <2>2, <2>4, <2>6
  <2>8. \A i \in DOMAIN reports'[e] : reports'[e][i] = <<i>>
    <3>1. \A i \in 1 .. Len(reports[e]) : reports[e][i] = <<i>>
      BY <2>2 DEF ReportsKept
    <3> QED
      BY <2>2, <2>4, <2>6, <3>1, SMTT(30)
  <2>9. ASSUME NEW ep \in InEps, ep # e
        PROVE  epr'[ep] = epr[ep] /\ reports'[ep] = reports[ep]
    BY <1>0, <2>1, <2>9
  <2> QED
    BY <2>2, <2>3, <2>5, <2>7, <2>8, <2>9, SMTT(60) DEF ReportsKept
<1>2. CASE HostStep /\ ~TakeReport
  <2>1. ControlStep /\ UNCHANGED <<txBuf, fwVars>>
    BY <1>2 DEF HostStep
  <2>2. reports' = reports
    BY <2>1 DEF ControlStep, Attach, DriveReset, WaitEp0, Advance, DataIn, DataOut,
       StatusOut, StatusIn, Idle, logVars
  <2>3. \A ep \in InEps : epr'[ep] = epr[ep]
    <3>1. epr' = epr \/ \E e \in {RaiseCtrTx(epr[0]), RaiseCtrRx(epr[0], TRUE),
                                  RaiseCtrRx(epr[0], FALSE)} :
                           epr' = [epr EXCEPT ![0] = e]
      <4>1. CASE Attach \/ DriveReset \/ WaitEp0 \/ Idle
        BY <4>1 DEF Attach, DriveReset, WaitEp0, Idle
      <4>2. CASE Advance
        BY <4>2 DEF Advance, StartNext, TickPatience, Untouched, Give
      <4>3. CASE DataIn
        BY <4>3 DEF DataIn, Waits, TickPatience, Untouched, Take
      <4>4. CASE DataOut
        BY <4>4 DEF DataOut, Waits, TickPatience, Untouched, Give
      <4>5. CASE StatusOut
        BY <4>5 DEF StatusOut, Waits, TickPatience, Untouched, Give
      <4>6. CASE StatusIn
        BY <4>6 DEF StatusIn, Waits, TickPatience, Untouched, Take
      <4> QED
        BY <2>1, <4>1, <4>2, <4>3, <4>4, <4>5, <4>6 DEF ControlStep
    <3> QED
      BY <1>0, <3>1
  <2> QED
    BY <2>1, <2>2, <2>3, ReportsFrame DEF fwVars
<1>3. CASE Submit \/ UNCHANGED vars
  BY <1>3, ReportsFrame DEF Submit, vars, devVars, logVars, fwVars
<1>4. CASE FwReset
  <2>1. ASSUME NEW ep \in InEps
        PROVE  published[ep] = 0 /\ published[ep] = Len(reports[ep])
    <3>1. performed[SetCfg] = 0
      BY <1>0, <1>4 DEF FwReset, ResetFirst, Untold
    <3>2. published[ep] \in Nat /\ Len(reports[ep]) \in Nat
      BY <1>0
    <3>3. published[ep] = 0
      BY <3>1, <3>2 DEF ReportsKept
    <3>4. published[ep] \in {Len(reports[ep]), Len(reports[ep]) + 1}
      BY DEF ReportsKept
    <3> QED
      BY <3>2, <3>3, <3>4
  <2>2. ASSUME NEW ep \in InEps PROVE epr'[ep].statTx = DISABLED
    BY <1>0, <1>4 DEF FwReset, EprZero
  <2>3. UNCHANGED <<txBuf, reports, published, performed>>
    BY <1>4 DEF FwReset, logVars
  <2> QED
    BY <1>v, <2>1, <2>2, <2>3 DEF ReportsKept
<1>5. CASE FwReported
  <2>1. IstrEp \in InEps
    <3>1. IstrEp \in CtrEps /\ CtrEps \subseteq Ep /\ IstrEp # 0
      BY <1>5, IstrIs DEF FwReported, Serves, CtrEps
    <3> QED
      BY <3>1 DEF Ep
  <2>2. ClearCtrTx(epr[IstrEp]).statTx = epr[IstrEp].statTx
    <3>1. epr[IstrEp] \in Epr
      BY <1>0, <2>1
    <3>2. ClearCtrTx(epr[IstrEp]) = [epr[IstrEp] EXCEPT !.ctrTx = FALSE]
      BY <1>v, <3>1, WritesAre
    <3> QED
      BY <3>1, <3>2 DEF Epr
  <2>3. \A ep \in InEps : epr'[ep].statTx = epr[ep].statTx
    BY <1>0, <1>5, <2>1, <2>2 DEF FwReported
  <2> QED
    BY <1>5, <2>3, ReportsFrame DEF FwReported, logVars, fwVars
<1>6. CASE Firmware /\ ~FwReset /\ ~FwReported
  <2>1. /\ \A ep \in InEps : epr'[ep] = epr[ep] /\ txBuf'[ep] = txBuf[ep]
        /\ reports' = reports /\ published' = published
    <3>1. CASE FwStart \/ FwAttach \/ FwDescribe
      BY <1>0, <3>1 DEF FwStart, FwAttach, FwDescribe, logVars, fwVars
    <3>2. CASE FwReceive \/ FwTransmitted
      BY <1>0, <3>2 DEF FwReceive, FwTransmitted, logVars
    <3>3. CASE FwSetup \/ FwIn \/ FwOut
      BY <1>0, <3>3 DEF FwSetup, FwIn, FwOut, EndsCallback, Transmit, Receive,
         Refuse, logVars
    <3> QED
      BY <1>6, <3>1, <3>2, <3>3 DEF Firmware
  <2>2. performed[SetCfg] > 0 => performed'[SetCfg] > 0
    <3>1. CASE FwSetup
      BY <1>0, <3>1 DEF FwSetup
    <3>2. CASE FwOut
      <4>1. performed'[SetCfg] \in {performed[SetCfg], performed[SetCfg] + 1}
        BY <1>0, <3>2 DEF FwOut
      <4> QED
        BY <1>0, <4>1
    <3>3. CASE ~FwSetup /\ ~FwOut
      BY <1>6, <3>3 DEF Firmware, FwStart, FwAttach, FwDescribe, FwReceive,
         FwTransmitted, FwIn, fwVars
    <3> QED
      BY <3>1, <3>2, <3>3
  <2> QED
    BY <2>1, <2>2, ReportsFrame
<1>7. CASE FwPublish
  <2>1. PICK e \in InEps :
         /\ epr[e].statTx # VALID
         /\ published' = [published EXCEPT ![e] = @ + 1]
         /\ txBuf' = [txBuf EXCEPT ![e] = <<published[e] + 1>>]
         /\ epr' = [epr EXCEPT ![e] = SetStatTx(@, VALID)]
    BY <1>7 DEF FwPublish
  <2>2. reports' = reports /\ performed' = performed /\ performed[SetCfg] > 0
    BY <1>7 DEF FwPublish, logVars
  <2>3. epr[e] \in Epr /\ published[e] \in Nat /\ e \in Ep
    BY <1>0
  <2>4. SetStatTx(epr[e], VALID).statTx = VALID
    BY <1>v, <2>3, WritesAre DEF Epr
  <2>5. /\ epr'[e].statTx = VALID /\ published'[e] = published[e] + 1
        /\ txBuf'[e] = <<published[e] + 1>>
    BY <1>0, <2>1, <2>3, <2>4
  <2>6. ASSUME NEW ep \in InEps, ep # e
        PROVE  /\ epr'[ep] = epr[ep] /\ txBuf'[ep] = txBuf[ep]
               /\ published'[ep] = published[ep]
    BY <1>0, <2>1, <2>6
  <2>7. published[e] = Len(reports[e])
    BY <2>1 DEF ReportsKept
  <2> QED
    BY <2>2, <2>3, <2>5, <2>6, <2>7 DEF ReportsKept
<1> QED
  BY <1>1, <1>2, <1>3, <1>4, <1>5, <1>6, <1>7 DEF Next, HostStep

-----------------------------------------------------------------------------
(* What holds whatever the firmware's latency *)

(* Types, one event at a time, open before anything is sent, the reset     *)
(* first, the reports in order.                                            *)
Sound == Types /\ NeverBothCtr /\ Buffered /\ ResetFirst /\ ReportsKept

THEOREM Soundness == Spec => []Sound
<1>1. Init => Sound
  <2>1. SUFFICES ASSUME Init PROVE Sound
    OBVIOUS
  <2>2. Types
    BY <2>1, TypesInit
  <2>3. /\ epr[0] = EprZero
        /\ \A ep \in InEps : epr[ep].statTx # VALID
    BY <2>1, InEpsAssumption DEF Init, DevInit, Ep, EprZero, VALID, DISABLED
  <2>4. NeverBothCtr /\ Buffered /\ ResetFirst
    BY <2>1, <2>3 DEF Init, DevInit, NeverBothCtr, Buffered, Opening, Booting,
       GivenIntoBuffer, ResetFirst, Untold, EpBusy, EprZero
  <2>5. ReportsKept
    <3>1. \A ep \in InEps : reports[ep] = <<>> /\ published[ep] = 0
      BY <2>1 DEF Init
    <3>2. SUFFICES ASSUME NEW ep \in InEps
                   PROVE  /\ \A i \in DOMAIN reports[ep] : reports[ep][i] = <<i>>
                          /\ published[ep] = Len(reports[ep]) /\ ~(published[ep] > 0)
      BY <2>3 DEF ReportsKept
    <3> QED
      BY <3>1
  <2> QED
    BY <2>2, <2>4, <2>5 DEF Sound
<1>2. Sound /\ [Next]_vars => Sound'
  BY TypesStep, NeverBothStep, BufferedStep, ResetStep, ReportsStep DEF Sound
<1> QED
  BY <1>1, <1>2, PTL DEF Spec

(* Every variable of the host, of the registers and of the firmware's EP0  *)
(* machine keeps its type, and the two patience counters their bounds.     *)
THEOREM TypeCorrect == Spec => []TypeOK
<1>1. Sound => TypeOK
  BY DEF Sound, Types
<1> QED
  BY <1>1, Soundness, PTL

(* EP0 never holds a completed IN together with a completed OUT or SETUP:  *)
(* a packet is given or taken only while neither flag is up.               *)
THEOREM NeverBoth == Spec => []NeverBothCtr
<1>1. Sound => NeverBothCtr
  BY DEF Sound
<1> QED
  BY <1>1, Soundness, PTL

(* A packet is in the buffer only when EP0 has its address and its buffer  *)
(* descriptor: the host waits for both before its first SETUP.             *)
THEOREM IntoBuffer == Spec => []GivenIntoBuffer
<1>1. Sound => GivenIntoBuffer
  BY DEF Sound, Buffered
<1> QED
  BY <1>1, Soundness, PTL

(* The reports of an endpoint come in the order of their publication, none *)
(* missing and none twice: an endpoint holds at most the next one, and the *)
(* bus reset, which would drop it, comes before the first.                 *)
THEOREM InOrder == Spec => []ReportsInOrder
<1>1. Sound => ReportsInOrder
  <2>1. SUFFICES ASSUME Sound, NEW ep \in InEps
                 PROVE  /\ \A i \in DOMAIN reports[ep] : reports[ep][i] = <<i>>
                        /\ Len(reports[ep]) <= published[ep]
    BY DEF ReportsInOrder
  <2>2. Len(reports[ep]) \in Nat /\ published[ep] \in Nat
    BY <2>1 DEF Sound, Types, MoreTypes
  <2>3. published[ep] \in {Len(reports[ep]), Len(reports[ep]) + 1}
    BY <2>1 DEF Sound, ReportsKept
  <2> QED
    BY <2>1, <2>2, <2>3 DEF Sound, ReportsKept
<1> QED
  BY <1>1, Soundness, PTL

-----------------------------------------------------------------------------
(* The phases of a transfer *)

(* The handler's latency is less than what the host puts up with.          *)
Outlasts ==
    /\ ResetLatency <= StepPatience /\ CtrLatency <= StepPatience
    /\ CtrLatency < StallPatience

Calm == ~epr[0].ctrRx /\ ~epr[0].ctrTx
OnlyRx == epr[0].ctrRx /\ ~epr[0].ctrTx
OnlyTx == epr[0].ctrTx /\ ~epr[0].ctrRx
Served == Calm /\ serving = None /\ ~resetEvent
Unarmed == epr[0].statTx # VALID /\ epr[0].statRx # VALID

(* No STALL has been set yet: EP0 has just been opened.                    *)
Pristine ==
    /\ ep0state = "setup" /\ answers = <<>> /\ Untold
    /\ epr[0].statTx \in {DISABLED, NAK} /\ epr[0].statRx \in {DISABLED, NAK}

(* The handler is done with the last transfer, or about to be.             *)
Finishing ==
    \/ serving \in {None, "reset"} /\ ep0state \in {"setup", "error"}
    \/ serving = "out" /\ ep0state = "waitsts"
    \/ serving = "in" /\ ep0state = "sendsts"

LastSeen ==
    \/ Calm /\ Finishing
    \/ OnlyRx /\ ~epr[0].setup /\ serving = None /\ ep0state = "waitsts"
    \/ OnlyTx /\ serving = None /\ ep0state = "sendsts"

Boots ==
    /\ Booting /\ Calm /\ Pristine

Rests ==
    /\ state \in {"advance", "idle"} /\ LastSeen /\ Unarmed
    /\ (resetEvent \/ serving = "reset") => Calm /\ Pristine

(* A transfer has been started, and no byte of it has been sent.           *)
Started == cur \in Requests /\ state = FirstStage(cur) /\ data = <<>>

(* While the handler is about it, the host has not waited for too long.    *)
Timely == stallSeen <= stageSteps /\ stageSteps <= waited

(* The SETUP packet waits for the handler...                               *)
Pends ==
    /\ Started /\ OnlyRx /\ epr[0].setup /\ rxBuf = cur /\ Finishing
    /\ epr[0].statTx # VALID /\ epr[0].statRx = NAK /\ Timely
    /\ (resetEvent \/ serving = "reset") => Pristine

(* ... is lost, for the bus reset came later...                            *)
Lost ==
    /\ Started /\ Calm /\ Pristine /\ Unarmed /\ serving \in {None, "reset"}
    /\ ~resetEvent
    /\ serving = "reset" => Timely

(* ... or is read.                                                         *)
Asks ==
    /\ Started /\ Calm /\ Timely /\ serving = "setup" /\ ~resetEvent
    /\ epr[0].statTx # VALID /\ epr[0].statRx = NAK /\ setupReq = cur

Refuses ==
    /\ Started /\ Served /\ setupReq = cur /\ cur \notin Supported
    /\ ep0state = "error" /\ epr[0].statTx = STALL /\ epr[0].statRx = STALL

(* A request that is answered with bytes, packet by packet.                *)
Sends == cur \in Supported /\ setupReq = cur /\ Want(cur) > 0 /\ ~resetEvent

Whole(n) == \E k \in Nat : n = k * MaxPacket

Arms ==
    /\ Sends /\ Served /\ state = "data_in" /\ ep0state = "tx"
    /\ epr[0].statTx = VALID /\ epr[0].statRx = NAK
    /\ Whole(Len(data)) /\ Len(data) < ReplySize(cur)
    /\ sent = Smaller(Len(data) + MaxPacket, ReplySize(cur))
    /\ data = Bytes(cur, 0, Len(data)) /\ txBuf[0] = Bytes(cur, Len(data), sent)

(* The packet is taken, and there are more.                                *)
Goes ==
    /\ Sends /\ OnlyTx /\ serving = None /\ state = "data_in" /\ ep0state = "tx"
    /\ epr[0].statTx = NAK /\ epr[0].statRx = NAK /\ Timely
    /\ Whole(sent) /\ sent < ReplySize(cur) /\ data = Bytes(cur, 0, sent)

(* The last one is taken: is an empty one to follow, or the status?        *)
Taken ==
    \/ OnlyTx /\ serving = None
    \/ Calm /\ serving = "in"

Drains ==
    /\ Sends /\ Taken /\ ep0state = "tx" /\ Timely
    /\ epr[0].statTx = NAK /\ epr[0].statRx = NAK
    /\ sent = ReplySize(cur) /\ data = Reply(cur)
    /\ state = (IF NeedsEmptyPacket THEN "data_in" ELSE "status_out")

Empties ==
    /\ Sends /\ Served /\ state = "data_in" /\ ep0state = "txzlp"
    /\ epr[0].statTx = VALID /\ epr[0].statRx = NAK
    /\ data = Reply(cur) /\ txBuf[0] = <<>>

Emptied ==
    /\ Sends /\ Taken /\ state = "status_out" /\ ep0state = "txzlp" /\ Timely
    /\ epr[0].statTx = NAK /\ epr[0].statRx = NAK /\ data = Reply(cur)

AwaitsStatus ==
    /\ Sends /\ Served /\ state = "status_out" /\ ep0state = "waitsts"
    /\ epr[0].statRx = VALID /\ epr[0].statTx # VALID /\ data = Reply(cur)

(* A request without an answer, with or without data of its own.           *)
Performs ==
    cur \in Supported /\ setupReq = cur /\ Want(cur) = 0 /\ data = <<>> /\ ~resetEvent

AwaitsData ==
    /\ Performs /\ HasOut(cur) /\ Served /\ state = "data_out" /\ ep0state = "rx"
    /\ epr[0].statRx = VALID /\ epr[0].statTx # VALID

Takes ==
    /\ Performs /\ state = "status_in" /\ ep0state = "rx" /\ Unarmed /\ Timely
    /\ \/ OnlyRx /\ ~epr[0].setup /\ serving = None
       \/ Calm /\ serving = "out"

SendsStatus ==
    /\ Performs /\ Served /\ state = "status_in" /\ ep0state = "sendsts"
    /\ epr[0].statTx = VALID /\ epr[0].statRx # VALID /\ txBuf[0] = <<>>

Phase ==
    \/ Boots \/ Rests \/ Pends \/ Lost \/ Asks \/ Refuses
    \/ Arms \/ Goes \/ Drains \/ Empties \/ Emptied \/ AwaitsStatus
    \/ AwaitsData \/ Takes \/ SendsStatus

(* In its phase, with both sides at the same place of the transfer.        *)
InPhase == Phase /\ ProtocolInStep /\ (resetEvent => Pristine)

(* The firmware is at an event that the host waits for.                    *)
Handled == Pends \/ Asks \/ Goes \/ Drains \/ Emptied \/ Takes

-----------------------------------------------------------------------------
(* What the actions do to EP0's register *)

(* The fields of what is written to a register.                            *)
LEMMA FieldsAre ==
  ASSUME NEW e \in Epr, NEW s \in 0 .. 3
  PROVE  /\ SetStatTx(e, s).statTx = s /\ SetStatTx(e, s).statRx = e.statRx
         /\ SetStatTx(e, s).ctrRx = e.ctrRx /\ SetStatTx(e, s).ctrTx = e.ctrTx
         /\ SetStatTx(e, s).setup = e.setup
         /\ SetStatRx(e, s).statRx = s /\ SetStatRx(e, s).statTx = e.statTx
         /\ SetStatRx(e, s).ctrRx = e.ctrRx /\ SetStatRx(e, s).ctrTx = e.ctrTx
         /\ SetStatRx(e, s).setup = e.setup
         /\ ClearCtrRx(e).statRx = e.statRx /\ ClearCtrRx(e).statTx = e.statTx
         /\ ClearCtrRx(e).ctrRx = FALSE /\ ClearCtrRx(e).ctrTx = e.ctrTx
         /\ ClearCtrRx(e).setup = e.setup
         /\ ClearCtrTx(e).statRx = e.statRx /\ ClearCtrTx(e).statTx = e.statTx
         /\ ClearCtrTx(e).ctrTx = FALSE /\ ClearCtrTx(e).ctrRx = e.ctrRx
         /\ ClearCtrTx(e).setup = e.setup
<1>1. /\ SetStatRx(e, s) = [e EXCEPT !.statRx = s]
      /\ SetStatTx(e, s) = [e EXCEPT !.statTx = s]
      /\ ClearCtrRx(e) = [e EXCEPT !.ctrRx = FALSE]
      /\ ClearCtrTx(e) = [e EXCEPT !.ctrTx = FALSE]
  BY WritesAre
<1>2. /\ [e EXCEPT !.statTx = s].statTx = s /\ [e EXCEPT !.statTx = s].statRx = e.statRx
      /\ [e EXCEPT !.statTx = s].ctrRx = e.ctrRx /\ [e EXCEPT !.statTx = s].ctrTx = e.ctrTx
      /\ [e EXCEPT !.statTx = s].setup = e.setup
  BY DEF Epr
<1>3. /\ [e EXCEPT !.statRx = s].statRx = s /\ [e EXCEPT !.statRx = s].statTx = e.statTx
      /\ [e EXCEPT !.statRx = s].ctrRx = e.ctrRx /\ [e EXCEPT !.statRx = s].ctrTx = e.ctrTx
      /\ [e EXCEPT !.statRx = s].setup = e.setup
  BY DEF Epr
<1>4. /\ [e EXCEPT !.ctrRx = FALSE].statRx = e.statRx
      /\ [e EXCEPT !.ctrRx = FALSE].statTx = e.statTx
      /\ [e EXCEPT !.ctrRx = FALSE].ctrRx = FALSE
      /\ [e EXCEPT !.ctrRx = FALSE].ctrTx = e.ctrTx
      /\ [e EXCEPT !.ctrRx = FALSE].setup = e.setup
  BY DEF Epr
<1>5. /\ [e EXCEPT !.ctrTx = FALSE].statRx = e.statRx
      /\ [e EXCEPT !.ctrTx = FALSE].statTx = e.statTx
      /\ [e EXCEPT !.ctrTx = FALSE].ctrTx = FALSE
      /\ [e EXCEPT !.ctrTx = FALSE].ctrRx = e.ctrRx
      /\ [e EXCEPT !.ctrTx = FALSE].setup = e.setup
  BY DEF Epr
<1> QED
  BY <1>1, <1>2, <1>3, <1>4, <1>5, Zenon

(* A packet given to an EP0 without events is its only event.              *)
LEMMA GiveIs ==
  ASSUME Types, ~EpBusy(0), NEW packet, NEW b \in BOOLEAN, Give(packet, b)
  PROVE  /\ OnlyRx' /\ rxBuf' = packet /\ (epr'[0].setup <=> b)
         /\ epr'[0].statRx = NAK /\ epr'[0].statTx = epr[0].statTx
<1>1. epr[0] \in Epr /\ epr \in [Ep -> Epr] /\ 0 \in Ep
  BY EprIs DEF Types, TypeOK, DevTypeOK
<1>2. epr'[0] = RaiseCtrRx(epr[0], b) /\ rxBuf' = packet
  BY <1>1 DEF Give
<1>3. /\ RaiseCtrRx(epr[0], b).ctrRx = TRUE
      /\ RaiseCtrRx(epr[0], b).ctrTx = epr[0].ctrTx
      /\ RaiseCtrRx(epr[0], b).setup = b
      /\ RaiseCtrRx(epr[0], b).statRx = NAK
      /\ RaiseCtrRx(epr[0], b).statTx = epr[0].statTx
  BY <1>1 DEF RaiseCtrRx, Epr
<1> QED
  BY <1>2, <1>3, Zenon DEF OnlyRx, EpBusy

(* So is a packet taken from it.                                           *)
LEMMA TakeIs ==
  ASSUME Types, ~EpBusy(0), Take(0)
  PROVE  /\ OnlyTx' /\ rxBuf' = rxBuf
         /\ epr'[0].statTx = NAK /\ epr'[0].statRx = epr[0].statRx
<1>1. epr[0] \in Epr /\ epr \in [Ep -> Epr] /\ 0 \in Ep
  BY EprIs DEF Types, TypeOK, DevTypeOK
<1>2. epr'[0] = RaiseCtrTx(epr[0]) /\ rxBuf' = rxBuf
  BY <1>1 DEF Take
<1>3. /\ RaiseCtrTx(epr[0]).ctrTx = TRUE
      /\ RaiseCtrTx(epr[0]).ctrRx = epr[0].ctrRx
      /\ RaiseCtrTx(epr[0]).statTx = NAK
      /\ RaiseCtrTx(epr[0]).statRx = epr[0].statRx
  BY <1>1 DEF RaiseCtrTx, Epr
<1> QED
  BY <1>2, <1>3, Zenon DEF OnlyTx, EpBusy

(* The handler acknowledges one event, and leaves the rest as it is.       *)
LEMMA ReceiveIs ==
  ASSUME Sound, FwReceive
  PROVE  /\ OnlyRx /\ Calm' /\ serving = None /\ ~resetEvent /\ ~resetEvent'
         /\ epr'[0].statTx = epr[0].statTx /\ epr'[0].statRx = epr[0].statRx
         /\ IF epr[0].setup THEN serving' = "setup" /\ setupReq' = rxBuf
                            ELSE serving' = "out" /\ setupReq' = setupReq
         /\ UNCHANGED <<hostVars, logVars, rxBuf, txBuf, ep0state, sent, performed, waited>>
<1>1. epr[0] \in Epr /\ epr \in [Ep -> Epr] /\ 0 \in Ep /\ 0 \in 0 .. 3
  BY EprIs DEF Sound, Types, TypeOK, DevTypeOK
<1>2. epr'[0] = ClearCtrRx(epr[0])
  BY <1>1 DEF FwReceive
<1>3. epr[0].ctrRx
  BY DEF FwReceive, IstrDirRx
<1>4. OnlyRx /\ Calm' /\ epr'[0].statTx = epr[0].statTx /\ epr'[0].statRx = epr[0].statRx
  <2>1. /\ ClearCtrRx(epr[0]).ctrRx = FALSE /\ ClearCtrRx(epr[0]).ctrTx = epr[0].ctrTx
        /\ ClearCtrRx(epr[0]).statTx = epr[0].statTx
        /\ ClearCtrRx(epr[0]).statRx = epr[0].statRx
    BY <1>1, FieldsAre
  <2> QED
    BY <1>2, <1>3, <2>1, Zenon DEF OnlyRx, Calm, Sound, NeverBothCtr
<1> QED
  BY <1>4 DEF FwReceive, Serves

LEMMA TransmittedIs ==
  ASSUME Sound, FwTransmitted
  PROVE  /\ OnlyTx /\ Calm' /\ serving = None /\ ~resetEvent /\ ~resetEvent'
         /\ epr'[0].statRx = epr[0].statRx
         /\ IF ep0state = "tx" /\ sent < ReplySize(setupReq)
            THEN /\ epr'[0].statTx = VALID /\ txBuf'[0] = Chunk(sent)
                 /\ sent' = sent + Len(Chunk(sent)) /\ serving' = None
            ELSE /\ epr'[0].statTx = epr[0].statTx /\ serving' = "in"
                 /\ txBuf' = txBuf /\ sent' = sent
         /\ UNCHANGED <<hostVars, logVars, rxBuf, ep0state, setupReq, performed, waited>>
<1>1. /\ epr[0] \in Epr /\ epr \in [Ep -> Epr] /\ 0 \in Ep /\ VALID \in 0 .. 3
      /\ txBuf \in [Ep -> Seq(Octets \cup Nat)]
  BY EprIs DEF Sound, Types, TypeOK, DevTypeOK, MoreTypes, VALID
<1>2. OnlyTx /\ serving = None /\ ~resetEvent /\ ~resetEvent'
  <2>1. 0 \in CtrEps /\ ~epr[0].ctrRx
    BY IstrIs DEF FwTransmitted, Serves, IstrDirRx
  <2>2. OnlyTx
    BY <2>1, Zenon DEF CtrEps, OnlyTx
  <2> QED
    BY <2>2 DEF FwTransmitted, Serves
<1>3. /\ ClearCtrTx(epr[0]).ctrTx = FALSE /\ ClearCtrTx(epr[0]).ctrRx = epr[0].ctrRx
      /\ ClearCtrTx(epr[0]).statTx = epr[0].statTx
      /\ ClearCtrTx(epr[0]).statRx = epr[0].statRx
      /\ ClearCtrTx(epr[0]) \in Epr
  BY <1>1, FieldsAre, RaisesAre
<1> DEFINE c == ClearCtrTx(epr[0])
<1>4. /\ SetStatTx(c, VALID).ctrTx = c.ctrTx /\ SetStatTx(c, VALID).ctrRx = c.ctrRx
      /\ SetStatTx(c, VALID).statTx = VALID /\ SetStatTx(c, VALID).statRx = c.statRx
  BY <1>1, <1>3, FieldsAre
<1>5. CASE ep0state = "tx" /\ sent < ReplySize(setupReq)
  <2>1. /\ epr'[0] = SetStatTx(ClearCtrTx(epr[0]), VALID) /\ txBuf'[0] = Chunk(sent)
        /\ sent' = sent + Len(Chunk(sent)) /\ serving' = serving
        /\ UNCHANGED <<hostVars, logVars, rxBuf, ep0state, setupReq, performed, waited>>
    BY <1>1, <1>5 DEF FwTransmitted
  <2>2. /\ Calm' /\ epr'[0].statRx = epr[0].statRx /\ epr'[0].statTx = VALID
    BY <1>2, <1>3, <1>4, <2>1, Zenon DEF Calm, OnlyTx
  <2> QED
    BY <1>2, <1>5, <2>1, <2>2
<1>6. CASE ~(ep0state = "tx" /\ sent < ReplySize(setupReq))
  <2>1. /\ epr'[0] = ClearCtrTx(epr[0]) /\ txBuf' = txBuf
        /\ sent' = sent /\ serving' = "in"
        /\ UNCHANGED <<hostVars, logVars, rxBuf, ep0state, setupReq, performed, waited>>
    BY <1>1, <1>6 DEF FwTransmitted
  <2>2. /\ Calm' /\ epr'[0].statRx = epr[0].statRx /\ epr'[0].statTx = epr[0].statTx
    BY <1>2, <1>3, <2>1, Zenon DEF Calm, OnlyTx
  <2> QED
    BY <1>2, <1>6, <2>1, <2>2
<1> QED
  BY <1>5, <1>6

(* The callbacks leave the events alone.                                   *)
LEMMA TransmitIs ==
  ASSUME Types, NEW packet, NEW next, Transmit(packet, next)
  PROVE  /\ Calm => Calm'
         /\ OnlyRx => OnlyRx' /\ (epr'[0].setup <=> epr[0].setup)
         /\ epr'[0].statTx = VALID /\ epr'[0].statRx = epr[0].statRx
         /\ txBuf'[0] = packet /\ ep0state' = next
<1>1. /\ epr[0] \in Epr /\ epr \in [Ep -> Epr] /\ 0 \in Ep /\ VALID \in 0 .. 3
      /\ txBuf \in [Ep -> Seq(Octets \cup Nat)]
  BY EprIs DEF Types, TypeOK, DevTypeOK, MoreTypes, VALID
<1>2. /\ epr'[0] = SetStatTx(epr[0], VALID) /\ txBuf'[0] = packet /\ ep0state' = next
  BY <1>1 DEF Transmit
<1>3. /\ SetStatTx(epr[0], VALID).ctrTx = epr[0].ctrTx
      /\ SetStatTx(epr[0], VALID).ctrRx = epr[0].ctrRx
      /\ SetStatTx(epr[0], VALID).setup = epr[0].setup
      /\ SetStatTx(epr[0], VALID).statTx = VALID
      /\ SetStatTx(epr[0], VALID).statRx = epr[0].statRx
  <2>1. epr[0] \in Epr /\ VALID \in 0 .. 3
    BY <1>1
  <2> QED
    BY <2>1, FieldsAre, ZenonT(60)
<1> QED
  BY <1>2, <1>3, Zenon DEF Calm, OnlyRx

LEMMA ReceptionIs ==
  ASSUME Types, NEW next, Receive(next)
  PROVE  /\ Calm => Calm'
         /\ epr'[0].statRx = VALID /\ epr'[0].statTx = epr[0].statTx
         /\ txBuf' = txBuf /\ ep0state' = next
<1>1. /\ epr[0] \in Epr /\ epr \in [Ep -> Epr] /\ 0 \in Ep /\ VALID \in 0 .. 3
  BY EprIs DEF Types, TypeOK, DevTypeOK, VALID
<1>2. /\ epr'[0] = SetStatRx(epr[0], VALID) /\ txBuf' = txBuf /\ ep0state' = next
  BY <1>1 DEF Receive
<1>3. /\ SetStatRx(epr[0], VALID).ctrTx = epr[0].ctrTx
      /\ SetStatRx(epr[0], VALID).ctrRx = epr[0].ctrRx
      /\ SetStatRx(epr[0], VALID).statRx = VALID
      /\ SetStatRx(epr[0], VALID).statTx = epr[0].statTx
  BY <1>1, FieldsAre, ZenonT(60)
<1> QED
  BY <1>2, <1>3, Zenon DEF Calm

LEMMA RefuseIs ==
  ASSUME Types, Refuse
  PROVE  /\ Calm => Calm'
         /\ epr'[0].statRx = STALL /\ epr'[0].statTx = STALL
         /\ txBuf' = txBuf /\ ep0state' = "error"
<1>1. /\ epr[0] \in Epr /\ epr \in [Ep -> Epr] /\ 0 \in Ep /\ STALL \in 0 .. 3
  BY EprIs DEF Types, TypeOK, DevTypeOK, STALL
<1> DEFINE s == SetStatTx(epr[0], STALL)
<1>2. /\ epr'[0] = SetStatRx(s, STALL) /\ txBuf' = txBuf /\ ep0state' = "error"
  BY <1>1 DEF Refuse
<1>3. s \in Epr
  <2>1. [epr[0] EXCEPT !.statTx = STALL] \in Epr
    BY <1>1 DEF Epr
  <2> QED
    BY <1>1, <2>1, WritesAre
<1>4. s.ctrTx = epr[0].ctrTx /\ s.ctrRx = epr[0].ctrRx /\ s.statTx = STALL
  BY <1>1, FieldsAre, ZenonT(60)
<1> HIDE DEF s
<1>5. /\ SetStatRx(s, STALL).ctrTx = s.ctrTx /\ SetStatRx(s, STALL).ctrRx = s.ctrRx
      /\ SetStatRx(s, STALL).statRx = STALL /\ SetStatRx(s, STALL).statTx = s.statTx
  BY <1>1, <1>3, FieldsAre, ZenonT(60)
<1> QED
  BY <1>2, <1>4, <1>5, Zenon DEF Calm

(* An EP0 that is opened has no events and NAKs.                           *)
LEMMA OpeningIs ==
  ASSUME Types, epr'[0] = Opened(epr[0])
  PROVE  Calm' /\ epr'[0].statTx = NAK /\ epr'[0].statRx = NAK
<1>1. epr[0] \in Epr
  BY EprIs DEF Types
<1>2. /\ Opened(epr[0]).ctrRx = FALSE /\ Opened(epr[0]).ctrTx = FALSE
      /\ Opened(epr[0]).statTx = NAK /\ Opened(epr[0]).statRx = NAK
  BY <1>1, OpenedIs
<1> QED
  BY <1>2, Zenon DEF Calm

-----------------------------------------------------------------------------
(* The phases, one by one *)

(* What there is to send is no longer than what is asked for.              *)
LEMMA ReplyIs ==
  ASSUME NEW r \in Requests
  PROVE  /\ ReplySize(r) \in Nat /\ ReplySize(r) <= Want(r)
         /\ Reply(r) \in Seq(Octets) /\ Len(Reply(r)) = ReplySize(r)
         /\ Performable(r) => Reply(r) = <<>>
<1>1. Want(r) \in Nat /\ Size(r) \in Nat
  BY RequestAssumption
<1>2. /\ ReplySize(r) \in Nat /\ ReplySize(r) <= Want(r)
      /\ Performable(r) => ReplySize(r) = 0
  BY <1>1 DEF ReplySize, Smaller, Performable
<1>3. 0 \in Nat /\ 0 <= ReplySize(r) /\ ReplySize(r) - 0 = ReplySize(r)
  BY <1>2
<1>4. /\ Bytes(r, 0, ReplySize(r)) \in Seq(Octets)
      /\ Len(Bytes(r, 0, ReplySize(r))) = ReplySize(r) - 0
      /\ (0 = ReplySize(r)) => Bytes(r, 0, ReplySize(r)) = <<>>
  BY <1>2, <1>3, BytesAre, Zenon
<1> QED
  BY <1>2, <1>3, <1>4, Zenon DEF Reply

(* What an answer may say.                                                 *)
LEMMA TruthIs ==
  ASSUME NEW r \in Requests
  PROVE  /\ r \in Supported => [verdict |-> "ok", data |-> Reply(r)] \in Pipe!Truths(r)
         /\ r \notin Supported => [verdict |-> "stall", data |-> <<>>] \in Pipe!Truths(r)
         /\ FirstGivenUp => [verdict |-> "stall", data |-> <<>>] \in Pipe!GaveUp(r)
<1>1. r \in Supported => [verdict |-> "ok", data |-> Reply(r)] \in Pipe!Truths(r)
  BY DEF Pipe!Truths
<1>2. r \notin Supported => [verdict |-> "stall", data |-> <<>>] \in Pipe!Truths(r)
  BY DEF Pipe!Truths
<1>3. ASSUME FirstGivenUp PROVE [verdict |-> "stall", data |-> <<>>] \in Pipe!GaveUp(r)
  <2>1. Reply(r) \in Seq(Octets) /\ Len(Reply(r)) \in Nat
    BY ReplyIs
  <2>2. SubSeq(Reply(r), 1, 0) = <<>>
    BY <2>1
  <2>3. 0 \in 0 .. Len(Reply(r))
    BY <2>1
  <2>4. [verdict |-> "stall", data |-> SubSeq(Reply(r), 1, 0)] \in Pipe!GaveUp(r)
    BY <1>3, <2>3 DEF Pipe!GaveUp
  <2> QED
    BY <2>2, <2>4
<1> QED
  BY <1>1, <1>2, <1>3

(* A step of the host that answers the current transfer.                   *)
Answers ==
    /\ cur \in Requests /\ cur' = None /\ UNCHANGED <<queue, submitted>>
    /\ \E a \in Pipe!Truths(cur) \cup Pipe!GaveUp(cur) :
         /\ answers' = Append(answers, a)
         /\ a.verdict = "ok" /\ Performable(cur) => SendsStatus

(* The phases tell the events apart.                                       *)
LEMMA PhaseOf ==
  ASSUME Sound, Phase
  PROVE  /\ serving = "setup" => Asks
         /\ serving = "out" => Rests \/ Pends \/ Takes
         /\ serving = "in" => Rests \/ Pends \/ Drains \/ Emptied
         /\ serving = "reset" => Boots \/ Rests \/ Pends \/ Lost
         /\ resetEvent => Boots \/ Rests \/ Pends
         /\ OnlyRx => Rests \/ Pends \/ Takes
         /\ OnlyTx => Rests \/ Goes \/ Drains \/ Emptied
<1> DEFINE Its == /\ serving = "setup" => Asks
                  /\ serving = "out" => Rests \/ Pends \/ Takes
                  /\ serving = "in" => Rests \/ Pends \/ Drains \/ Emptied
                  /\ serving = "reset" => Boots \/ Rests \/ Pends \/ Lost
                  /\ resetEvent => Boots \/ Rests \/ Pends
                  /\ OnlyRx => Rests \/ Pends \/ Takes
                  /\ OnlyTx => Rests \/ Goes \/ Drains \/ Emptied
<1>n. None \notin {"setup", "out", "in", "reset"}
  BY DEF None
<1>1. CASE Boots \/ Rests
  <2>1. Boots => serving \in {None, "reset"}
    BY DEF Boots, Sound, ResetFirst
  <2> QED
    BY <1>n, <1>1, <2>1 DEF Boots, Rests, LastSeen, Finishing, Calm, OnlyRx, OnlyTx
<1>2. CASE Pends \/ Lost \/ Asks \/ Refuses
  BY <1>n, <1>2 DEF Pends, Lost, Asks, Refuses, Finishing, Served, Calm, OnlyRx, OnlyTx
<1>3. CASE Arms \/ Goes \/ Drains \/ Empties \/ Emptied \/ AwaitsStatus
  BY <1>n, <1>3 DEF Arms, Goes, Drains, Empties, Emptied, AwaitsStatus, Sends, Taken,
     Served, Calm, OnlyRx, OnlyTx
<1>4. CASE AwaitsData \/ Takes \/ SendsStatus
  BY <1>n, <1>4 DEF AwaitsData, Takes, SendsStatus, Performs, Served, Calm, OnlyRx, OnlyTx
<1> QED
  BY <1>1, <1>2, <1>3, <1>4 DEF Phase

(* A step that does not touch EP0, nor what the two sides know of the      *)
(* transfer, leaves the phase as it is.                                    *)
SameEp0 ==
    /\ epr'[0] = epr[0] /\ txBuf'[0] = txBuf[0]
    /\ UNCHANGED <<resetEvent, rxBuf, state, cur, data, answers, ep0state, serving,
                   setupReq, sent, performed>>

LEMMA PhaseFrame ==
  ASSUME InPhase, SameEp0, Timely /\ Unserved => Timely'
  PROVE  InPhase'
<1>1. /\ Calm' = Calm /\ OnlyRx' = OnlyRx /\ OnlyTx' = OnlyTx /\ Unarmed' = Unarmed
      /\ Served' = Served /\ Untold' = Untold
  BY DEF SameEp0, Calm, OnlyRx, OnlyTx, Unarmed, Served, Untold
<1>2. Pristine' = Pristine /\ Finishing' = Finishing /\ Booting' = Booting
  BY <1>1 DEF SameEp0, Pristine, Finishing, Booting
<1>3. LastSeen' = LastSeen /\ Started' = Started /\ Taken' = Taken
  BY <1>1, <1>2 DEF SameEp0, LastSeen, Started, Taken
<1>4. Sends' = Sends /\ Performs' = Performs /\ NeedsEmptyPacket' = NeedsEmptyPacket
  BY DEF SameEp0, Sends, Performs, NeedsEmptyPacket
<1>n. None \notin {"setup", "out", "in", "reset"}
  BY DEF None
<1>u. OnlyRx \/ OnlyTx \/ serving \in {"setup", "out", "in", "reset"} => Unserved
  BY <1>n DEF OnlyRx, OnlyTx, Unserved, EpBusy
<1>5. Phase'
  <2>1. CASE Boots \/ Rests
    <3>1. (Boots => Boots') /\ (Rests => Rests')
      BY <1>1, <1>2, <1>3 DEF SameEp0, Boots, Rests
    <3> QED
      BY <2>1, <3>1 DEF Phase
  <2>2. CASE Pends
    <3>1. Timely'
      BY <1>u, <2>2 DEF Pends
    <3>2. Pends'
      BY <1>1, <1>2, <1>3, <2>2, <3>1 DEF SameEp0, Pends
    <3> QED
      BY <3>2 DEF Phase
  <2>3. CASE Lost
    <3>1. serving = "reset" => Timely'
      BY <1>u, <2>3 DEF Lost
    <3>2. Lost'
      BY <1>1, <1>2, <1>3, <2>3, <3>1 DEF SameEp0, Lost
    <3> QED
      BY <3>2 DEF Phase
  <2>4. CASE Asks
    <3>1. Timely'
      BY <1>u, <2>4 DEF Asks
    <3>2. Asks'
      BY <1>1, <1>3, <2>4, <3>1 DEF SameEp0, Asks
    <3> QED
      BY <3>2 DEF Phase
  <2>5. CASE Goes
    <3>1. Timely'
      BY <1>u, <2>5 DEF Goes
    <3>2. Goes'
      BY <1>1, <1>4, <2>5, <3>1 DEF SameEp0, Goes, Whole
    <3> QED
      BY <3>2 DEF Phase
  <2>6. CASE Drains \/ Emptied
    <3>1. Timely'
      BY <1>u, <2>6 DEF Drains, Emptied, Taken
    <3>2. (Drains => Drains') /\ (Emptied => Emptied')
      BY <1>1, <1>3, <1>4, <3>1 DEF SameEp0, Drains, Emptied
    <3> QED
      BY <2>6, <3>2 DEF Phase
  <2>7. CASE Takes
    <3>1. Timely'
      BY <1>u, <2>7 DEF Takes
    <3>2. Takes'
      BY <1>1, <1>4, <2>7, <3>1 DEF SameEp0, Takes
    <3> QED
      BY <3>2 DEF Phase
  <2>8. CASE Refuses \/ Arms \/ Empties \/ AwaitsStatus \/ AwaitsData \/ SendsStatus
    <3>1. (Refuses => Refuses') /\ (Empties => Empties')
      BY <1>1, <1>3, <1>4 DEF SameEp0, Refuses, Empties
    <3>2. Arms => Arms'
      BY <1>1, <1>4 DEF SameEp0, Arms, Whole
    <3>3. /\ AwaitsStatus => AwaitsStatus' 
          /\ AwaitsData => AwaitsData'
          /\ SendsStatus => SendsStatus'
      BY <1>1, <1>4 DEF SameEp0, AwaitsStatus, AwaitsData, SendsStatus
    <3> QED
      BY <2>8, <3>1, <3>2, <3>3 DEF Phase
  <2> QED
    BY <2>1, <2>2, <2>3, <2>4, <2>5, <2>6, <2>7, <2>8 DEF InPhase, Phase
<1> QED
  BY <1>2, <1>5 DEF InPhase, ProtocolInStep, SameEp0

(* While the firmware is at an event the host's patience is not over, and  *)
(* it believes no STALL of an earlier transfer.                            *)
LEMMA StillWaits ==
  ASSUME Sound, Outlasts, Timely, waited < Latency, waited' = waited + 1,
         NEW out \in BOOLEAN, (resetEvent \/ serving = "reset") => ~Stalls(out),
         Waits(out, FALSE)
  PROVE  Timely' /\ Untouched /\ UNCHANGED <<state, queue, cur, data, answers>>
<1>1. /\ StepPatience \in Nat \ {0} /\ StallPatience \in Nat \ {0}
      /\ stageSteps \in Nat /\ stallSeen \in Nat /\ waited \in Nat
      /\ ResetLatency \in Nat /\ CtrLatency \in Nat
  BY PatienceAssumption, LatencyAssumption DEF Sound, Types, TypeOK, MoreTypes
<1>2. SeenAfter(out) \in Nat /\ SeenAfter(out) <= stallSeen + 1
  BY <1>1 DEF SeenAfter
<1>3. SeenAfter(out) < StallPatience
  <2>1. CASE Stalls(out)
    <3>1. Latency = CtrLatency
      BY <2>1 DEF Latency
    <3> QED
      BY <1>1, <1>2, <3>1 DEF Timely, Outlasts
  <2>2. CASE ~Stalls(out)
    BY <1>1, <2>2 DEF SeenAfter
  <2> QED
    BY <2>1, <2>2
<1>4. TickPatience(SeenAfter(out))
  <2>1. ~StallBelieved(out)
    BY <1>1, <1>2, <1>3 DEF StallBelieved
  <2> QED
    BY <2>1, Zenon DEF Waits
<1>5. ~(stageSteps + 1 > StepPatience)
  BY <1>1 DEF Timely, Latency, Outlasts
<1>6. /\ stageSteps' = stageSteps + 1 /\ stallSeen' = SeenAfter(out) /\ Untouched
      /\ UNCHANGED <<state, queue, cur, data, answers>>
  BY <1>4, <1>5 DEF TickPatience
<1> QED
  BY <1>1, <1>2, <1>6 DEF Timely

(* A stage of the host at an EP0 that is busy or not armed is a wait.      *)
LEMMA HeldStep ==
  ASSUME EpBusy(0) \/ Unarmed, ControlStep,
         state \in {"data_in", "data_out", "status_out", "status_in"}
  PROVE  /\ \E out \in BOOLEAN : Waits(out, FALSE)
         /\ UNCHANGED <<submitted, reports, resetEvent>>
<1>1. ReadyTx = FALSE /\ ReadyRx = FALSE
  BY DEF Unarmed, ReadyTx, ReadyRx
<1>2. CASE DataIn
  BY <1>1, <1>2 DEF DataIn
<1>3. CASE DataOut
  BY <1>1, <1>3 DEF DataOut
<1>4. CASE StatusOut
  BY <1>1, <1>4 DEF StatusOut
<1>5. CASE StatusIn
  BY <1>1, <1>5 DEF StatusIn
<1>6. CASE Attach \/ DriveReset \/ WaitEp0 \/ Advance \/ Idle
  BY <1>6 DEF Attach, DriveReset, WaitEp0, Advance, Idle
<1> QED
  BY <1>2, <1>3, <1>4, <1>5, <1>6 DEF ControlStep

(* The first stage of a transfer is one of the stages.                     *)
LEMMA StartedIs ==
  ASSUME Started
  PROVE  state \in {"data_in", "data_out", "status_in"}
<1> QED
  BY FirstStageIs DEF Started

(* The host waits for the handler of an event, and for a SETUP that the    *)
(* handler of the bus reset is about to lose.                              *)
LEMMA HandledStep ==
  ASSUME Sound, Outlasts, InPhase, Handled \/ (Lost /\ serving = "reset"),
         HostStep, ControlStep
  PROVE  InPhase' /\ UNCHANGED <<cur, queue, submitted, answers>>
<1>n. None \notin {"setup", "out", "in", "reset"}
  BY DEF None
<1>1. /\ Timely /\ Unserved /\ (EpBusy(0) \/ Unarmed)
      /\ state \in {"data_in", "data_out", "status_out", "status_in"}
      /\ resetEvent \/ serving = "reset" => Pristine
  <2>1. CASE Pends
    BY <2>1, StartedIs DEF Pends, OnlyRx, Unserved, EpBusy
  <2>2. CASE Lost /\ serving = "reset"
    BY <1>n, <2>2, StartedIs DEF Lost, Unserved
  <2>3. CASE Asks
    <3>1. NAK # VALID
      BY DEF NAK, VALID
    <3> QED
      BY <1>n, <2>3, <3>1, StartedIs DEF Asks, Unserved, Unarmed
  <2>4. CASE Goes
    BY <1>n, <2>4 DEF Goes, Sends, OnlyTx, Unserved, EpBusy
  <2>5. CASE Drains \/ Emptied
    <3>1. NAK # VALID
      BY DEF NAK, VALID
    <3>2. serving # "reset" /\ ~resetEvent /\ Timely /\ Unarmed
      BY <1>n, <2>5, <3>1 DEF Drains, Emptied, Sends, Taken, Unarmed
    <3>3. Unserved
      BY <1>n, <2>5 DEF Drains, Emptied, Taken, Unserved, OnlyTx, EpBusy
    <3>4. state \in {"data_in", "status_out"}
      BY <2>5 DEF Drains, Emptied
    <3> QED
      BY <3>2, <3>3, <3>4
  <2>6. CASE Takes
    BY <1>n, <2>6 DEF Takes, Performs, OnlyRx, Unserved, EpBusy
  <2> QED
    BY <2>1, <2>2, <2>3, <2>4, <2>5, <2>6 DEF Handled
<1>2. PICK out \in BOOLEAN : Waits(out, FALSE)
  BY <1>1, HeldStep
<1>3. UNCHANGED <<submitted, reports, resetEvent>>
  BY <1>1, HeldStep
<1>4. waited < Latency /\ waited' = waited + 1
  BY <1>1 DEF HostStep
<1>5. (resetEvent \/ serving = "reset") => ~Stalls(out)
  BY <1>1 DEF Pristine, Stalls, STALL, NAK, DISABLED
<1>6. Timely' /\ Untouched /\ UNCHANGED <<state, queue, cur, data, answers>>
  BY <1>1, <1>2, <1>4, <1>5, StillWaits
<1>7. SameEp0
  BY <1>3, <1>6 DEF SameEp0, Untouched, HostStep, fwVars
<1> QED
  BY <1>3, <1>6, <1>7, PhaseFrame

(* The bus reset and the wait for EP0.                                     *)
LEMMA BootsStep ==
  ASSUME Sound, InPhase, Boots, HostStep, ControlStep
  PROVE  InPhase' /\ UNCHANGED answers
<1>1. Attach \/ DriveReset \/ WaitEp0
  BY DEF Boots, Booting, ControlStep, Advance, DataIn, DataOut, StatusOut, StatusIn, Idle
<1>2. /\ state' \in {"wait_attach", "reset", "wait_ep0", "advance"} /\ epr' = epr
      /\ UNCHANGED <<answers, ep0state, serving, setupReq, performed>>
  BY <1>1 DEF Attach, DriveReset, WaitEp0, HostStep, fwVars, logVars, Boots, Booting
<1>3. Calm' = Calm /\ Pristine' = Pristine /\ Unarmed' = Unarmed
  BY <1>2 DEF Calm, Pristine, Untold, Unarmed
<1>4. serving \in {None, "reset"} /\ Calm /\ Pristine
  BY DEF Sound, ResetFirst, Boots
<1>5. Boots' \/ Rests'
  <2>1. CASE state' = "advance"
    <3>1. Unarmed
      BY <1>4 DEF Pristine, Unarmed, VALID, NAK, DISABLED
    <3>2. Finishing'
      BY <1>2, <1>4 DEF Finishing, Pristine
    <3> QED
      BY <1>3, <1>4, <2>1, <3>1, <3>2 DEF Rests, LastSeen
  <2>2. CASE state' # "advance"
    BY <1>2, <1>3, <1>4, <2>2 DEF Boots, Booting
  <2> QED
    BY <2>1, <2>2
<1>6. ProtocolInStep'
  BY <1>2 DEF InPhase, ProtocolInStep
<1> QED
  BY <1>2, <1>3, <1>4, <1>5, <1>6 DEF InPhase, Phase

(* Between two transfers; the next SETUP goes to an EP0 without events.    *)
LEMMA RestsStep ==
  ASSUME Sound, InPhase, Rests, HostStep, ControlStep
  PROVE  InPhase' /\ UNCHANGED answers
<1>1. UNCHANGED <<ep0state, serving, setupReq, sent, performed, txBuf>>
  BY DEF HostStep, fwVars
<1>2. cur = None /\ queue \in Seq(Requests) /\ waited' \in Nat
  <2>1. waited' \in Nat
    BY DEF HostStep, Sound, Types, MoreTypes
  <2> QED
    BY <2>1 DEF Sound, Types, TypeOK, Rests
<1>3. CASE Idle \/ (Advance /\ EpBusy(0)) \/ (Advance /\ queue = <<>>)
  <2>1. /\ epr' = epr /\ state' \in {"advance", "idle"}
        /\ UNCHANGED <<answers, resetEvent>>
    <3>1. CASE Idle
      BY <3>1 DEF Idle, logVars
    <3>2. CASE Advance /\ EpBusy(0)
      BY <1>2, <3>2 DEF Advance, TickPatience, Finish, Untouched
    <3>3. CASE Advance /\ ~EpBusy(0) /\ queue = <<>>
      BY <3>3 DEF Advance, StartNext, Untouched
    <3> QED
      BY <1>3, <3>1, <3>2, <3>3
  <2>2. /\ Calm' = Calm /\ Pristine' = Pristine /\ Unarmed' = Unarmed
        /\ OnlyRx' = OnlyRx /\ OnlyTx' = OnlyTx /\ Finishing' = Finishing
    BY <1>1, <2>1 DEF Calm, Pristine, Untold, Unarmed, OnlyRx, OnlyTx, Finishing
  <2>3. LastSeen' = LastSeen
    BY <1>1, <2>1, <2>2 DEF LastSeen
  <2>4. Rests'
    BY <1>1, <2>1, <2>2, <2>3 DEF Rests
  <2>5. ProtocolInStep' /\ (resetEvent' => Pristine')
    BY <1>1, <2>1, <2>2 DEF InPhase, ProtocolInStep
  <2> QED
    BY <2>1, <2>4, <2>5 DEF InPhase, Phase
<1>4. CASE Advance /\ ~EpBusy(0) /\ queue # <<>>
  <2> DEFINE r == Head(queue)
  <2>1. /\ cur' = r /\ state' = FirstStage(r) /\ data' = <<>>
        /\ stageSteps' = 0 /\ stallSeen' = 0 /\ Give(r, TRUE)
        /\ UNCHANGED <<answers, resetEvent>>
    BY <1>4 DEF Advance, StartNext
  <2>2. r \in Requests
    BY <1>2, <1>4
  <2> HIDE DEF r
  <2>3. /\ OnlyRx' /\ rxBuf' = r /\ epr'[0].setup
        /\ epr'[0].statRx = NAK /\ epr'[0].statTx = epr[0].statTx
    <3>1. Types /\ TRUE \in BOOLEAN
      BY DEF Sound
    <3> QED
      BY <1>4, <2>1, <3>1, GiveIs, Zenon
  <2>4. Started' /\ Timely'
    BY <1>2, <2>1, <2>2 DEF Started, Timely
  <2>5. Finishing'
    <3>1. Finishing
      BY <1>4 DEF Rests, LastSeen, OnlyRx, OnlyTx, EpBusy
    <3> QED
      BY <1>1, <3>1 DEF Finishing
  <2>6. (resetEvent' \/ serving' = "reset") => Pristine'
    <3>1. SUFFICES ASSUME resetEvent \/ serving = "reset" PROVE Pristine'
      BY <1>1, <2>1
    <3>2. Pristine
      BY <3>1 DEF Rests
    <3> QED
      BY <1>1, <2>1, <2>3, <3>2 DEF Pristine, Untold
  <2>7. Pends'
    BY <2>1, <2>3, <2>4, <2>5, <2>6 DEF Pends, Rests, Unarmed
  <2>8. ProtocolInStep'
    BY <1>1 DEF InPhase, ProtocolInStep
  <2> QED
    BY <2>1, <2>6, <2>7, <2>8 DEF InPhase, Phase
<1> QED
  BY <1>3, <1>4 DEF Rests, ControlStep, Attach, DriveReset, WaitEp0, DataIn, DataOut,
     StatusOut, StatusIn

(* A transfer ends: the host is between two transfers again.               *)
LEMMA EndsAt ==
  ASSUME Sound, InPhase, NEW b \in BOOLEAN, Finish(b),
         UNCHANGED <<resetEvent, serving, ep0state, setupReq, performed>>,
         ~resetEvent, serving = None, Unarmed', LastSeen'
  PROVE  InPhase'
<1>1. state' \in {"idle", "advance"}
  BY FinishIs DEF Sound
<1>2. Rests'
  BY <1>1 DEF Rests, None
<1> QED
  BY <1>2 DEF InPhase, Phase, ProtocolInStep

(* What a transfer that ends adds to the answers.                          *)
LEMMA EndIs ==
  ASSUME Sound, NEW b \in BOOLEAN, Finish(b), cur \in Requests, submitted' = submitted,
         LET a == [verdict |-> IF b THEN "stall" ELSE "ok", data |-> data]
         IN  /\ a \in Pipe!Truths(cur) \cup Pipe!GaveUp(cur)
             /\ ~b /\ Performable(cur) => SendsStatus
  PROVE  Answers
<1> DEFINE a == [verdict |-> IF b THEN "stall" ELSE "ok", data |-> data]
<1>1. cur # None
  BY RequestAssumption DEF None
<1>2. answers' = Append(answers, a) /\ cur' = None /\ queue' = queue
  BY <1>1 DEF Finish
<1>3. a.verdict = "ok" => ~b
  OBVIOUS
<1>4. a \in Pipe!Truths(cur) \cup Pipe!GaveUp(cur) /\ (~b /\ Performable(cur) => SendsStatus)
  OBVIOUS
<1> HIDE DEF a
<1> QED
  BY <1>2, <1>3, <1>4 DEF Answers

(* A wait that does not end leaves everything but the patience as it is.   *)
LEMMA WaitIs ==
  ASSUME NEW out \in BOOLEAN, Waits(out, FALSE)
  PROVE  /\ Untouched
         /\ \/ Finish(TRUE) /\ (StallBelieved(out) \/ stageSteps + 1 > StepPatience)
            \/ UNCHANGED <<state, queue, cur, data, answers>>
<1> QED
  BY DEF Waits, TickPatience

(* A SETUP that the bus reset has cost is given up in the end.             *)
LEMMA LostStep ==
  ASSUME Sound, InPhase, Lost, serving = None, HostStep, ControlStep
  PROVE  InPhase' /\ (UNCHANGED answers \/ Answers)
<1>0. /\ StepPatience \in Nat /\ StallPatience \in Nat \ {0} /\ stageSteps \in 0 .. StepPatience
  BY PatienceAssumption DEF Sound, Types, TypeOK
<1>1. state \in {"data_in", "data_out", "status_out", "status_in"} /\ Unarmed
  BY StartedIs DEF Lost
<1>2. PICK out \in BOOLEAN : Waits(out, FALSE)
  BY <1>1, HeldStep
<1>3. UNCHANGED <<submitted, resetEvent>>
  BY <1>1, HeldStep
<1>4. UNCHANGED <<ep0state, serving, setupReq, sent, performed, txBuf>>
  BY DEF HostStep, fwVars
<1>5. Untouched
  BY <1>2, WaitIs
<1>6. CASE Finish(TRUE) /\ (StallBelieved(out) \/ stageSteps + 1 > StepPatience)
  <2>1. ~StallBelieved(out)
    <3>1. ~Stalls(out)
      BY DEF Lost, Pristine, Stalls, STALL, NAK, DISABLED
    <3> QED
      BY <1>0, <3>1 DEF StallBelieved, SeenAfter
  <2>2. stageSteps = StepPatience
    BY <1>0, <1>6, <2>1
  <2>3. FirstGivenUp /\ cur \in Requests /\ data = <<>>
    BY <2>2 DEF FirstGivenUp, Lost, Pristine, Started
  <2>4. Answers
    BY <1>3, <1>6, <2>3, TruthIs, EndIs
  <2>5. Unarmed' /\ LastSeen'
    BY <1>1, <1>4, <1>5 DEF Untouched, Unarmed, LastSeen, Lost, Calm, Finishing, Pristine
  <2>6. ~resetEvent
    BY DEF Lost
  <2> QED
    BY <1>3, <1>4, <1>6, <2>4, <2>5, <2>6, EndsAt
<1>7. CASE UNCHANGED <<state, queue, cur, data, answers>>
  <2>1. SameEp0
    BY <1>3, <1>4, <1>5, <1>7 DEF SameEp0, Untouched
  <2>2. ~Unserved
    BY DEF Lost, Unserved, Calm, EpBusy
  <2> QED
    BY <1>7, <2>1, <2>2, PhaseFrame
<1> QED
  BY <1>2, <1>6, <1>7, WaitIs

(* A request that the firmware refuses is answered with a stall.           *)
LEMMA RefusesStep ==
  ASSUME Sound, InPhase, Refuses, HostStep, ControlStep
  PROVE  InPhase' /\ (UNCHANGED answers \/ Answers)
<1>1. state \in {"data_in", "data_out", "status_out", "status_in"} /\ Unarmed
  BY StartedIs DEF Refuses, Unarmed, STALL, VALID
<1>2. PICK out \in BOOLEAN : Waits(out, FALSE)
  BY <1>1, HeldStep
<1>3. UNCHANGED <<submitted, resetEvent>>
  BY <1>1, HeldStep
<1>4. UNCHANGED <<ep0state, serving, setupReq, sent, performed, txBuf>>
  BY DEF HostStep, fwVars
<1>5. Untouched
  BY <1>2, WaitIs
<1>6. CASE Finish(TRUE)
  <2>3. cur \notin Supported /\ cur \in Requests /\ data = <<>>
    BY DEF Refuses, Started
  <2>4. Answers
    BY <1>3, <1>6, <2>3, TruthIs, EndIs
  <2>5. Unarmed' /\ LastSeen'
    BY <1>1, <1>4, <1>5 DEF Untouched, Unarmed, LastSeen, Refuses, Served, Calm, Finishing
  <2>6. ~resetEvent /\ serving = None
    BY DEF Refuses, Served
  <2> QED
    BY <1>3, <1>4, <1>6, <2>4, <2>5, <2>6, EndsAt
<1>7. CASE UNCHANGED <<state, queue, cur, data, answers>>
  <2>1. SameEp0
    BY <1>3, <1>4, <1>5, <1>7 DEF SameEp0, Untouched
  <2>2. ~Unserved
    BY DEF Refuses, Served, Unserved, Calm, EpBusy
  <2> QED
    BY <1>7, <2>1, <2>2, PhaseFrame
<1> QED
  BY <1>2, <1>6, <1>7, WaitIs

(* A number is whole packets when nothing is left over.                    *)
LEMMA WholeIs ==
  ASSUME NEW k \in Nat, NEW rest \in Nat, rest < MaxPacket
  PROVE  (k * MaxPacket + rest) % MaxPacket = rest
<1>1. MaxPacket \in Nat \ {0}
  BY PacketAssumption
<1> DEFINE n == k * MaxPacket + rest
           q == n \div MaxPacket
           r == n % MaxPacket
<1>2. n \in Nat
  BY <1>1
<1>3. q \in Int /\ r \in 0 .. MaxPacket - 1 /\ n = MaxPacket * q + r
  <2> HIDE DEF n
  <2> QED
    BY <1>1, <1>2
<1>4. k * MaxPacket + rest = MaxPacket * q + r
  BY <1>3 DEF n
<1> HIDE DEF n, q, r
<1>5. rest - r = MaxPacket * (q - k)
  BY <1>1, <1>3, <1>4
<1>6. CASE q > k
  <2>1. q - k >= 1 /\ q - k \in Int
    BY <1>3, <1>6
  <2>2. MaxPacket * (q - k) >= MaxPacket
    BY <1>1, <2>1
  <2> QED
    BY <1>1, <1>3, <1>5, <2>2
<1>7. CASE q < k
  <2>1. k - q >= 1 /\ k - q \in Int
    BY <1>3, <1>7
  <2>2. MaxPacket * (k - q) >= MaxPacket
    BY <1>1, <2>1
  <2>3. MaxPacket * (q - k) = 0 - MaxPacket * (k - q)
    BY <1>1, <1>3
  <2> QED
    BY <1>1, <1>3, <1>5, <2>2, <2>3
<1>8. CASE q = k
  <2>1. r = rest
    BY <1>1, <1>3, <1>4, <1>8
  <2> QED
    BY <2>1 DEF n, r
<1> QED
  BY <1>3, <1>6, <1>7, <1>8

(* What is left of a reply, after whole packets, fits the next one or does *)
(* not; and an empty packet follows only a full last one.                  *)
LEMMA PacketIs ==
  ASSUME NEW r \in Requests, NEW n \in Nat, Whole(n), n < ReplySize(r),
         NEW m, m = Smaller(n + MaxPacket, ReplySize(r))
  PROVE  /\ m \in Nat /\ n < m /\ m <= ReplySize(r) /\ m - n <= MaxPacket
         /\ Bytes(r, n, m) \in Seq(Octets) /\ Len(Bytes(r, n, m)) = m - n
         /\ Bytes(r, 0, n) \o Bytes(r, n, m) = Bytes(r, 0, m)
         /\ m < ReplySize(r) =>
              /\ Whole(m)
              /\ ~(m - n < MaxPacket \/ n + (m - n) >= Want(r))
         /\ m = ReplySize(r) =>
              (m - n < MaxPacket \/ n + (m - n) >= Want(r))
                = ~(ReplySize(r) < Want(r) /\ ReplySize(r) % MaxPacket = 0)
<1>1. /\ MaxPacket \in Nat \ {0} /\ ReplySize(r) \in Nat /\ Want(r) \in Nat
      /\ ReplySize(r) <= Want(r)
  BY ReplyIs, PacketAssumption, RequestAssumption
<1>2. PICK k \in Nat : n = k * MaxPacket
  BY DEF Whole
<1> DEFINE S == ReplySize(r)
           W == Want(r)
<1> HIDE DEF S, W
<1>3. S \in Nat /\ W \in Nat /\ S <= W /\ n < S /\ m = Smaller(n + MaxPacket, S)
  BY <1>1 DEF S, W
<1>4. m \in Nat /\ n < m /\ m <= S /\ m - n <= MaxPacket
  BY <1>1, <1>3 DEF Smaller
<1>5. /\ Bytes(r, n, m) \in Seq(Octets) /\ Len(Bytes(r, n, m)) = m - n
      /\ Bytes(r, 0, n) \o Bytes(r, n, m) = Bytes(r, 0, m)
  <2>1. n <= m
    BY <1>4
  <2> QED
    BY <1>4, <2>1, BytesAre, Zenon
<1>6. ASSUME m < S PROVE Whole(m) /\ ~(m - n < MaxPacket \/ n + (m - n) >= W)
  <2>1. m = n + MaxPacket
    BY <1>1, <1>3, <1>6 DEF Smaller
  <2>2. m = (k + 1) * MaxPacket /\ k + 1 \in Nat
    BY <1>1, <1>2, <2>1
  <2>3. Whole(m)
    BY <2>2 DEF Whole
  <2> QED
    BY <1>1, <1>3, <1>6, <2>1, <2>3
<1>7. ASSUME m = S
      PROVE  (m - n < MaxPacket \/ n + (m - n) >= W) = ~(S < W /\ S % MaxPacket = 0)
  <2>1. CASE m - n < MaxPacket
    <3>1. m - n \in Nat /\ m - n # 0 /\ S = k * MaxPacket + (m - n)
      BY <1>2, <1>3, <1>4, <1>7
    <3>2. S % MaxPacket = m - n
      BY <2>1, <3>1, WholeIs
    <3> QED
      BY <2>1, <3>1, <3>2
  <2>2. CASE ~(m - n < MaxPacket)
    <3>1. m - n = MaxPacket
      BY <1>1, <1>4, <2>2
    <3>2. k + 1 \in Nat /\ 0 \in Nat /\ 0 < MaxPacket /\ S = (k + 1) * MaxPacket + 0
      BY <1>1, <1>2, <1>4, <1>7, <3>1
    <3>3. S % MaxPacket = 0
      BY <3>2, WholeIs
    <3>4. n + (m - n) = S
      BY <1>4, <1>7
    <3> QED
      BY <1>3, <2>2, <3>3, <3>4
  <2> QED
    BY <2>1, <2>2
<1> QED
  BY <1>4, <1>5, <1>6, <1>7 DEF S, W

(* An armed EP0 without events is not waited for.                          *)
LEMMA ReadyIs ==
  ASSUME Calm
  PROVE  /\ ~EpBusy(0)
         /\ epr[0].statTx = VALID => ReadyTx /\ ~Waits(FALSE, ReadyTx)
         /\ epr[0].statRx = VALID => ReadyRx /\ ~Waits(TRUE, ReadyRx)
<1>1. ~EpBusy(0)
  BY DEF Calm, EpBusy
<1>2. VALID # STALL /\ ~(0 >= StallPatience)
  BY PatienceAssumption DEF VALID, STALL
<1>3. ASSUME epr[0].statTx = VALID PROVE ReadyTx /\ ~Waits(FALSE, ReadyTx)
  <2>1. ReadyTx
    BY <1>1, <1>3 DEF ReadyTx
  <2>2. ~StallBelieved(FALSE)
    BY <1>2, <1>3 DEF StallBelieved, SeenAfter, Stalls
  <2> QED
    BY <2>1, <2>2, Zenon DEF Waits
<1>4. ASSUME epr[0].statRx = VALID PROVE ReadyRx /\ ~Waits(TRUE, ReadyRx)
  <2>1. ReadyRx
    BY <1>1, <1>4 DEF ReadyRx
  <2>2. ~StallBelieved(TRUE)
    BY <1>2, <1>4 DEF StallBelieved, SeenAfter, Stalls
  <2> QED
    BY <2>1, <2>2, Zenon DEF Waits
<1> QED
  BY <1>1, <1>3, <1>4

(* In its stage the host does nothing else.                                *)
LEMMA StageIs ==
  ASSUME ControlStep
  PROVE  /\ state = "data_in" => DataIn
         /\ state = "data_out" => DataOut
         /\ state = "status_out" => StatusOut
         /\ state = "status_in" => StatusIn
<1> QED
  BY DEF ControlStep, Attach, DriveReset, WaitEp0, Advance, DataIn, DataOut, StatusOut,
     StatusIn, Idle

(* A reply that has arrived is acknowledged, and the transfer is over.     *)
LEMMA AwaitsStatusStep ==
  ASSUME Sound, InPhase, AwaitsStatus, HostStep, ControlStep
  PROVE  InPhase' /\ Answers
<1>n. NAK # VALID
  BY DEF NAK, VALID
<1>1. /\ Calm /\ epr[0].statRx = VALID /\ epr[0].statTx # VALID /\ state = "status_out"
      /\ serving = None /\ ~resetEvent /\ cur \in Supported /\ data = Reply(cur)
      /\ Want(cur) > 0 /\ ep0state = "waitsts" /\ cur \in Requests
  BY RequestAssumption DEF AwaitsStatus, Sends, Served
<1>2. /\ Give(None, FALSE) /\ Finish(FALSE) /\ ~EpBusy(0)
      /\ UNCHANGED <<submitted, reports, resetEvent>>
  BY <1>1, ReadyIs, StageIs DEF StatusOut
<1>3. UNCHANGED <<ep0state, serving, setupReq, sent, performed, txBuf>>
  BY DEF HostStep, fwVars
<1>4. /\ OnlyRx' /\ ~epr'[0].setup /\ epr'[0].statRx = NAK
      /\ epr'[0].statTx = epr[0].statTx
  BY <1>2, GiveIs DEF Sound
<1>5. Unarmed' /\ LastSeen'
  BY <1>n, <1>1, <1>3, <1>4 DEF Unarmed, LastSeen
<1>6. InPhase'
  BY <1>1, <1>2, <1>3, <1>5, EndsAt
<1>7. Answers
  <2>1. [verdict |-> "ok", data |-> data] \in Pipe!Truths(cur)
    BY <1>1, TruthIs
  <2>2. ~Performable(cur)
    BY <1>1 DEF Performable
  <2> QED
    BY <1>1, <1>2, <2>1, <2>2, EndIs
<1> QED
  BY <1>6, <1>7

(* So is a request without a reply, once its status is sent.               *)
LEMMA SendsStatusStep ==
  ASSUME Sound, InPhase, SendsStatus, HostStep, ControlStep
  PROVE  InPhase' /\ Answers
<1>n. NAK # VALID
  BY DEF NAK, VALID
<1>1. /\ Calm /\ epr[0].statTx = VALID /\ epr[0].statRx # VALID /\ state = "status_in"
      /\ serving = None /\ ~resetEvent /\ cur \in Supported /\ data = <<>>
      /\ Want(cur) = 0 /\ ep0state = "sendsts" /\ cur \in Requests
  BY RequestAssumption DEF SendsStatus, Performs, Served
<1>2. /\ Take(0) /\ Finish(FALSE) /\ ~EpBusy(0)
      /\ UNCHANGED <<submitted, reports, resetEvent>>
  BY <1>1, ReadyIs, StageIs DEF StatusIn
<1>3. UNCHANGED <<ep0state, serving, setupReq, sent, performed, txBuf>>
  BY DEF HostStep, fwVars
<1>4. OnlyTx' /\ epr'[0].statTx = NAK /\ epr'[0].statRx = epr[0].statRx
  BY <1>2, TakeIs DEF Sound
<1>5. Unarmed' /\ LastSeen'
  BY <1>n, <1>1, <1>3, <1>4 DEF Unarmed, LastSeen
<1>6. InPhase'
  BY <1>1, <1>2, <1>3, <1>5, EndsAt
<1>7. Answers
  <2>1. Reply(cur) = data
    BY <1>1, ReplyIs DEF Performable
  <2>2. [verdict |-> "ok", data |-> data] \in Pipe!Truths(cur)
    BY <1>1, <2>1, TruthIs
  <2> QED
    BY <1>1, <1>2, <2>2, EndIs
<1> QED
  BY <1>6, <1>7

(* The data of a request goes out, and its status is waited for.           *)
LEMMA AwaitsDataStep ==
  ASSUME Sound, InPhase, AwaitsData, HostStep, ControlStep
  PROVE  InPhase' /\ UNCHANGED answers
<1>n. NAK # VALID
  BY DEF NAK, VALID
<1>1. /\ Calm /\ epr[0].statRx = VALID /\ epr[0].statTx # VALID /\ state = "data_out"
      /\ serving = None /\ ~resetEvent /\ ep0state = "rx" /\ Performs
  BY DEF AwaitsData, Performs, Served
<1>2. /\ Give(cur, FALSE) /\ ~EpBusy(0) /\ state' = "status_in"
      /\ stageSteps' = 0 /\ stallSeen' = 0 /\ UNCHANGED <<queue, cur, data, answers>>
      /\ UNCHANGED <<submitted, reports, resetEvent>>
  BY <1>1, ReadyIs, StageIs DEF DataOut
<1>3. /\ UNCHANGED <<ep0state, serving, setupReq, sent, performed, txBuf>>
      /\ waited' \in Nat
  BY DEF HostStep, fwVars, Sound, Types, MoreTypes
<1>4. /\ OnlyRx' /\ ~epr'[0].setup /\ epr'[0].statRx = NAK
      /\ epr'[0].statTx = epr[0].statTx
  BY <1>2, GiveIs DEF Sound
<1>5. Timely' /\ Unarmed' /\ Performs'
  BY <1>n, <1>1, <1>2, <1>3, <1>4 DEF Timely, Unarmed, Performs
<1>6. Takes'
  BY <1>1, <1>2, <1>3, <1>4, <1>5 DEF Takes
<1> QED
  BY <1>1, <1>2, <1>3, <1>6 DEF InPhase, Phase, ProtocolInStep

(* The empty packet is taken: it ends the data stage.                      *)
LEMMA EmptiesStep ==
  ASSUME Sound, InPhase, Empties, HostStep, ControlStep
  PROVE  InPhase' /\ UNCHANGED answers
<1>1. /\ Calm /\ epr[0].statTx = VALID /\ epr[0].statRx = NAK /\ state = "data_in"
      /\ serving = None /\ ~resetEvent /\ ep0state = "txzlp" /\ Sends
      /\ txBuf[0] = <<>> /\ data = Reply(cur)
  BY DEF Empties, Sends, Served
<1>2. /\ Take(0) /\ ~EpBusy(0) /\ data' = data \o txBuf[0]
      /\ state' = (IF LastPacket(txBuf[0]) THEN "status_out" ELSE state)
      /\ stageSteps' = 0 /\ stallSeen' = 0 /\ UNCHANGED <<queue, cur, answers>>
      /\ UNCHANGED <<submitted, reports, resetEvent>>
  BY <1>1, ReadyIs, StageIs DEF DataIn
<1>3. /\ UNCHANGED <<ep0state, serving, setupReq, sent, performed, txBuf>>
      /\ waited' \in Nat
  BY DEF HostStep, fwVars, Sound, Types, MoreTypes
<1>4. OnlyTx' /\ epr'[0].statTx = NAK /\ epr'[0].statRx = epr[0].statRx
  BY <1>2, TakeIs DEF Sound
<1>5. data' = data
  <2>1. data \in Seq(Octets)
    BY DEF Sound, Types, MoreTypes
  <2> QED
    BY <1>1, <1>2, <2>1
<1>6. state' = "status_out"
  BY <1>1, <1>2, PacketAssumption DEF LastPacket
<1>7. Timely' /\ Taken' /\ Sends'
  BY <1>1, <1>2, <1>3, <1>4 DEF Timely, Taken, Sends
<1>8. Emptied'
  BY <1>1, <1>2, <1>3, <1>4, <1>5, <1>6, <1>7 DEF Emptied
<1> QED
  BY <1>1, <1>2, <1>3, <1>8 DEF InPhase, Phase, ProtocolInStep

(* A packet of the reply is taken: the last one, or there are more.        *)
LEMMA ArmsStep ==
  ASSUME Sound, InPhase, Arms, HostStep, ControlStep
  PROVE  InPhase' /\ UNCHANGED answers
<1> DEFINE n == Len(data)
<1>1. /\ Calm /\ epr[0].statTx = VALID /\ epr[0].statRx = NAK /\ state = "data_in"
      /\ serving = None /\ ~resetEvent /\ ep0state = "tx" /\ Sends /\ setupReq = cur
  BY DEF Arms, Sends, Served
<1>2. /\ Take(0) /\ ~EpBusy(0) /\ data' = data \o txBuf[0]
      /\ state' = (IF LastPacket(txBuf[0]) THEN "status_out" ELSE state)
      /\ stageSteps' = 0 /\ stallSeen' = 0 /\ UNCHANGED <<queue, cur, answers>>
      /\ UNCHANGED <<submitted, reports, resetEvent>>
  BY <1>1, ReadyIs, StageIs DEF DataIn
<1>3. /\ UNCHANGED <<ep0state, serving, setupReq, sent, performed, txBuf>>
      /\ waited' \in Nat
  BY DEF HostStep, fwVars, Sound, Types, MoreTypes
<1>4. OnlyTx' /\ epr'[0].statTx = NAK /\ epr'[0].statRx = epr[0].statRx
  BY <1>2, TakeIs DEF Sound
<1>5. Timely' /\ Taken' /\ Sends' /\ cur \in Requests
  BY <1>1, <1>2, <1>3, <1>4, RequestAssumption DEF Timely, Taken, Sends
<1>6. /\ n \in Nat /\ Whole(n) /\ n < ReplySize(cur)
      /\ sent = Smaller(n + MaxPacket, ReplySize(cur))
      /\ data = Bytes(cur, 0, n) /\ txBuf[0] = Bytes(cur, n, sent)
  BY DEF Arms, Sound, Types, MoreTypes
<1> HIDE DEF n
<1>7. /\ sent \in Nat /\ n < sent /\ sent <= ReplySize(cur)
      /\ Len(Bytes(cur, n, sent)) = sent - n
      /\ Bytes(cur, 0, n) \o Bytes(cur, n, sent) = Bytes(cur, 0, sent)
      /\ sent < ReplySize(cur) =>
           /\ Whole(sent) /\ ~(sent - n < MaxPacket \/ n + (sent - n) >= Want(cur))
      /\ sent = ReplySize(cur) =>
           (sent - n < MaxPacket \/ n + (sent - n) >= Want(cur))
             = ~(ReplySize(cur) < Want(cur) /\ ReplySize(cur) % MaxPacket = 0)
  <2>1. /\ cur \in Requests /\ n \in Nat /\ Whole(n) /\ n < ReplySize(cur)
        /\ sent = Smaller(n + MaxPacket, ReplySize(cur))
    BY <1>5, <1>6
  <2> QED
    BY <2>1, PacketIs, ZenonT(60)
<1>8. data' = Bytes(cur, 0, sent)
  BY <1>2, <1>6, <1>7
<1>9. LastPacket(txBuf[0]) <=> (sent - n < MaxPacket \/ n + (sent - n) >= Want(cur))
  BY <1>6, <1>7 DEF LastPacket, n
<1>10. CASE sent < ReplySize(cur)
  <2>1. state' = "data_in"
    BY <1>1, <1>2, <1>7, <1>9, <1>10
  <2>2. Goes'
    BY <1>1, <1>2, <1>3, <1>4, <1>5, <1>7, <1>8, <1>10, <2>1 DEF Goes, Whole
  <2> QED
    BY <1>1, <1>2, <1>3, <2>2 DEF InPhase, Phase, ProtocolInStep
<1>11. CASE sent = ReplySize(cur)
  <2>1. LastPacket(txBuf[0]) <=> ~NeedsEmptyPacket
    BY <1>1, <1>7, <1>9, <1>11 DEF NeedsEmptyPacket
  <2>2. NeedsEmptyPacket' <=> NeedsEmptyPacket
    BY <1>3 DEF NeedsEmptyPacket
  <2>3. state' = (IF NeedsEmptyPacket' THEN "data_in" ELSE "status_out")
    BY <1>1, <1>2, <2>1, <2>2
  <2>4. data' = Reply(cur)'
    BY <1>2, <1>8, <1>11 DEF Reply
  <2>5. Drains'
    BY <1>1, <1>2, <1>3, <1>4, <1>5, <1>11, <2>3, <2>4 DEF Drains
  <2> QED
    BY <1>1, <1>2, <1>3, <2>5 DEF InPhase, Phase, ProtocolInStep
<1>12. ReplySize(cur) \in Nat
  BY <1>5, ReplyIs
<1> QED
  BY <1>7, <1>10, <1>11, <1>12

(* A report on another endpoint is none of EP0's business.                 *)
LEMMA TakeReportStep ==
  ASSUME Sound, InPhase, HostStep, TakeReport
  PROVE  InPhase' /\ UNCHANGED answers
<1>1. PICK ep \in ReadyIn : epr' = [epr EXCEPT ![ep] = RaiseCtrTx(@)] /\ UNCHANGED rxBuf
  BY ReportIs DEF Sound, Types, TakeReport, Take
<1>2. epr'[0] = epr[0]
  BY <1>1, EprIs DEF ReadyIn, Sound, Types, TypeOK, DevTypeOK
<1>3. SameEp0 /\ UNCHANGED <<stageSteps, stallSeen>>
  BY <1>1, <1>2 DEF SameEp0, HostStep, TakeReport, hostVars, fwVars
<1>4. Timely /\ Unserved => Timely'
  BY <1>3 DEF HostStep, Timely, Sound, Types, TypeOK, MoreTypes
<1> QED
  BY <1>3, <1>4, PhaseFrame DEF SameEp0

(* A step of the host stays in the phases, and answers with the truth.     *)
LEMMA HostPhase ==
  ASSUME Sound, Outlasts, InPhase, HostStep
  PROVE  InPhase' /\ (UNCHANGED answers \/ Answers)
<1>1. CASE TakeReport
  BY <1>1, TakeReportStep
<1>2. CASE ControlStep
  <2>1. CASE Handled \/ (Lost /\ serving = "reset")
    BY <1>2, <2>1, HandledStep
  <2>2. CASE Lost /\ serving # "reset"
    <3>1. serving = None
      BY <2>2 DEF Lost
    <3> QED
      BY <1>2, <2>2, <3>1, LostStep
  <2>3. CASE Boots \/ Rests
    BY <1>2, <2>3, BootsStep, RestsStep
  <2>4. CASE Refuses
    BY <1>2, <2>4, RefusesStep
  <2>5. CASE Arms \/ Empties \/ AwaitsStatus
    BY <1>2, <2>5, ArmsStep, EmptiesStep, AwaitsStatusStep
  <2>6. CASE AwaitsData \/ SendsStatus
    BY <1>2, <2>6, AwaitsDataStep, SendsStatusStep
  <2> QED
    BY <2>1, <2>2, <2>3, <2>4, <2>5, <2>6 DEF InPhase, Phase, Handled
<1> QED
  BY <1>1, <1>2 DEF HostStep

(* The bus reset costs a SETUP that is waiting, and nothing else.          *)
LEMMA ResetPhase ==
  ASSUME Sound, InPhase, FwReset
  PROVE  InPhase'
<1>n. NAK # VALID /\ NAK \in {DISABLED, NAK} /\ None # "reset"
  BY DEF NAK, VALID, None
<1>1. /\ resetEvent /\ ~resetEvent' /\ serving' = "reset" /\ ep0state' = "setup"
      /\ UNCHANGED <<txBuf, rxBuf, hostVars, logVars, setupReq, sent, performed, waited>>
  BY DEF FwReset
<1>2. Calm' /\ epr'[0].statTx = NAK /\ epr'[0].statRx = NAK
  <2>1. epr'[0] = Opened(epr[0])
    BY DEF FwReset, Ep
  <2> QED
    BY <2>1, OpeningIs DEF Sound
<1>3. Pristine
  BY <1>1 DEF InPhase
<1>4. Pristine' /\ Unarmed' /\ Finishing'
  BY <1>n, <1>1, <1>2, <1>3 DEF Pristine, Unarmed, Untold, Finishing, logVars
<1>5. CASE Boots
  BY <1>1, <1>2, <1>4, <1>5 DEF Boots, Booting, hostVars, InPhase, Phase, ProtocolInStep
<1>6. CASE Rests
  <2>1. Rests'
    BY <1>1, <1>2, <1>4, <1>6 DEF Rests, LastSeen, hostVars
  <2> QED
    BY <1>1, <2>1 DEF InPhase, Phase, ProtocolInStep
<1>7. CASE Pends
  <2>1. Started' /\ Timely'
    BY <1>1, <1>7 DEF Pends, Started, Timely, hostVars
  <2>2. Lost'
    BY <1>1, <1>2, <1>4, <2>1 DEF Lost
  <2> QED
    BY <1>1, <2>2 DEF InPhase, Phase, ProtocolInStep
<1> QED
  BY <1>1, <1>5, <1>6, <1>7, PhaseOf DEF InPhase

LEMMA DescribePhase ==
  ASSUME Sound, InPhase, FwDescribe
  PROVE  InPhase'
<1>n. None \notin {"reset", "setup", "out", "in"}
  BY DEF None
<1>1. /\ serving = "reset" /\ serving' = None /\ ~resetEvent /\ ~resetEvent'
      /\ UNCHANGED <<epr, txBuf, rxBuf, hostVars, logVars, ep0state, setupReq, sent,
                     performed, waited>>
  BY <1>n DEF FwDescribe, Sound, ResetFirst
<1>2. /\ Calm' = Calm /\ Unarmed' = Unarmed /\ Pristine' = Pristine /\ OnlyRx' = OnlyRx
      /\ Started' = Started /\ Timely' = Timely
  BY <1>1 DEF Calm, Unarmed, Pristine, Untold, OnlyRx, Started, Timely, hostVars, logVars
<1>3. Finishing => Finishing'
  BY <1>n, <1>1 DEF Finishing
<1>p. ProtocolInStep'
  BY <1>n, <1>1 DEF InPhase, ProtocolInStep
<1>4. CASE Boots
  BY <1>1, <1>2, <1>p, <1>4 DEF Boots, Booting, hostVars, InPhase, Phase
<1>5. CASE Rests
  <2>1. Rests'
    BY <1>n, <1>1, <1>2, <1>3, <1>5 DEF Rests, LastSeen, hostVars
  <2> QED
    BY <1>1, <1>p, <2>1 DEF InPhase, Phase
<1>6. CASE Pends
  <2>1. Pends'
    BY <1>n, <1>1, <1>2, <1>3, <1>6 DEF Pends, hostVars
  <2> QED
    BY <1>1, <1>p, <2>1 DEF InPhase, Phase
<1>7. CASE Lost
  <2>1. Lost'
    BY <1>n, <1>1, <1>2, <1>7 DEF Lost
  <2> QED
    BY <1>1, <1>p, <2>1 DEF InPhase, Phase
<1> QED
  BY <1>1, <1>4, <1>5, <1>6, <1>7, PhaseOf DEF InPhase

(* The SETUP is read, or the packet of an OUT stage.                       *)
LEMMA ReceivePhase ==
  ASSUME Sound, InPhase, FwReceive
  PROVE  InPhase'
<1>n. None \notin {"reset", "setup", "out", "in"}
  BY DEF None
<1>1. /\ OnlyRx /\ Calm' /\ serving = None /\ ~resetEvent /\ ~resetEvent'
      /\ epr'[0].statTx = epr[0].statTx /\ epr'[0].statRx = epr[0].statRx
      /\ epr[0].setup => serving' = "setup" /\ setupReq' = rxBuf
      /\ ~epr[0].setup => serving' = "out" /\ setupReq' = setupReq
      /\ UNCHANGED <<hostVars, logVars, rxBuf, txBuf, ep0state, sent, performed, waited>>
  BY ReceiveIs
<1>2. ProtocolInStep'
  BY <1>n, <1>1 DEF InPhase, ProtocolInStep
<1>3. Unarmed' = Unarmed /\ Started' = Started /\ Timely' = Timely
  BY <1>1 DEF Unarmed, Started, Timely, hostVars
<1>4. CASE Rests
  <2>1. ~epr[0].setup /\ ep0state = "waitsts"
    BY <1>1, <1>4 DEF Rests, LastSeen, Calm, OnlyRx, OnlyTx
  <2>2. LastSeen'
    BY <1>1, <2>1 DEF LastSeen, Finishing
  <2>3. Rests'
    BY <1>n, <1>1, <1>3, <1>4, <2>1, <2>2 DEF Rests, hostVars
  <2> QED
    BY <1>1, <1>2, <2>3 DEF InPhase, Phase
<1>5. CASE Pends
  <2>1. serving' = "setup" /\ setupReq' = cur
    BY <1>1, <1>5 DEF Pends
  <2>2. Asks'
    BY <1>1, <1>3, <1>5, <2>1 DEF Asks, Pends, hostVars
  <2> QED
    BY <1>1, <1>2, <2>2 DEF InPhase, Phase
<1>6. CASE Takes
  <2>1. ~epr[0].setup
    BY <1>1, <1>6 DEF Takes, Calm, OnlyRx
  <2>2. Performs'
    BY <1>1, <1>6, <2>1 DEF Performs, Takes, hostVars
  <2>3. Takes'
    BY <1>1, <1>3, <1>6, <2>1, <2>2 DEF Takes, hostVars
  <2> QED
    BY <1>1, <1>2, <2>3 DEF InPhase, Phase
<1> QED
  BY <1>1, <1>4, <1>5, <1>6, PhaseOf DEF InPhase

(* The next packet of the reply, or the end of a transmission.             *)
LEMMA TransmittedPhase ==
  ASSUME Sound, InPhase, FwTransmitted
  PROVE  InPhase'
<1>n. None \notin {"reset", "setup", "out", "in"} /\ NAK # VALID
  BY DEF None, NAK, VALID
<1>1. /\ OnlyTx /\ Calm' /\ serving = None /\ ~resetEvent /\ ~resetEvent'
      /\ epr'[0].statRx = epr[0].statRx
      /\ UNCHANGED <<hostVars, logVars, rxBuf, ep0state, setupReq, performed, waited>>
  BY TransmittedIs
<1>2. ASSUME ep0state = "tx", sent < ReplySize(setupReq)
      PROVE  /\ epr'[0].statTx = VALID /\ txBuf'[0] = Chunk(sent)
             /\ sent' = sent + Len(Chunk(sent)) /\ serving' = None
  BY <1>2, TransmittedIs
<1>3. ASSUME ~(ep0state = "tx" /\ sent < ReplySize(setupReq))
      PROVE  /\ epr'[0].statTx = epr[0].statTx /\ serving' = "in"
             /\ txBuf' = txBuf /\ sent' = sent
  BY <1>3, TransmittedIs
<1>4. ProtocolInStep'
  <2>1. serving' # "setup"
    BY <1>n, <1>2, <1>3
  <2> QED
    BY <1>n, <1>1 DEF InPhase, ProtocolInStep
<1>5. Timely' = Timely /\ (Sends => Sends')
  BY <1>1 DEF Timely, Sends, hostVars
<1>6. CASE Rests
  <2>1. ep0state = "sendsts"
    BY <1>1, <1>6 DEF Rests, LastSeen, Calm, OnlyRx, OnlyTx
  <2>2. epr'[0].statTx = epr[0].statTx /\ serving' = "in"
    BY <1>3, <2>1
  <2>3. LastSeen' /\ Unarmed'
    BY <1>1, <1>6, <2>1, <2>2 DEF LastSeen, Finishing, Unarmed, Rests
  <2>4. Rests'
    BY <1>n, <1>1, <1>6, <2>2, <2>3 DEF Rests, hostVars
  <2> QED
    BY <1>1, <1>4, <2>4 DEF InPhase, Phase
<1>7. CASE Goes
  <2>1. /\ ep0state = "tx" /\ sent < ReplySize(cur) /\ setupReq = cur /\ Whole(sent)
        /\ data = Bytes(cur, 0, sent) /\ Sends
    BY <1>7 DEF Goes, Sends
  <2>2. cur \in Requests /\ sent \in Nat /\ sent <= ReplySize(cur) /\ TypeOK
    BY <2>1, ReplyIs, RequestAssumption DEF Sends, Sound, Types, TypeOK
  <2>3. /\ epr'[0].statTx = VALID /\ txBuf'[0] = Chunk(sent)
        /\ sent' = sent + Len(Chunk(sent)) /\ serving' = None
    BY <1>2, <2>1
  <2>4. sent' = Smaller(sent + MaxPacket, ReplySize(cur))
    BY <2>1, <2>2, <2>3, ChunkIs
  <2>5. txBuf'[0] = Bytes(cur, sent, sent')
    BY <2>1, <2>3, <2>4 DEF Chunk
  <2>6. Len(data) = sent
    <3>1. 0 \in Nat /\ 0 <= sent /\ sent - 0 = sent
      BY <2>2
    <3>2. Len(Bytes(cur, 0, sent)) = sent - 0
      BY <2>2, <3>1, BytesAre, Zenon
    <3> QED
      BY <2>1, <3>1, <3>2
  <2>7. /\ state' = "data_in" /\ data' = data /\ cur' = cur
        /\ ep0state' = "tx" /\ epr'[0].statRx = NAK
    BY <1>1, <1>7 DEF Goes, hostVars
  <2>8. Served' /\ Sends'
    BY <1>1, <1>5, <2>1, <2>3 DEF Served
  <2>9. Arms'
    BY <2>1, <2>3, <2>4, <2>5, <2>6, <2>7, <2>8 DEF Arms, Whole
  <2> QED
    BY <1>1, <1>4, <2>9 DEF InPhase, Phase
<1>8. CASE Drains
  <2>1. /\ sent = ReplySize(cur) /\ setupReq = cur /\ cur \in Requests
    BY <1>8, RequestAssumption DEF Drains, Sends
  <2>2. ~(sent < ReplySize(setupReq))
    BY <2>1, ReplyIs
  <2>3. /\ epr'[0].statTx = epr[0].statTx /\ serving' = "in" /\ sent' = sent
    BY <1>3, <2>2
  <2>4. NeedsEmptyPacket' = NeedsEmptyPacket
    BY <1>1 DEF NeedsEmptyPacket
  <2>5. Taken' /\ Sends' /\ Timely'
    BY <1>1, <1>5, <1>8, <2>3 DEF Taken, Drains
  <2>6. Drains'
    BY <1>1, <1>8, <2>3, <2>4, <2>5 DEF Drains, hostVars
  <2> QED
    BY <1>1, <1>4, <2>6 DEF InPhase, Phase
<1>9. CASE Emptied
  <2>1. ep0state = "txzlp"
    BY <1>9 DEF Emptied
  <2>2. /\ epr'[0].statTx = epr[0].statTx /\ serving' = "in"
    BY <1>3, <2>1
  <2>3. Taken' /\ Sends' /\ Timely'
    BY <1>1, <1>5, <1>9, <2>2 DEF Taken, Emptied
  <2>4. Emptied'
    BY <1>1, <1>9, <2>2, <2>3 DEF Emptied, hostVars
  <2> QED
    BY <1>1, <1>4, <2>4 DEF InPhase, Phase
<1> QED
  BY <1>1, <1>6, <1>7, <1>8, <1>9, PhaseOf DEF InPhase

(* The answer to the SETUP: a refusal, the first packet, a buffer for the  *)
(* data, or the status.                                                    *)
LEMMA SetupPhase ==
  ASSUME Sound, InPhase, FwSetup
  PROVE  InPhase'
<1>n. /\ None \notin {"reset", "setup", "out", "in"} /\ NAK # VALID /\ STALL # VALID
  BY DEF None, NAK, VALID, STALL
<1>1. Asks
  BY PhaseOf DEF InPhase, FwSetup
<1>2. /\ serving' = None /\ UNCHANGED <<resetEvent, rxBuf, hostVars, logVars, setupReq, waited>>
  BY DEF FwSetup, EndsCallback
<1>3. /\ Calm /\ ~resetEvent /\ setupReq = cur /\ cur \in Requests /\ data = <<>>
      /\ epr[0].statTx # VALID /\ epr[0].statRx = NAK /\ state = FirstStage(cur)
  BY <1>1 DEF Asks, Started
<1>4. /\ cur' = cur /\ data' = data /\ state' = state /\ setupReq' = cur /\ ~resetEvent'
  BY <1>2, <1>3 DEF hostVars
<1>5. CASE setupReq \notin Supported /\ Refuse
  <2>1. /\ Calm' /\ epr'[0].statRx = STALL /\ epr'[0].statTx = STALL /\ ep0state' = "error"
    BY <1>3, <1>5, RefuseIs DEF Sound
  <2>2. Refuses'
    BY <1>2, <1>3, <1>4, <1>5, <2>1 DEF Refuses, Started, Served
  <2> QED
    BY <1>3, <1>4, <1>5, <2>2 DEF InPhase, Phase, ProtocolInStep
<1>6. CASE /\ setupReq \in Supported /\ Want(setupReq) > 0
           /\ Transmit(Chunk(0), "tx") /\ sent' = Len(Chunk(0))
  <2>1. /\ Calm' /\ epr'[0].statTx = VALID /\ epr'[0].statRx = NAK
        /\ txBuf'[0] = Chunk(0) /\ ep0state' = "tx"
    BY <1>3, <1>6, TransmitIs DEF Sound
  <2>2. ReplySize(cur) \in Nat /\ 0 < ReplySize(cur) /\ MaxPacket \in Nat
    BY <1>3, <1>6, RequestAssumption, PacketAssumption DEF ReplySize, Smaller
  <2>3. sent' = Smaller(0 + MaxPacket, ReplySize(cur))
    <3>1. setupReq \in Requests /\ 0 \in Nat /\ 0 <= ReplySize(setupReq)
      BY <1>3, <2>2
    <3>2. 0 + Len(Chunk(0)) = Smaller(0 + MaxPacket, ReplySize(setupReq))
          /\ Len(Chunk(0)) \in Nat
      BY <3>1, ChunkIs DEF Sound, Types
    <3> QED
      BY <1>3, <1>6, <3>2
  <2>4. txBuf'[0] = Bytes(cur, 0, sent')
    BY <1>3, <2>1, <2>3 DEF Chunk
  <2>5. Len(data) = 0 /\ data = Bytes(cur, 0, 0)
    <3>1. 0 \in Nat /\ 0 <= 0
      OBVIOUS
    <3>2. Bytes(cur, 0, 0) = <<>>
      BY <1>3, <3>1, BytesAre, Zenon
    <3> QED
      BY <1>3, <3>2
  <2>6. Whole(0)
    <3>1. 0 = 0 * MaxPacket
      BY <2>2
    <3> QED
      BY <3>1 DEF Whole
  <2>7. state' = "data_in"
    BY <1>3, <1>4, <1>6 DEF FirstStage
  <2>8. Served' /\ Sends'
    BY <1>2, <1>3, <1>4, <1>6, <2>1 DEF Served, Sends
  <2>9. Whole(Len(data')) /\ Len(data') < ReplySize(cur) /\ Len(data') = 0
    BY <1>4, <2>2, <2>5, <2>6
  <2>10. Arms'
    BY <1>4, <2>1, <2>3, <2>4, <2>5, <2>7, <2>8, <2>9 DEF Arms, Whole
  <2> QED
    BY <1>4, <2>1, <2>10 DEF InPhase, Phase, ProtocolInStep
<1>7. CASE /\ setupReq \in Supported /\ Want(setupReq) = 0 /\ HasOut(setupReq)
           /\ Receive("rx")
  <2>1. /\ Calm' /\ epr'[0].statRx = VALID /\ epr'[0].statTx = epr[0].statTx
        /\ ep0state' = "rx"
    BY <1>3, <1>7, ReceptionIs DEF Sound
  <2>2. state' = "data_out"
    BY <1>3, <1>4, <1>7 DEF FirstStage
  <2>3. AwaitsData'
    BY <1>2, <1>3, <1>4, <1>7, <2>1, <2>2 DEF AwaitsData, Performs, Served
  <2> QED
    BY <1>4, <2>1, <2>3 DEF InPhase, Phase, ProtocolInStep
<1>8. CASE /\ setupReq \in Supported /\ Want(setupReq) = 0 /\ ~HasOut(setupReq)
           /\ Transmit(<<>>, "sendsts")
  <2>1. /\ Calm' /\ epr'[0].statTx = VALID /\ epr'[0].statRx = NAK
        /\ txBuf'[0] = <<>> /\ ep0state' = "sendsts"
    BY <1>3, <1>8, TransmitIs DEF Sound
  <2>2. state' = "status_in"
    BY <1>3, <1>4, <1>8 DEF FirstStage
  <2>3. SendsStatus'
    BY <1>n, <1>2, <1>3, <1>4, <1>8, <2>1, <2>2 DEF SendsStatus, Performs, Served
  <2> QED
    BY <1>4, <2>1, <2>3 DEF InPhase, Phase, ProtocolInStep
<1> QED
  BY <1>5, <1>6, <1>7, <1>8 DEF FwSetup

(* After the last packet: an empty one, the buffer for the status, or the  *)
(* end of the transfer.                                                    *)
LEMMA InDonePhase ==
  ASSUME Sound, InPhase, FwIn
  PROVE  InPhase'
<1>n. /\ None \notin {"reset", "setup", "out", "in"} /\ NAK # VALID
  BY DEF None, NAK, VALID
<1>1. /\ serving = "in" /\ serving' = None
      /\ UNCHANGED <<resetEvent, rxBuf, hostVars, logVars, setupReq, sent, performed, waited>>
  BY DEF FwIn, EndsCallback
<1>2. ~resetEvent
  BY <1>n, <1>1 DEF Sound, ResetFirst
<1>3. Timely' = Timely /\ (Sends => Sends')
  BY <1>1 DEF Timely, Sends, hostVars
<1>4. CASE Rests \/ Pends
  <2>1. ep0state = "sendsts"
    BY <1>n, <1>1, <1>4 DEF Rests, Pends, LastSeen, Finishing
  <2>2. ep0state' = "setup" /\ epr' = epr /\ txBuf' = txBuf
    BY <2>1 DEF FwIn
  <2>3. /\ Calm' = Calm /\ Unarmed' = Unarmed /\ OnlyRx' = OnlyRx /\ Started' = Started
        /\ Finishing'
    BY <1>1, <2>2 DEF Calm, Unarmed, OnlyRx, Started, Finishing, hostVars
  <2>4. Rests => Rests'
    <3>1. Rests => Calm
      BY <1>n, <1>1 DEF Rests, LastSeen
    <3> QED
      BY <1>n, <1>1, <1>2, <2>3, <3>1 DEF Rests, LastSeen, hostVars
  <2>5. Pends => Pends'
    BY <1>n, <1>1, <1>2, <1>3, <2>2, <2>3 DEF Pends, hostVars
  <2> QED
    BY <1>1, <1>2, <1>4, <2>2, <2>4, <2>5 DEF InPhase, Phase, ProtocolInStep
<1>5. CASE Drains
  <2>1. Calm /\ ep0state = "tx" /\ setupReq = cur /\ Sends
    BY <1>n, <1>1, <1>5 DEF Drains, Taken, Sends
  <2>2. CASE NeedsEmptyPacket
    <3>1. Transmit(<<>>, "txzlp")
      BY <2>1, <2>2 DEF FwIn
    <3>2. /\ Calm' /\ epr'[0].statTx = VALID /\ epr'[0].statRx = epr[0].statRx
          /\ txBuf'[0] = <<>> /\ ep0state' = "txzlp"
      BY <2>1, <3>1, TransmitIs DEF Sound
    <3>3. Served' /\ Sends' /\ state = "data_in"
      BY <1>1, <1>2, <1>3, <1>5, <2>1, <2>2, <3>2 DEF Served, Drains
    <3>4. Empties'
      BY <1>1, <1>5, <3>2, <3>3 DEF Empties, Drains, hostVars
    <3> QED
      BY <1>1, <1>2, <3>2, <3>4 DEF InPhase, Phase, ProtocolInStep
  <2>3. CASE ~NeedsEmptyPacket
    <3>1. Receive("waitsts")
      BY <2>1, <2>3 DEF FwIn
    <3>2. /\ Calm' /\ epr'[0].statRx = VALID /\ epr'[0].statTx = epr[0].statTx
          /\ ep0state' = "waitsts"
      BY <2>1, <3>1, ReceptionIs DEF Sound
    <3>3. Served' /\ Sends' /\ state = "status_out"
      BY <1>1, <1>2, <1>3, <1>5, <2>1, <2>3, <3>2 DEF Served, Drains
    <3>4. AwaitsStatus'
      BY <1>n, <1>1, <1>5, <3>2, <3>3 DEF AwaitsStatus, Drains, hostVars
    <3> QED
      BY <1>1, <1>2, <3>2, <3>4 DEF InPhase, Phase, ProtocolInStep
  <2> QED
    BY <2>2, <2>3
<1>6. CASE Emptied
  <2>1. Calm /\ ep0state = "txzlp" /\ Sends
    BY <1>n, <1>1, <1>6 DEF Emptied, Taken
  <2>2. Receive("waitsts")
    BY <2>1 DEF FwIn
  <2>3. /\ Calm' /\ epr'[0].statRx = VALID /\ epr'[0].statTx = epr[0].statTx
        /\ ep0state' = "waitsts"
    BY <2>1, <2>2, ReceptionIs DEF Sound
  <2>4. Served' /\ Sends'
    BY <1>1, <1>2, <1>3, <2>1, <2>3 DEF Served
  <2>5. AwaitsStatus'
    BY <1>n, <1>1, <1>6, <2>3, <2>4 DEF AwaitsStatus, Emptied, hostVars
  <2> QED
    BY <1>1, <1>2, <2>3, <2>5 DEF InPhase, Phase, ProtocolInStep
<1> QED
  BY <1>1, <1>4, <1>5, <1>6, PhaseOf DEF InPhase

(* After a received packet: the end of the transfer, or its status.        *)
LEMMA OutDonePhase ==
  ASSUME Sound, InPhase, FwOut
  PROVE  InPhase'
<1>n. /\ None \notin {"reset", "setup", "out", "in"} /\ NAK # VALID
  BY DEF None, NAK, VALID
<1>1. /\ serving = "out" /\ serving' = None
      /\ UNCHANGED <<resetEvent, rxBuf, hostVars, logVars, setupReq, sent, waited>>
  BY DEF FwOut, EndsCallback
<1>2. ~resetEvent
  BY <1>n, <1>1 DEF Sound, ResetFirst
<1>3. Timely' = Timely
  BY <1>1 DEF Timely, hostVars
<1>4. CASE Rests \/ Pends
  <2>1. ep0state = "waitsts"
    BY <1>n, <1>1, <1>4 DEF Rests, Pends, LastSeen, Finishing
  <2>2. ep0state' = "setup" /\ epr' = epr /\ txBuf' = txBuf
    BY <2>1 DEF FwOut
  <2>3. /\ Calm' = Calm /\ Unarmed' = Unarmed /\ OnlyRx' = OnlyRx /\ Started' = Started
        /\ Finishing'
    BY <1>1, <2>2 DEF Calm, Unarmed, OnlyRx, Started, Finishing, hostVars
  <2>4. Rests => Rests'
    <3>1. Rests => Calm
      BY <1>n, <1>1 DEF Rests, LastSeen
    <3> QED
      BY <1>n, <1>1, <1>2, <2>3, <3>1 DEF Rests, LastSeen, hostVars
  <2>5. Pends => Pends'
    BY <1>n, <1>1, <1>2, <1>3, <2>2, <2>3 DEF Pends, hostVars
  <2> QED
    BY <1>1, <1>2, <1>4, <2>2, <2>4, <2>5 DEF InPhase, Phase, ProtocolInStep
<1>5. CASE Takes
  <2>1. Calm /\ ep0state = "rx" /\ Performs
    BY <1>n, <1>1, <1>5 DEF Takes
  <2>2. Transmit(<<>>, "sendsts")
    BY <2>1 DEF FwOut
  <2>3. /\ Calm' /\ epr'[0].statTx = VALID /\ epr'[0].statRx = epr[0].statRx
        /\ txBuf'[0] = <<>> /\ ep0state' = "sendsts"
    BY <2>1, <2>2, TransmitIs DEF Sound
  <2>4. Served' /\ Performs'
    BY <1>1, <1>2, <2>1, <2>3 DEF Served, Performs, hostVars
  <2>5. SendsStatus'
    BY <1>1, <1>5, <2>3, <2>4 DEF SendsStatus, Takes, Unarmed, hostVars
  <2> QED
    BY <1>1, <1>2, <2>3, <2>5 DEF InPhase, Phase, ProtocolInStep
<1> QED
  BY <1>1, <1>4, <1>5, PhaseOf DEF InPhase

(* What is not about EP0: the start, the pull-up, the reports, a client.   *)
LEMMA QuietPhase ==
  ASSUME Sound, InPhase, FwStart \/ FwAttach \/ FwReported \/ FwPublish \/ Submit
  PROVE  InPhase'
<1>0. /\ epr \in [Ep -> Epr] /\ 0 \in Ep /\ 0 \notin InEps
      /\ txBuf \in [Ep -> Seq(Octets \cup Nat)]
  BY EprIs DEF Sound, Types, TypeOK, DevTypeOK, MoreTypes
<1>1. CASE ~FwStart
  <2>1. /\ epr'[0] = epr[0] /\ txBuf'[0] = txBuf[0]
        /\ UNCHANGED <<resetEvent, rxBuf, state, cur, data, stageSteps, stallSeen, answers,
                       ep0state, serving, setupReq, sent, performed, waited>>
    <3>1. CASE FwAttach \/ Submit
      BY <3>1 DEF FwAttach, Submit, devVars, hostVars, logVars, fwVars
    <3>2. CASE FwReported
      BY <1>0, <3>2 DEF FwReported, hostVars, logVars, fwVars
    <3>3. CASE FwPublish
      BY <1>0, <3>3 DEF FwPublish, hostVars, logVars
    <3> QED
      BY <1>1, <3>1, <3>2, <3>3
  <2>2. SameEp0 /\ Timely' = Timely
    BY <2>1 DEF SameEp0, Timely
  <2> QED
    BY <2>2, PhaseFrame
<1>2. CASE FwStart
  <2>1. Boots /\ ~resetEvent
    <3>1. state = "wait_attach" /\ ~resetEvent
      BY <1>2 DEF FwStart, Sound, ResetFirst
    <3>2. cur \notin Requests
      BY <3>1, RequestAssumption DEF Sound, Types, TypeOK, None
    <3>3. state # FirstStage(cur)
      BY <3>1 DEF FirstStage
    <3> QED
      BY <3>1, <3>3 DEF InPhase, Phase, Rests, Pends, Lost, Asks, Refuses, Arms, Goes,
         Drains, Empties, Emptied, AwaitsStatus, AwaitsData, Takes, SendsStatus, Started
  <2>2. /\ epr'[0] = epr[0] \/ epr'[0] = Opened(epr[0])
        /\ UNCHANGED <<resetEvent, hostVars, logVars, fwVars>>
    BY <1>0, <1>2 DEF FwStart
  <2>3. Calm' /\ epr'[0].statTx \in {DISABLED, NAK} /\ epr'[0].statRx \in {DISABLED, NAK}
    <3>1. CASE epr'[0] = epr[0]
      BY <2>1, <3>1 DEF Boots, Pristine, Calm
    <3>2. CASE epr'[0] = Opened(epr[0])
      BY <3>2, OpeningIs DEF Sound
    <3> QED
      BY <2>2, <3>1, <3>2
  <2>4. Boots'
    BY <2>1, <2>2, <2>3 DEF Boots, Booting, Pristine, Untold, hostVars, logVars, fwVars
  <2> QED
    BY <2>1, <2>2, <2>4 DEF InPhase, Phase, ProtocolInStep, fwVars
<1> QED
  BY <1>1, <1>2

(* Every step stays in the phases.                                         *)
LEMMA PhaseStep ==
  ASSUME Sound, Outlasts, InPhase, [Next]_vars
  PROVE  InPhase'
<1>1. CASE HostStep
  BY <1>1, HostPhase
<1>2. CASE FwReset \/ FwDescribe \/ FwReceive \/ FwTransmitted
  BY <1>2, ResetPhase, DescribePhase, ReceivePhase, TransmittedPhase
<1>3. CASE FwSetup \/ FwIn \/ FwOut
  BY <1>3, SetupPhase, InDonePhase, OutDonePhase
<1>4. CASE FwStart \/ FwAttach \/ FwReported \/ FwPublish \/ Submit
  BY <1>4, QuietPhase
<1>5. CASE UNCHANGED vars
  <2>1. SameEp0 /\ Timely' = Timely
    BY <1>5 DEF SameEp0, Timely, vars, devVars, hostVars, logVars, fwVars
  <2> QED
    BY <2>1, PhaseFrame
<1> QED
  BY <1>1, <1>2, <1>3, <1>4, <1>5 DEF Next, Firmware

LEMMA PhaseInit ==
  ASSUME Init
  PROVE  InPhase
<1>1. epr[0] = EprZero /\ Booting
  BY DEF Init, DevInit, Ep, Booting
<1>2. Calm /\ epr[0].statTx = DISABLED /\ epr[0].statRx = DISABLED
  BY <1>1 DEF Calm, EprZero
<1>3. Boots
  BY <1>1, <1>2 DEF Init, Boots, Pristine, Untold
<1> QED
  BY <1>3 DEF InPhase, Phase, Init, DevInit, ProtocolInStep

-----------------------------------------------------------------------------
(* The books: what is queued, what is answered, what is carried out *)

Busy == IF cur = None THEN 0 ELSE 1

(* What is queued is what is not answered, in the order of submission.     *)
Books ==
    /\ Len(submitted) = Len(answers) + Busy + Len(queue)
    /\ cur # None => submitted[Len(answers) + 1] = cur
    /\ \A i \in 1 .. Len(queue) : submitted[Len(answers) + Busy + i] = queue[i]

(* A request is carried out before it is answered.                         *)
Credit ==
    \A r \in Requests : Performable(r) =>
        /\ Cardinality(Answered(r)) <= performed[r]
        /\ cur = r /\ SendsStatus => Cardinality(Answered(r)) < performed[r]

(* What a step of the host does to the books.                              *)
LEMMA HostBooks ==
  ASSUME Sound, HostStep
  PROVE  \/ UNCHANGED <<submitted, queue, cur, answers>>
         \/ /\ cur' = cur /\ UNCHANGED answers
            /\ queue' = queue \o Script /\ submitted' = submitted \o Script
         \/ /\ cur = None /\ queue # <<>> /\ cur' = Head(queue) /\ queue' = Tail(queue)
            /\ UNCHANGED <<submitted, answers>>
         \/ \E a : answers' = Append(answers, a)
<1>0. answers \in Seq(Verdicts)
  BY DEF Sound, Types, MoreTypes
<1>1. ASSUME NEW b \in BOOLEAN, Finish(b), UNCHANGED submitted
      PROVE  \/ UNCHANGED <<submitted, queue, cur, answers>>
             \/ \E a : answers' = Append(answers, a)
  BY <1>1 DEF Finish
<1>2. ASSUME NEW seen, TickPatience(seen), UNCHANGED submitted
      PROVE  \/ UNCHANGED <<submitted, queue, cur, answers>>
             \/ \E a : answers' = Append(answers, a)
  <2>1. CASE Finish(TRUE)
    BY <1>1, <1>2, <2>1
  <2> QED
    BY <1>2, <2>1 DEF TickPatience
<1>3. ASSUME NEW out, NEW ready, Waits(out, ready), UNCHANGED submitted
      PROVE  \/ UNCHANGED <<submitted, queue, cur, answers>>
             \/ \E a : answers' = Append(answers, a)
  <2>1. CASE Finish(TRUE)
    BY <1>1, <1>3, <2>1
  <2>2. CASE TickPatience(SeenAfter(out))
    BY <1>2, <1>3, <2>2
  <2> QED
    BY <1>3, <2>1, <2>2 DEF Waits
<1>4. CASE TakeReport \/ Attach \/ DriveReset \/ Idle
  BY <1>4 DEF TakeReport, Attach, DriveReset, Idle, hostVars, logVars
<1>5. CASE WaitEp0
  BY <1>5 DEF WaitEp0
<1>6. CASE Advance
  <2>1. UNCHANGED submitted
    BY <1>6 DEF Advance
  <2>2. CASE EpBusy(0)
    BY <1>2, <1>6, <2>1, <2>2 DEF Advance
  <2>3. CASE ~EpBusy(0) /\ queue = <<>>
    BY <1>6, <2>1, <2>3 DEF Advance, StartNext
  <2>4. CASE ~EpBusy(0) /\ queue # <<>>
    <3>1. cur = None
      BY <1>6 DEF Advance, Sound, Types, TypeOK
    <3> QED
      BY <1>6, <2>1, <2>4, <3>1 DEF Advance, StartNext
  <2> QED
    BY <2>2, <2>3, <2>4
<1>7. CASE DataIn
  <2>1. UNCHANGED submitted
    BY <1>7 DEF DataIn
  <2>2. CASE Waits(FALSE, ReadyTx)
    BY <1>3, <2>1, <2>2
  <2> QED
    BY <1>7, <2>1, <2>2 DEF DataIn
<1>8. CASE DataOut
  <2>1. UNCHANGED submitted
    BY <1>8 DEF DataOut
  <2>2. CASE Waits(TRUE, ReadyRx)
    BY <1>3, <2>1, <2>2
  <2> QED
    BY <1>8, <2>1, <2>2 DEF DataOut
<1>9. CASE StatusOut
  <2>1. UNCHANGED submitted
    BY <1>9 DEF StatusOut
  <2>2. CASE Waits(TRUE, ReadyRx)
    BY <1>3, <2>1, <2>2
  <2>3. CASE Finish(FALSE)
    BY <1>1, <2>1, <2>3
  <2> QED
    BY <1>9, <2>2, <2>3 DEF StatusOut
<1>10. CASE StatusIn
  <2>1. UNCHANGED submitted
    BY <1>10 DEF StatusIn
  <2>2. CASE Waits(FALSE, ReadyTx)
    BY <1>3, <2>1, <2>2
  <2>3. CASE Finish(FALSE)
    BY <1>1, <2>1, <2>3
  <2> QED
    BY <1>10, <2>2, <2>3 DEF StatusIn
<1> QED
  BY <1>4, <1>5, <1>6, <1>7, <1>8, <1>9, <1>10 DEF HostStep, ControlStep

(* What is added to both ends of the books keeps them even.                *)
LEMMA EvenAppend ==
  ASSUME NEW s \in Seq(Requests), NEW q \in Seq(Requests), NEW t \in Seq(Requests),
         NEW n \in Nat, Len(s) = n + Len(q), \A i \in 1 .. Len(q) : s[n + i] = q[i]
  PROVE  /\ Len(s \o t) = n + Len(q \o t)
         /\ \A i \in 1 .. Len(q \o t) : (s \o t)[n + i] = (q \o t)[i]
         /\ \A i \in 1 .. Len(s) : (s \o t)[i] = s[i]
<1>1. /\ Len(s \o t) = Len(s) + Len(t) /\ Len(q \o t) = Len(q) + Len(t)
      /\ Len(s) \in Nat /\ Len(q) \in Nat /\ Len(t) \in Nat
  BY ConcatProperties, LenProperties
<1>2. /\ \A i \in 1 .. Len(s) + Len(t) :
           (s \o t)[i] = IF i <= Len(s) THEN s[i] ELSE t[i - Len(s)]
      /\ \A i \in 1 .. Len(q) + Len(t) :
           (q \o t)[i] = IF i <= Len(q) THEN q[i] ELSE t[i - Len(q)]
  BY ConcatProperties
<1>3. ASSUME NEW i \in 1 .. Len(q \o t)
      PROVE  (s \o t)[n + i] = (q \o t)[i]
  <2>1. n + i \in 1 .. Len(s) + Len(t)
    BY <1>1
  <2>2. CASE i <= Len(q)
    <3>1. (s \o t)[n + i] = s[n + i] /\ (q \o t)[i] = q[i] /\ i \in 1 .. Len(q)
      BY <1>1, <1>2, <2>1, <2>2
    <3> QED
      BY <3>1
  <2>3. CASE ~(i <= Len(q))
    <3>1. (s \o t)[n + i] = t[(n + i) - Len(s)] /\ (q \o t)[i] = t[i - Len(q)]
      BY <1>1, <1>2, <2>1, <2>3
    <3>2. (n + i) - Len(s) = i - Len(q)
      BY <1>1
    <3> QED
      BY <3>1, <3>2
  <2> QED
    BY <2>2, <2>3
<1>4. ASSUME NEW i \in 1 .. Len(s)
      PROVE  (s \o t)[i] = s[i]
  BY <1>1, <1>2, <1>4
<1> QED
  BY <1>1, <1>3, <1>4, SMTT(30)

(* What any step does to the books.                                        *)
LEMMA StepBooks ==
  ASSUME Sound, Outlasts, InPhase, [Next]_vars
  PROVE  \/ UNCHANGED <<submitted, queue, cur, answers>>
         \/ \E t \in Seq(Requests) :
              /\ queue' = queue \o t /\ submitted' = submitted \o t
              /\ UNCHANGED <<cur, answers>>
         \/ /\ cur = None /\ queue # <<>> /\ cur' = Head(queue) /\ queue' = Tail(queue)
            /\ UNCHANGED <<submitted, answers>>
         \/ Answers
<1>0. /\ answers \in Seq(Verdicts) /\ queue \in Seq(Requests) /\ submitted \in Seq(Requests)
      /\ Script \in Seq(Requests)
  BY RequestAssumption DEF Sound, Types, TypeOK, MoreTypes
<1>1. CASE HostStep
  <2>1. UNCHANGED answers \/ Answers
    BY <1>1, HostPhase
  <2>2. ASSUME UNCHANGED answers, NEW a PROVE answers' # Append(answers, a)
    <3>1. Len(Append(answers, a)) = Len(answers) + 1 /\ Len(answers) \in Nat
      BY <1>0
    <3> QED
      BY <2>2, <3>1
  <2> QED
    BY <1>0, <1>1, <2>1, <2>2, HostBooks
<1>2. CASE Submit
  <2>1. PICK r \in Requests : queue' = Append(queue, r) /\ submitted' = Append(submitted, r)
    BY <1>2 DEF Submit
  <2>2. queue' = queue \o <<r>> /\ submitted' = submitted \o <<r>>
    <3>1. Append(queue, r) = queue \o <<r>> /\ Append(submitted, r) = submitted \o <<r>>
      BY <1>0, AppendIsConcat
    <3> QED
      BY <2>1, <3>1
  <2>3. <<r>> \in Seq(Requests)
    OBVIOUS
  <2>4. UNCHANGED <<cur, answers>>
    BY <1>2 DEF Submit
  <2> QED
    BY <2>2, <2>3, <2>4
<1>3. CASE Firmware \/ FwPublish \/ UNCHANGED vars
  BY <1>3 DEF Firmware, FwPublish, FwStart, FwAttach, FwReset, FwDescribe, FwReceive,
     FwTransmitted, FwReported, FwSetup, FwIn, FwOut, EndsCallback, hostVars, logVars, vars
<1> QED
  BY <1>1, <1>2, <1>3 DEF Next

LEMMA BooksStep ==
  ASSUME Sound, Outlasts, InPhase, Books, [Next]_vars
  PROVE  Books'
<1>0. /\ answers \in Seq(Verdicts) /\ queue \in Seq(Requests) /\ submitted \in Seq(Requests)
      /\ None \notin Requests
  BY RequestAssumption DEF Sound, Types, TypeOK, MoreTypes, None
<1>1. Len(answers) \in Nat /\ Len(queue) \in Nat /\ Len(submitted) \in Nat /\ Busy \in {0, 1}
  BY <1>0 DEF Busy
<1>2. CASE UNCHANGED <<submitted, queue, cur, answers>>
  BY <1>2 DEF Books, Busy
<1>3. ASSUME NEW t \in Seq(Requests), queue' = queue \o t, submitted' = submitted \o t,
             UNCHANGED <<cur, answers>>
      PROVE  Books'
  <2> DEFINE n == Len(answers) + Busy
  <2>1. /\ n \in Nat /\ Len(submitted) = n + Len(queue)
        /\ \A i \in 1 .. Len(queue) : submitted[n + i] = queue[i]
    BY <1>1 DEF Books
  <2> HIDE DEF n
  <2>2. /\ Len(submitted') = n + Len(queue')
        /\ \A i \in 1 .. Len(queue') : submitted'[n + i] = queue'[i]
        /\ \A i \in 1 .. Len(submitted) : submitted'[i] = submitted[i]
    <3>1. /\ Len(submitted \o t) = n + Len(queue \o t)
          /\ \A i \in 1 .. Len(queue \o t) : (submitted \o t)[n + i] = (queue \o t)[i]
          /\ \A i \in 1 .. Len(submitted) : (submitted \o t)[i] = submitted[i]
      BY <1>0, <1>3, <2>1, EvenAppend, ZenonT(30)
    <3> QED
      BY <1>3, <3>1, Zenon
  <2>3. n = Len(answers') + Busy'
    BY <1>3 DEF n, Busy
  <2>4. ASSUME cur # None
        PROVE  submitted'[Len(answers) + 1] = cur
    <3>1. Busy = 1 /\ n = Len(answers) + 1
      BY <2>4 DEF Busy, n
    <3>2. Len(answers) + 1 \in 1 .. Len(submitted)
      BY <1>1, <2>1, <3>1
    <3> QED
      BY <2>2, <2>4, <3>2 DEF Books
  <2> QED
    BY <1>3, <2>2, <2>3, <2>4 DEF Books
<1>4. CASE /\ cur = None /\ queue # <<>> /\ cur' = Head(queue) /\ queue' = Tail(queue)
           /\ UNCHANGED <<submitted, answers>>
  <2>1. /\ Len(queue) > 0 /\ Len(queue') = Len(queue) - 1 /\ cur' = queue[1]
        /\ \A i \in 1 .. Len(queue') : queue'[i] = queue[i + 1]
        /\ cur' \in Requests
    BY <1>0, <1>4
  <2>2. Busy = 0 /\ Busy' = 1
    BY <1>0, <1>4, <2>1 DEF Busy
  <2>3. Len(submitted') = Len(answers') + Busy' + Len(queue')
    BY <1>1, <1>4, <2>1, <2>2 DEF Books
  <2>4. submitted'[Len(answers') + 1] = cur'
    <3>1. 1 \in 1 .. Len(queue) /\ Len(answers) + Busy + 1 = Len(answers) + 1
      BY <1>1, <2>1, <2>2
    <3>2. submitted[Len(answers) + Busy + 1] = queue[1]
      BY <3>1 DEF Books
    <3> QED
      BY <1>4, <2>1, <3>1, <3>2
  <2>5. ASSUME NEW i \in 1 .. Len(queue')
        PROVE  submitted'[Len(answers') + Busy' + i] = queue'[i]
    <3>1. /\ i + 1 \in 1 .. Len(queue)
          /\ Len(answers) + Busy + (i + 1) = Len(answers) + Busy' + i
      BY <1>1, <2>1, <2>2
    <3>2. submitted[Len(answers) + Busy + (i + 1)] = queue[i + 1]
      BY <3>1 DEF Books
    <3> QED
      BY <1>4, <2>1, <3>1, <3>2
  <2> QED
    BY <2>3, <2>4, <2>5 DEF Books
<1>5. CASE Answers
  <2>1. PICK a : answers' = Append(answers, a)
    BY <1>5 DEF Answers
  <2>2. /\ Len(answers') = Len(answers) + 1 /\ cur \in Requests /\ cur' = None
        /\ UNCHANGED <<queue, submitted>>
    BY <1>0, <1>5, <2>1 DEF Answers
  <2>3. Busy = 1 /\ Busy' = 0
    BY <1>0, <2>2 DEF Busy
  <2>4. Len(answers') + Busy' = Len(answers) + Busy
    BY <1>1, <2>2, <2>3
  <2> QED
    BY <2>2, <2>4 DEF Books
<1> QED
  BY <1>2, <1>3, <1>4, <1>5, StepBooks

(* The ok answers to a request are finitely many, and stay what they are.  *)
LEMMA AnsweredIs ==
  ASSUME Sound, NEW r
  PROVE  IsFiniteSet(Answered(r)) /\ Cardinality(Answered(r)) \in Nat
<1>1. DOMAIN answers = 1 .. Len(answers) /\ Len(answers) \in Nat
  BY DEF Sound, Types, MoreTypes
<1>2. IsFiniteSet(1 .. Len(answers))
  BY <1>1, FS_Interval
<1>3. Answered(r) \in SUBSET (1 .. Len(answers))
  BY <1>1 DEF Answered
<1> QED
  BY <1>2, <1>3, FS_Subset, FS_CardinalityType

(* Nothing that has been submitted changes.                                *)
LEMMA SubmittedStays ==
  ASSUME Sound, Outlasts, InPhase, Books, [Next]_vars
  PROVE  \A i \in 1 .. Len(answers) : submitted'[i] = submitted[i]
<1>0. /\ queue \in Seq(Requests) /\ submitted \in Seq(Requests) /\ answers \in Seq(Verdicts)
  BY DEF Sound, Types, TypeOK, MoreTypes
<1>1. Len(answers) <= Len(submitted) /\ Len(answers) \in Nat /\ Len(submitted) \in Nat
  <2>1. Len(answers) \in Nat /\ Len(queue) \in Nat /\ Len(submitted) \in Nat /\ Busy \in {0, 1}
    BY <1>0 DEF Busy
  <2> QED
    BY <2>1 DEF Books
<1>2. ASSUME NEW t \in Seq(Requests), submitted' = submitted \o t
      PROVE  \A i \in 1 .. Len(answers) : submitted'[i] = submitted[i]
  <2>1. \A i \in 1 .. Len(submitted) : (submitted \o t)[i] = submitted[i]
    BY <1>0, <1>2, ConcatProperties
  <2> QED
    BY <1>1, <1>2, <2>1
<1> QED
  BY <1>2, StepBooks DEF Answers

LEMMA AnsweredStep ==
  ASSUME Sound, Outlasts, InPhase, Books, [Next]_vars, NEW r \in Requests
  PROVE  \/ Answered(r)' = Answered(r)
         \/ /\ Answers /\ cur = r /\ (Performable(r) => SendsStatus)
            /\ Cardinality(Answered(r)') = Cardinality(Answered(r)) + 1
<1>0. /\ submitted \in Seq(Requests) /\ answers \in Seq(Verdicts) /\ None \notin Requests
      /\ Len(answers) \in Nat /\ DOMAIN answers = 1 .. Len(answers)
  BY RequestAssumption DEF Sound, Types, TypeOK, MoreTypes, None
<1>1. \A i \in 1 .. Len(answers) : submitted'[i] = submitted[i]
  BY SubmittedStays
<1>2. CASE UNCHANGED answers
  BY <1>0, <1>1, <1>2 DEF Answered
<1>3. CASE Answers
  <2>1. PICK a : /\ answers' = Append(answers, a)
                 /\ a.verdict = "ok" /\ Performable(cur) => SendsStatus
    BY <1>3 DEF Answers
  <2>2. /\ cur \in Requests /\ submitted' = submitted
    BY <1>3 DEF Answers
  <2> DEFINE n == Len(answers)
  <2>3. /\ DOMAIN answers' = 1 .. n + 1 /\ answers'[n + 1] = a
        /\ \A i \in 1 .. n : answers'[i] = answers[i]
    BY <1>0, <2>1
  <2>4. submitted[n + 1] = cur
    BY <1>0, <2>2 DEF Books
  <2> HIDE DEF n
  <2>n. n \in Nat /\ DOMAIN answers = 1 .. n
    BY <1>0 DEF n
  <2>5. CASE cur = r /\ a.verdict = "ok"
    <3>1. Answered(r)' = Answered(r) \cup {n + 1}
      <4>1. ASSUME NEW i
            PROVE  i \in Answered(r)' <=> i \in Answered(r) \cup {n + 1}
        <5>1. CASE i \in 1 .. n
          <6>1. i # n + 1 /\ i \in 1 .. n + 1
            BY <2>n, <5>1
          <6> QED
            BY <2>2, <2>3, <2>n, <5>1, <6>1 DEF Answered
        <5>2. CASE i = n + 1
          <6>1. n + 1 \in 1 .. n + 1
            BY <2>n
          <6> QED
            BY <2>2, <2>3, <2>4, <2>5, <5>2, <6>1 DEF Answered
        <5>3. CASE ~(i \in 1 .. n) /\ ~(i = n + 1)
          <6>1. ~(i \in 1 .. n + 1)
            BY <2>n, <5>3
          <6> QED
            BY <2>3, <2>n, <5>3, <6>1 DEF Answered
        <5> QED
          BY <5>1, <5>2, <5>3
      <4> QED
        BY <4>1
    <3>2. n + 1 \notin Answered(r)
      <4>1. ~(n + 1 \in 1 .. n)
        BY <2>n
      <4> QED
        BY <2>n, <4>1 DEF Answered
    <3>3. Cardinality(Answered(r)') = Cardinality(Answered(r)) + 1
      BY <3>1, <3>2, AnsweredIs, FS_AddElement
    <3> QED
      BY <1>3, <2>1, <2>5, <3>3
  <2>6. CASE ~(cur = r /\ a.verdict = "ok")
    <3>1. ASSUME NEW i
          PROVE  i \in Answered(r)' <=> i \in Answered(r)
      <4>1. CASE i \in 1 .. n
        <5>1. i \in 1 .. n + 1
          BY <2>n, <4>1
        <5> QED
          BY <2>2, <2>3, <2>n, <4>1, <5>1 DEF Answered
      <4>2. CASE i = n + 1
        <5>1. ~(i \in 1 .. n)
          BY <2>n, <4>2
        <5> QED
          BY <2>2, <2>3, <2>4, <2>6, <2>n, <4>2, <5>1 DEF Answered
      <4>3. CASE ~(i \in 1 .. n) /\ ~(i = n + 1)
        <5>1. ~(i \in 1 .. n + 1)
          BY <2>n, <4>3
        <5> QED
          BY <2>3, <2>n, <4>3, <5>1 DEF Answered
      <4> QED
        BY <4>1, <4>2, <4>3
    <3>2. Answered(r)' \subseteq 1 .. n + 1 /\ Answered(r) \subseteq 1 .. n
      BY <2>3, <2>n DEF Answered
    <3> QED
      BY <3>1
  <2> QED
    BY <2>5, <2>6
<1> QED
  BY <1>2, <1>3, StepBooks

(* Nothing that has been carried out is undone.                            *)
LEMMA PerformedGrows ==
  ASSUME Sound, [Next]_vars, NEW r \in Requests
  PROVE  performed'[r] \in Nat /\ performed[r] \in Nat /\ performed'[r] >= performed[r]
<1>0. performed \in [Requests -> Nat] /\ performed[r] \in Nat
  BY DEF Sound, Types, TypeOK
<1>1. CASE FwSetup
  <2>1. performed' = performed \/ performed' = [performed EXCEPT ![setupReq] = @ + 1]
    BY <1>1 DEF FwSetup
  <2> QED
    BY <1>0, <2>1
<1>2. CASE FwOut
  <2>1. performed' = [performed EXCEPT ![setupReq] = IF ep0state = "rx" THEN @ + 1 ELSE @]
    BY <1>2 DEF FwOut
  <2> QED
    BY <1>0, <2>1
<1>3. CASE ~FwSetup /\ ~FwOut
  <2>1. performed' = performed
    BY <1>3 DEF Next, HostStep, Submit, Firmware, FwPublish, FwStart, FwAttach, FwReset,
       FwDescribe, FwReceive, FwTransmitted, FwReported, FwIn, fwVars, vars
  <2> QED
    BY <1>0, <2>1
<1> QED
  BY <1>1, <1>2, <1>3

(* The status of a request is sent once the request has been carried out.  *)
LEMMA StatusFrom ==
  ASSUME Sound, InPhase, [Next]_vars, SendsStatus'
  PROVE  \/ SendsStatus /\ cur' = cur
         \/ /\ cur' = cur /\ cur \in Requests /\ UNCHANGED answers
            /\ performed'[cur] = performed[cur] + 1
<1>n. /\ None \notin {"reset", "setup", "out", "in"} /\ NAK # VALID /\ VALID # NAK
  BY DEF None, NAK, VALID
<1>0. /\ performed \in [Requests -> Nat] /\ epr \in [Ep -> Epr] /\ 0 \in Ep /\ 0 \notin InEps
      /\ Supported \subseteq Requests
  BY EprIs, RequestAssumption DEF Sound, Types, TypeOK, DevTypeOK
<1>1. /\ ep0state' = "sendsts" /\ serving' = None /\ epr'[0].statTx = VALID
      /\ setupReq' = cur' /\ cur' \in Requests /\ ~resetEvent' /\ Calm'
  BY <1>0 DEF SendsStatus, Performs, Served
<1>2. CASE FwSetup
  <2>1. Asks
    BY <1>2, PhaseOf DEF InPhase, FwSetup
  <2>2. setupReq = cur /\ cur' = cur /\ UNCHANGED answers
    BY <1>2, <2>1 DEF Asks, FwSetup, EndsCallback, hostVars, logVars
  <2>3. performed' = [performed EXCEPT ![setupReq] = @ + 1]
    BY <1>1, <1>2 DEF FwSetup, Transmit, Receive, Refuse
  <2> QED
    BY <1>0, <1>1, <2>2, <2>3
<1>3. CASE FwOut
  <2>1. ep0state = "rx"
    BY <1>1, <1>3 DEF FwOut, Refuse
  <2>2. Takes
    <3>1. Rests \/ Pends \/ Takes
      BY <1>3, PhaseOf DEF InPhase, FwOut
    <3>2. ~Rests /\ ~Pends
      BY <2>1 DEF Rests, Pends, LastSeen, Finishing
    <3> QED
      BY <3>1, <3>2
  <2>3. setupReq = cur /\ cur' = cur /\ UNCHANGED answers
    BY <1>3, <2>2 DEF Takes, Performs, FwOut, EndsCallback, hostVars, logVars
  <2>4. performed' = [performed EXCEPT ![setupReq] = @ + 1]
    BY <1>3, <2>1 DEF FwOut
  <2> QED
    BY <1>0, <1>1, <2>3, <2>4
<1>4. CASE ~FwSetup /\ ~FwOut
  <2>1. ~FwIn /\ ~FwReset
    BY <1>1 DEF FwIn, FwReset, Transmit, Receive, Refuse
  <2>2. ~FwReceive
    BY <1>n, <1>1, ReceiveIs
  <2>3. ~FwTransmitted
    <3>1. SUFFICES ASSUME FwTransmitted PROVE FALSE
      OBVIOUS
    <3>2. ep0state = "sendsts"
      BY <1>1, <3>1 DEF FwTransmitted
    <3> QED
      BY <1>n, <1>1, <3>1, <3>2, TransmittedIs
  <2>4. /\ ep0state = "sendsts" /\ setupReq' = setupReq
    BY <1>1, <1>4, <2>1, <2>2, <2>3 DEF Next, HostStep, Submit, Firmware, FwPublish, FwStart,
       FwAttach, FwDescribe, FwReported, fwVars, vars
  <2>5. epr[0].statTx = VALID
    <3>1. CASE HostStep
      <4>1. RaiseCtrTx(epr[0]).statTx = NAK
        BY <1>0 DEF RaiseCtrTx, Epr
      <4>2. \A b \in BOOLEAN : RaiseCtrRx(epr[0], b).statTx = epr[0].statTx
        BY <1>0 DEF RaiseCtrRx, Epr
      <4> QED
        BY <1>n, <1>1, <3>1, <4>1, <4>2, HostAtEp0 DEF Sound
    <3>2. CASE FwStart
      <4>1. epr'[0] = epr[0] \/ epr'[0] = Opened(epr[0])
        BY <1>0, <3>2 DEF FwStart
      <4>2. epr'[0] # Opened(epr[0])
        BY <1>n, <1>1, OpeningIs DEF Sound
      <4> QED
        BY <1>1, <4>1, <4>2
    <3>3. CASE FwReported \/ FwPublish
      <4>1. epr'[0] = epr[0]
        BY <1>0, <3>3 DEF FwReported, FwPublish
      <4> QED
        BY <1>1, <4>1
    <3>4. CASE FwAttach \/ FwDescribe \/ Submit \/ UNCHANGED vars
      <4>1. epr' = epr
        BY <3>4 DEF FwAttach, FwDescribe, Submit, vars, devVars
      <4> QED
        BY <1>1, <4>1
    <3> QED
      BY <1>4, <2>1, <2>2, <2>3, <3>1, <3>2, <3>3, <3>4 DEF Next, Firmware
  <2>6. SendsStatus
    BY <1>n, <2>4, <2>5 DEF InPhase, Phase, Boots, Pristine, Rests, Unarmed, Pends, Lost, Asks,
       Refuses, Arms, Goes, Drains, Empties, Emptied, AwaitsStatus, AwaitsData, Takes
  <2>7. cur' = cur
    BY <1>1, <2>4, <2>6 DEF SendsStatus, Performs
  <2> QED
    BY <2>6, <2>7
<1> QED
  BY <1>2, <1>3, <1>4

LEMMA CreditStep ==
  ASSUME Sound, Outlasts, InPhase, Books, Credit, [Next]_vars
  PROVE  Credit'
<1> SUFFICES ASSUME NEW r \in Requests, Performable(r)
             PROVE  /\ Cardinality(Answered(r)') <= performed'[r]
                    /\ cur' = r /\ SendsStatus' => Cardinality(Answered(r)') < performed'[r]
  BY DEF Credit
<1>1. /\ Cardinality(Answered(r)) <= performed[r]
      /\ cur = r /\ SendsStatus => Cardinality(Answered(r)) < performed[r]
  BY DEF Credit
<1>2. Cardinality(Answered(r)) \in Nat
  BY AnsweredIs
<1>3. performed'[r] \in Nat /\ performed[r] \in Nat /\ performed'[r] >= performed[r]
  BY PerformedGrows
<1>4. CASE Answered(r)' = Answered(r)
  <2>1. Cardinality(Answered(r)') <= performed'[r]
    BY <1>1, <1>2, <1>3, <1>4
  <2>2. ASSUME cur' = r, SendsStatus'
        PROVE  Cardinality(Answered(r)') < performed'[r]
    <3>1. (SendsStatus /\ cur = r) \/ performed'[r] = performed[r] + 1
      BY <2>2, StatusFrom
    <3> QED
      BY <1>1, <1>2, <1>3, <1>4, <3>1
  <2> QED
    BY <2>1, <2>2
<1>5. CASE /\ Answers /\ cur = r /\ (Performable(r) => SendsStatus)
           /\ Cardinality(Answered(r)') = Cardinality(Answered(r)) + 1
  <2>1. Cardinality(Answered(r)) < performed[r]
    BY <1>1, <1>5
  <2>2. cur' = None /\ r # None
    BY <1>5, RequestAssumption DEF Answers, None
  <2> QED
    BY <1>2, <1>3, <1>5, <2>1, <2>2
<1> QED
  BY <1>4, <1>5, AnsweredStep

LEMMA BooksInit ==
  ASSUME Init
  PROVE  Books /\ Credit
<1>1. submitted = <<>> /\ queue = <<>> /\ answers = <<>> /\ cur = None
  BY DEF Init
<1>2. Books
  <2>1. Busy = 0
    BY <1>1 DEF Busy
  <2> QED
    BY <1>1, <2>1 DEF Books
<1>3. ASSUME NEW r \in Requests
      PROVE  /\ Cardinality(Answered(r)) <= performed[r]
             /\ ~(cur = r /\ SendsStatus)
  <2>1. Answered(r) = {}
    BY <1>1 DEF Answered
  <2>2. Cardinality(Answered(r)) = 0 /\ performed[r] = 0
    BY <2>1, FS_EmptySet DEF Init
  <2>3. cur # r
    BY <1>1, RequestAssumption DEF None
  <2> QED
    BY <2>2, <2>3
<1> QED
  BY <1>2, <1>3 DEF Credit

-----------------------------------------------------------------------------
(* What holds when the host's patience outlasts the handler *)

Steady == Sound /\ InPhase /\ Books /\ Credit

(* The host and the firmware stay at the same place of the transfer: each  *)
(* phase leads to the next one, and the books are kept.                    *)
THEOREM Steadiness ==
  ASSUME Outlasts
  PROVE  Spec => []Steady
<1>1. Init => InPhase /\ Books /\ Credit
  BY PhaseInit, BooksInit
<1>2. Sound /\ InPhase /\ Books /\ Credit /\ [Next]_vars => (InPhase /\ Books /\ Credit)'
  BY PhaseStep, BooksStep, CreditStep
<1>3. Sound /\ InPhase /\ Books /\ Credit => Steady
  BY DEF Steady
<1> QED
  BY <1>1, <1>2, <1>3, Soundness, PTL DEF Spec

(* The firmware's EP0 machine meets no completion that it does not expect: *)
(* the host starts no transaction before the handler is done with the last *)
(* one, and leaves a transfer only when the firmware has left it.          *)
THEOREM InStep ==
  ASSUME Outlasts
  PROVE  Spec => []ProtocolInStep
<1>1. Steady => ProtocolInStep
  BY DEF Steady, InPhase
<1> QED
  BY <1>1, Steadiness, PTL

(* A client that reads `ok' for a request without an answer knows that the *)
(* firmware has carried it out, as often as it was answered: the host      *)
(* finishes it on the status packet, which the firmware sends afterwards.  *)
THEOREM Performed ==
  ASSUME Outlasts
  PROVE  Spec => []OkMeansPerformed
<1>1. Steady => OkMeansPerformed
  BY DEF Steady, Credit, OkMeansPerformed
<1> QED
  BY <1>1, Steadiness, PTL

(* A step of the host and the firmware is a step of the control pipe: a    *)
(* request is added at the end, or the first that is open is answered with *)
(* what the firmware has for it, or nothing of this changes.               *)
LEMMA PipeStep ==
  ASSUME Outlasts, Steady, [Next]_vars
  PROVE  [Pipe!Next]_(Pipe!pipeVars)
<1>0. /\ Sound /\ InPhase /\ Books
      /\ submitted \in Seq(Requests) /\ answers \in Seq(Verdicts) /\ queue \in Seq(Requests)
      /\ None \notin Requests
  BY RequestAssumption DEF Steady, Sound, Types, TypeOK, MoreTypes, None
<1>1. CASE UNCHANGED <<submitted, queue, cur, answers>>
  BY <1>1 DEF Pipe!pipeVars
<1>2. ASSUME NEW t \in Seq(Requests), submitted' = submitted \o t, UNCHANGED answers
      PROVE  [Pipe!Next]_(Pipe!pipeVars)
  <2>1. CASE t = <<>>
    <3>1. submitted' = submitted
      BY <1>0, <1>2, <2>1, ConcatEmptySeq
    <3> QED
      BY <1>2, <3>1 DEF Pipe!pipeVars
  <2>2. CASE t # <<>>
    <3>1. /\ Len(submitted') = Len(submitted) + Len(t)
          /\ Len(submitted) \in Nat /\ Len(t) \in Nat /\ Len(t) > 0
      BY <1>0, <1>2, <2>2, ConcatProperties
    <3>2. SubSeq(submitted \o t, 1, Len(submitted)) = submitted
      <4>1. CASE Len(submitted) = 0
        BY <1>0, <4>1
      <4>2. CASE Len(submitted) > 0
        <5>1. 1 \in 1 .. Len(submitted) /\ Len(submitted) \in 1 .. Len(submitted)
          BY <3>1, <4>2
        <5>2. SubSeq(submitted \o t, 1, Len(submitted))
                = SubSeq(submitted, 1, Len(submitted))
          BY <1>0, <1>2, <5>1, SubSeqOfConcat1, Zenon
        <5> QED
          BY <1>0, <5>2, SubSeqFull
      <4> QED
        BY <3>1, <4>1, <4>2
    <3>3. Pipe!Submit
      BY <1>2, <3>1, <3>2 DEF Pipe!Submit
    <3> QED
      BY <3>3 DEF Pipe!Next
  <2> QED
    BY <2>1, <2>2
<1>3. CASE UNCHANGED <<submitted, answers>>
  BY <1>3 DEF Pipe!pipeVars
<1>4. CASE Answers
  <2>1. cur \in Requests /\ submitted' = submitted
    BY <1>4 DEF Answers
  <2>2. PICK a \in Pipe!Truths(cur) \cup Pipe!GaveUp(cur) : answers' = Append(answers, a)
    BY <1>4 DEF Answers
  <2>3. submitted[Len(answers) + 1] = cur /\ Busy = 1
    BY <1>0, <2>1 DEF Books, Busy
  <2>4. Len(answers) < Len(submitted)
    <3>1. Len(answers) \in Nat /\ Len(queue) \in Nat /\ Len(submitted) \in Nat
      BY <1>0
    <3>2. Len(submitted) = Len(answers) + 1 + Len(queue)
      BY <1>0, <2>3 DEF Books
    <3> QED
      BY <3>1, <3>2
  <2>5. Pipe!Answer
    BY <2>1, <2>2, <2>3, <2>4, Zenon DEF Pipe!Answer
  <2> QED
    BY <2>5 DEF Pipe!Next
<1> QED
  BY <1>0, <1>1, <1>2, <1>3, <1>4, StepBooks

(* The host is a control pipe at every step: its answers are those of the  *)
(* requests submitted, in their order, one for each, with the bytes that   *)
(* the firmware has for them, a stall where it refuses them, and a stall   *)
(* for the first when the host gives it up.  That every request is         *)
(* answered in the end is left to the runs (IsControlPipe).                *)
THEOREM PipeSteps ==
  ASSUME Outlasts
  PROVE  Spec => Pipe!Init /\ [][Pipe!Next]_(Pipe!pipeVars)
<1>1. Init => Pipe!Init
  BY DEF Init, Pipe!Init
<1>2. Steady /\ [Next]_vars => [Pipe!Next]_(Pipe!pipeVars)
  BY PipeStep
<1> QED
  BY <1>1, <1>2, Steadiness, PTL DEF Spec

=============================================================================

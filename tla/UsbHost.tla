------------------------------ MODULE UsbHost ------------------------------
(***************************************************************************)
(* The modelled USB host (peripheral_models/usb_host.py): bus reset,       *)
(* enumeration and control transfers, one transaction per step, against    *)
(* the device registers of UsbDevice and the firmware behind them.         *)
(*                                                                         *)
(* EXTERNAL: the firmware, ChibiOS' USB driver as the host's comments      *)
(* describe it.  It opens EP0 (perhaps before the D+ pull-up, and again on *)
(* a bus reset), its interrupt handler acknowledges RESET and then serves  *)
(* ISTR's endpoint while one has a CTR flag, and between acknowledging an  *)
(* event and finishing its callback it may read the system time, so the    *)
(* host can be stepped there too.                                          *)
(***************************************************************************)
EXTENDS UsbDevice, FiniteSets

CONSTANTS
    Requests,         \* control transfers, told apart by their tag
    Want(_),          \* wLength of a transfer with an IN data stage, else 0
    HasOut(_),        \* has it an OUT data stage?
    Size(_),          \* length of what the firmware has for it
    Supported,        \* the requests the firmware answers
    SetCfg,           \* SET_CONFIGURATION, which opens the IN endpoints
    Script,           \* the enumeration script
    MaxPacket,        \* MAX_PACKET0
    StallPatience,    \* STALL_PATIENCE
    StepPatience,     \* STEP_PATIENCE
    MaxSubmitted,     \* bound: transfers queued when a client adds one
    MaxReports,       \* bound: reports the firmware publishes
    ResetLatency,     \* assumption: host steps a RESET may wait for its
                      \* handler,
    CtrLatency        \* and host steps an event of EP0 may

ASSUME PacketAssumption == MaxPacket \in Nat \ {0}
ASSUME PatienceAssumption ==
    StallPatience \in Nat \ {0} /\ StepPatience \in Nat \ {0}
(* What the firmware sends back is not empty.                              *)
ASSUME RequestAssumption ==
    /\ Supported \subseteq Requests /\ Script \in Seq(Requests)
    /\ SetCfg \in Requests /\ "none" \notin Requests
    /\ \A r \in Requests : Want(r) \in Nat /\ Size(r) \in Nat /\ HasOut(r) \in BOOLEAN
    /\ \A r \in Supported : Want(r) > 0 => Size(r) > 0
ASSUME LatencyAssumption == ResetLatency \in Nat /\ CtrLatency \in Nat

VARIABLES
    (* UsbHost *)
    state, queue, cur, data, stageSteps, stallSeen,
    submitted,        \* history: every transfer ever queued
    answers,          \* the RESP lines of the backlog
    reports,          \* the IN lines of the backlog
    (* the firmware *)
    ep0state,         \* what its EP0 machine expects next
    serving,          \* the event whose callback is running
    setupReq,         \* the request of the last SETUP it read
    sent,             \* bytes of the reply handed to the peripheral so far
    performed,        \* how often it has carried out each request
    published,        \* reports it has published
    waited            \* host steps taken while an event was waiting for it

hostVars == <<state, queue, cur, data, stageSteps, stallSeen>>
logVars == <<submitted, answers, reports>>
fwVars == <<ep0state, serving, setupReq, sent, performed, published>>
vars == <<devVars, hostVars, logVars, fwVars, waited>>

None == "none"

Smaller(a, b) == IF a <= b THEN a ELSE b

(* Bytes from + 1 .. to of what the firmware has for request r.            *)
Bytes(r, from, to) == [i \in 1 .. to - from |-> <<r, from + i>>]
ReplySize(r) == Smaller(Size(r), Want(r))
Reply(r) == Bytes(r, 0, ReplySize(r))
Performable(r) == Want(r) = 0

TypeOK ==
    /\ DevTypeOK
    /\ state \in {"wait_attach", "reset", "wait_ep0", "advance", "data_in",
                  "data_out", "status_out", "status_in", "idle"}
    /\ queue \in Seq(Requests) /\ cur \in Requests \cup {None}
    /\ stageSteps \in 0 .. StepPatience /\ stallSeen \in 0 .. StallPatience - 1
    /\ (cur = None) = (state \in {"wait_attach", "reset", "wait_ep0", "advance",
                                  "idle"})
    /\ ep0state \in {"setup", "tx", "txzlp", "waitsts", "rx", "sendsts", "error"}
    /\ serving \in {None, "reset", "setup", "out", "in"}
    /\ setupReq \in Requests \cup {None} /\ sent \in Nat
    /\ performed \in [Requests -> Nat]

Init ==
    /\ DevInit
    /\ state = "wait_attach" /\ queue = <<>> /\ cur = None /\ data = <<>>
    /\ stageSteps = 0 /\ stallSeen = 0
    /\ submitted = <<>> /\ answers = <<>> /\ reports = [ep \in InEps |-> <<>>]
    /\ ep0state = "setup" /\ serving = None /\ setupReq = None /\ sent = 0
    /\ performed = [r \in Requests |-> 0]
    /\ published = [ep \in InEps |-> 0] /\ waited = 0

-----------------------------------------------------------------------------
(* The host's step *)

(* Mutant: only an unserviced OUT holds the host back. *)
BusyRxOnly(ep) == epr[ep].ctrRx

(* The device still owes its handler a pass on this endpoint.              *)
EpBusy(ep) == epr[ep].ctrRx \/ epr[ep].ctrTx

(* _give and _take: the packet, then the CTR flag.                         *)
Give(packet, isSetup) ==
    /\ rxBuf' = packet
    /\ epr' = [epr EXCEPT ![0] = RaiseCtrRx(@, isSetup)]
Take(ep) == epr' = [epr EXCEPT ![ep] = RaiseCtrTx(@)] /\ UNCHANGED rxBuf
Untouched == UNCHANGED <<epr, rxBuf>>

(* _finish; with no current transfer nothing is answered.                  *)
Finish(stalled) ==
    /\ cur' = None /\ data' = <<>> /\ stageSteps' = 0 /\ stallSeen' = 0
    /\ state' = IF queue = <<>> THEN "idle" ELSE "advance"
    /\ answers' =
         IF cur = None THEN answers
         ELSE Append(answers, [verdict |-> IF stalled THEN "stall" ELSE "ok",
                               data |-> data])
    /\ UNCHANGED queue

(* _stalled: STALL in the direction of the stage, seen often enough in a   *)
(* row, is believed.                                                       *)
Stalls(out) == (IF out THEN epr[0].statRx ELSE epr[0].statTx) = STALL
SeenAfter(out) == IF Stalls(out) THEN stallSeen + 1 ELSE 0

(* Mutant: believed one observation late. *)
StallLate(out) == SeenAfter(out) > StallPatience

StallBelieved(out) == SeenAfter(out) >= StallPatience

(* _tick_patience: wait for the device, or abandon the transfer.           *)
TickPatience(seen) ==
    /\ Untouched
    /\ IF stageSteps + 1 > StepPatience
       THEN Finish(TRUE)
       ELSE /\ stageSteps' = stageSteps + 1 /\ stallSeen' = seen
            /\ UNCHANGED <<state, queue, cur, data, answers>>

(* A report on an interrupt endpoint comes before everything else.         *)
ReadyIn == {ep \in InEps : ~EpBusy(ep) /\ epr[ep].statTx = VALID}
PollsIn == state \notin {"wait_attach", "reset", "wait_ep0"} /\ ReadyIn # {}

TakeReport ==
    /\ PollsIn
    /\ LET ep == CHOOSE e \in ReadyIn : \A other \in ReadyIn : e <= other
       IN  Take(ep) /\ reports' = [reports EXCEPT ![ep] = Append(@, txBuf[ep])]
    /\ UNCHANGED <<hostVars, answers, submitted, resetEvent>>

Attach ==
    /\ state = "wait_attach"
    /\ state' = IF attached /\ enabled THEN "reset" ELSE state
    /\ UNCHANGED <<queue, cur, data, stageSteps, stallSeen, logVars, epr, rxBuf,
                   resetEvent>>

DriveReset ==
    /\ state = "reset"
    /\ state' = "wait_ep0" /\ resetEvent' = TRUE
    /\ UNCHANGED <<queue, cur, data, stageSteps, stallSeen, logVars, epr, rxBuf>>

(* Mutant: the type and address of EP0R are taken for an open endpoint. *)
TypedEp0 == ~EpBusy(0) /\ epr[0] # EprZero

(* EP0 is open: addressed, and with a buffer descriptor.                   *)
OpenEp0 == ~EpBusy(0) /\ epr[0] # EprZero /\ daddrEnabled /\ described

WaitEp0 ==
    /\ state = "wait_ep0"
    /\ IF OpenEp0
       THEN /\ state' = "advance"
            /\ queue' = queue \o Script /\ submitted' = submitted \o Script
       ELSE UNCHANGED <<state, queue, submitted>>
    /\ UNCHANGED <<cur, data, stageSteps, stallSeen, answers, reports, epr,
                   rxBuf, resetEvent>>

FirstStage(r) ==
    IF Want(r) > 0 THEN "data_in" ELSE IF HasOut(r) THEN "data_out" ELSE "status_in"

(* _start_next: a SETUP cannot be NAKed, only the CTR flags hold it back.  *)
StartNext ==
    IF queue = <<>>
    THEN /\ state' = "idle" /\ Untouched
         /\ UNCHANGED <<queue, cur, data, stageSteps, stallSeen, answers>>
    ELSE /\ cur' = Head(queue) /\ queue' = Tail(queue)
         /\ state' = FirstStage(Head(queue))
         /\ data' = <<>> /\ stageSteps' = 0 /\ stallSeen' = 0
         /\ Give(Head(queue), TRUE)
         /\ UNCHANGED answers

Advance ==
    /\ state = "advance"
    /\ IF EpBusy(0) THEN TickPatience(stallSeen) ELSE StartNext
    /\ UNCHANGED <<submitted, reports, resetEvent>>

(* A stage of the current transfer: a believed STALL ends it, an endpoint  *)
(* that is not ready is waited for.                                        *)
Waits(out, ready) ==
    \/ StallBelieved(out) /\ Untouched /\ Finish(TRUE)
    \/ ~StallBelieved(out) /\ ~ready /\ TickPatience(SeenAfter(out))

(* Mutant: an endpoint that is not busy has something to send. *)
NotBusy == ~EpBusy(0)

ReadyTx == ~EpBusy(0) /\ epr[0].statTx = VALID
ReadyRx == ~EpBusy(0) /\ epr[0].statRx = VALID

(* Mutant: only the byte count ends the data stage. *)
CountOnly(packet) == Len(data) + Len(packet) >= Want(cur)

(* A short packet, or enough bytes, ends the data stage.                   *)
LastPacket(packet) ==
    Len(packet) < MaxPacket \/ Len(data) + Len(packet) >= Want(cur)

DataIn ==
    /\ state = "data_in"
    /\ \/ Waits(FALSE, ReadyTx)
       \/ /\ ReadyTx /\ Take(0)
          /\ data' = data \o txBuf[0]
          /\ state' = IF LastPacket(txBuf[0]) THEN "status_out" ELSE state
          /\ stageSteps' = 0 /\ stallSeen' = 0
          /\ UNCHANGED <<queue, cur, answers>>
    /\ UNCHANGED <<submitted, reports, resetEvent>>

(* The whole OUT data goes in one packet.                                  *)
DataOut ==
    /\ state = "data_out"
    /\ \/ Waits(TRUE, ReadyRx)
       \/ /\ ReadyRx /\ Give(cur, FALSE)
          /\ state' = "status_in" /\ stageSteps' = 0 /\ stallSeen' = 0
          /\ UNCHANGED <<queue, cur, data, answers>>
    /\ UNCHANGED <<submitted, reports, resetEvent>>

StatusOut ==
    /\ state = "status_out"
    /\ \/ Waits(TRUE, ReadyRx)
       \/ ReadyRx /\ Give(None, FALSE) /\ Finish(FALSE)
    /\ UNCHANGED <<submitted, reports, resetEvent>>

StatusIn ==
    /\ state = "status_in"
    /\ \/ Waits(FALSE, ReadyTx)
       \/ ReadyTx /\ Take(0) /\ Finish(FALSE)
    /\ UNCHANGED <<submitted, reports, resetEvent>>

Idle ==
    /\ state = "idle"
    /\ state' = IF queue = <<>> THEN state ELSE "advance"
    /\ UNCHANGED <<queue, cur, data, stageSteps, stallSeen, logVars, epr, rxBuf,
                   resetEvent>>

ControlStep ==
    \/ Attach \/ DriveReset \/ WaitEp0 \/ Advance
    \/ DataIn \/ DataOut \/ StatusOut \/ StatusIn \/ Idle

(* An event the firmware's handler has not finished with.                  *)
Unserved == resetEvent \/ EpBusy(0) \/ serving # None
Latency == IF resetEvent \/ serving = "reset" THEN ResetLatency ELSE CtrLatency

(* step, called by the pump once the transceiver is enabled.               *)
HostStep ==
    /\ enabled
    /\ Unserved => waited < Latency
    /\ waited' = IF Unserved THEN waited + 1 ELSE 0
    /\ TakeReport \/ (~PollsIn /\ ControlStep)
    /\ UNCHANGED <<enabled, attached, daddrEnabled, described, txBuf, fwVars>>

(* request, from a thread of the bridge.                                   *)
Submit ==
    /\ Len(submitted) < MaxSubmitted
    /\ \E r \in Requests :
         queue' = Append(queue, r) /\ submitted' = Append(submitted, r)
    /\ UNCHANGED <<devVars, state, cur, data, stageSteps, stallSeen, answers,
                   reports, fwVars, waited>>

-----------------------------------------------------------------------------
(* The firmware *)

(* usbStart, with or without EP0 opened at once.                           *)
FwStart ==
    /\ ~enabled /\ enabled' = TRUE
    /\ \E open \in BOOLEAN :
         IF open
         THEN /\ epr' = [epr EXCEPT ![0] = Opened(@)]
              /\ daddrEnabled' = TRUE /\ described' = TRUE
         ELSE UNCHANGED <<epr, daddrEnabled, described>>
    /\ UNCHANGED <<resetEvent, attached, txBuf, rxBuf, hostVars, logVars, fwVars,
                   waited>>

FwAttach ==
    /\ enabled /\ ~attached /\ attached' = TRUE
    /\ UNCHANGED <<epr, resetEvent, enabled, daddrEnabled, described, txBuf,
                   rxBuf, hostVars, logVars, fwVars, waited>>

(* The handler takes RESET first: EP0 is opened again, the endpoints of a  *)
(* configuration are closed...                                             *)
FwReset ==
    /\ enabled /\ serving = None /\ resetEvent
    /\ resetEvent' = FALSE /\ serving' = "reset" /\ ep0state' = "setup"
    /\ epr' = [ep \in Ep |-> IF ep = 0 THEN Opened(epr[0]) ELSE EprZero]
    /\ daddrEnabled' = TRUE
    /\ UNCHANGED <<enabled, attached, described, txBuf, rxBuf, hostVars, logVars,
                   setupReq, sent, performed, published, waited>>

(* ... and only then is its buffer descriptor written.                     *)
FwDescribe ==
    /\ serving = "reset" /\ serving' = None /\ described' = TRUE
    /\ UNCHANGED <<epr, resetEvent, enabled, attached, daddrEnabled, txBuf, rxBuf,
                   hostVars, logVars, ep0state, setupReq, sent, performed,
                   published, waited>>

Serves == enabled /\ serving = None /\ ~resetEvent /\ CtrEps # {}

(* while (ISTR & CTR): a received packet is read and acknowledged...       *)
FwReceive ==
    /\ Serves /\ IstrEp = 0 /\ IstrDirRx
    /\ IF epr[0].setup
       THEN serving' = "setup" /\ setupReq' = rxBuf
       ELSE serving' = "out" /\ UNCHANGED setupReq
    /\ epr' = [epr EXCEPT ![0] = ClearCtrRx(@)]
    /\ UNCHANGED <<resetEvent, enabled, attached, daddrEnabled, described, txBuf,
                   rxBuf, hostVars, logVars, ep0state, sent, performed,
                   published, waited>>

Chunk(from) == Bytes(setupReq, from, Smaller(from + MaxPacket, ReplySize(setupReq)))

(* ... a transmitted one is followed by the next packet of the transfer,   *)
(* or, at its end, by the endpoint's callback.                             *)
FwTransmitted ==
    /\ Serves /\ IstrEp = 0 /\ ~IstrDirRx
    /\ IF ep0state = "tx" /\ sent < ReplySize(setupReq)
       THEN /\ epr' = [epr EXCEPT ![0] = SetStatTx(ClearCtrTx(@), VALID)]
            /\ txBuf' = [txBuf EXCEPT ![0] = Chunk(sent)]
            /\ sent' = sent + Len(Chunk(sent)) /\ UNCHANGED serving
       ELSE /\ epr' = [epr EXCEPT ![0] = ClearCtrTx(@)]
            /\ serving' = "in" /\ UNCHANGED <<txBuf, sent>>
    /\ UNCHANGED <<resetEvent, enabled, attached, daddrEnabled, described, rxBuf,
                   hostVars, logVars, ep0state, setupReq, performed, published,
                   waited>>

(* A report went out: the endpoint is free again.                          *)
FwReported ==
    /\ Serves /\ IstrEp # 0
    /\ epr' = [epr EXCEPT ![IstrEp] = ClearCtrTx(@)]
    /\ UNCHANGED <<resetEvent, enabled, attached, daddrEnabled, described, txBuf,
                   rxBuf, hostVars, logVars, fwVars, waited>>

(* What the EP0 callbacks do: start a transmission, a reception, refuse.   *)
Transmit(packet, next) ==
    /\ txBuf' = [txBuf EXCEPT ![0] = packet]
    /\ epr' = [epr EXCEPT ![0] = SetStatTx(@, VALID)]
    /\ ep0state' = next
Receive(next) ==
    /\ epr' = [epr EXCEPT ![0] = SetStatRx(@, VALID)]
    /\ ep0state' = next /\ UNCHANGED txBuf
Refuse ==
    /\ epr' = [epr EXCEPT ![0] = SetStatRx(SetStatTx(@, STALL), STALL)]
    /\ ep0state' = "error" /\ UNCHANGED txBuf
EndsCallback ==
    /\ serving' = None
    /\ UNCHANGED <<resetEvent, enabled, attached, daddrEnabled, described, rxBuf,
                   hostVars, logVars, setupReq, published, waited>>

FwSetup ==
    /\ serving = "setup" /\ EndsCallback
    /\ \/ setupReq \notin Supported /\ Refuse /\ UNCHANGED <<sent, performed>>
       \/ /\ setupReq \in Supported /\ Want(setupReq) > 0
          /\ Transmit(Chunk(0), "tx") /\ sent' = Len(Chunk(0))
          /\ UNCHANGED performed
       \/ /\ setupReq \in Supported /\ Want(setupReq) = 0 /\ HasOut(setupReq)
          /\ Receive("rx") /\ UNCHANGED <<sent, performed>>
       \/ /\ setupReq \in Supported /\ Want(setupReq) = 0 /\ ~HasOut(setupReq)
          /\ Transmit(<<>>, "sendsts")
          /\ performed' = [performed EXCEPT ![setupReq] = @ + 1]
          /\ UNCHANGED sent

(* A reply that fills its last packet without reaching wLength is ended by *)
(* an empty one.                                                           *)
NeedsEmptyPacket ==
    /\ ReplySize(setupReq) < Want(setupReq)
    /\ ReplySize(setupReq) % MaxPacket = 0

FwIn ==
    /\ serving = "in" /\ EndsCallback
    /\ \/ ep0state = "tx" /\ NeedsEmptyPacket /\ Transmit(<<>>, "txzlp")
       \/ ep0state = "tx" /\ ~NeedsEmptyPacket /\ Receive("waitsts")
       \/ ep0state = "txzlp" /\ Receive("waitsts")
       \/ ep0state = "sendsts" /\ ep0state' = "setup" /\ UNCHANGED <<epr, txBuf>>
       \/ ep0state \in {"setup", "waitsts", "rx", "error"} /\ Refuse
    /\ UNCHANGED <<sent, performed>>

FwOut ==
    /\ serving = "out" /\ EndsCallback
    /\ IF ep0state = "waitsts" THEN ep0state' = "setup" /\ UNCHANGED <<epr, txBuf>>
       ELSE IF ep0state = "rx" THEN Transmit(<<>>, "sendsts") ELSE Refuse
    /\ performed' = [performed EXCEPT ![setupReq] = IF ep0state = "rx" THEN @ + 1 ELSE @]
    /\ UNCHANGED sent

(* The configured firmware publishes a report on an endpoint that is free. *)
FwPublish ==
    /\ performed[SetCfg] > 0
    /\ \E ep \in InEps :
         /\ ~EpBusy(ep) /\ epr[ep].statTx # VALID /\ published[ep] < MaxReports
         /\ published' = [published EXCEPT ![ep] = @ + 1]
         /\ txBuf' = [txBuf EXCEPT ![ep] = <<published[ep] + 1>>]
         /\ epr' = [epr EXCEPT ![ep] = SetStatTx(@, VALID)]
    /\ UNCHANGED <<resetEvent, enabled, attached, daddrEnabled, described, rxBuf,
                   hostVars, logVars, ep0state, serving, setupReq, sent,
                   performed, waited>>

Firmware ==
    \/ FwStart \/ FwAttach \/ FwReset \/ FwDescribe \/ FwReceive
    \/ FwTransmitted \/ FwReported \/ FwSetup \/ FwIn \/ FwOut

Next == HostStep \/ Submit \/ Firmware \/ FwPublish

Spec == Init /\ [][Next]_vars

(* The pump is called again and again, and the firmware's start-up and its *)
(* interrupt handler run to their end.                                     *)
FairSpec == Spec /\ WF_vars(HostStep) /\ WF_vars(Firmware)

-----------------------------------------------------------------------------
(* Properties *)

(* The host never leaves EP0 with both a completed IN and a completed      *)
(* OUT or SETUP: the handler would serve the later one first               *)
(* (usb_host.py, "one transaction per step").                              *)
NeverBothCtr == ~(epr[0].ctrRx /\ epr[0].ctrTx)

(* The firmware's EP0 machine never meets a completion it does not expect; *)
(* it refuses only the requests it does not know.                          *)
ProtocolInStep ==
    ep0state = "error" /\ serving # "setup" => setupReq \notin Supported

(* No packet is given before EP0 has its address and its buffer: the eight *)
(* bytes would land at offset 0 of the packet memory                       *)
(* (UsbHost.step, wait_ep0).                                               *)
GivenIntoBuffer == epr[0].ctrRx => described /\ daddrEnabled

(* The reports of an endpoint reach the bridge in the order in which the   *)
(* firmware published them, none missing, none twice.                      *)
ReportsInOrder ==
    \A ep \in InEps :
        /\ \A i \in DOMAIN reports[ep] : reports[ep][i] = <<i>>
        /\ Len(reports[ep]) <= published[ep]

(* `ok' of a request that sends nothing back means that the firmware has   *)
(* carried it out, as often as it was answered.                            *)
Answered(r) == {i \in DOMAIN answers : submitted[i] = r /\ answers[i].verdict = "ok"}
OkMeansPerformed ==
    \A r \in Requests :
        Performable(r) => Cardinality(Answered(r)) <= performed[r]

(* The host is a control pipe: every transfer queued is answered once, in *)
(* order, truthfully, and in the end.  Its patience ends only with the     *)
(* first transfer, whose SETUP the firmware loses when the bus reset is    *)
(* still pending at an EP0 that was opened before it.                      *)
FirstGivenUp == answers = <<>> /\ stageSteps = StepPatience
Pipe == INSTANCE ControlPipe WITH Expected <- Reply, mayGiveUp <- FirstGivenUp
IsControlPipe == Pipe!Spec
=============================================================================

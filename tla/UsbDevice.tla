----------------------------- MODULE UsbDevice -----------------------------
(***************************************************************************)
(* The USB device peripheral as the firmware and the modelled host see it  *)
(* (peripheral_models/stm32f0_usb.py): endpoint registers whose bits are   *)
(* toggled, cleared by writing zero or read-only, an ISTR derived from     *)
(* them, and the buffers of the packet memory.  A register is a record of  *)
(* its fields; DTOG, which neither side of the model reads, is left out,   *)
(* and so is the byte layout of the packet memory: a buffer holds a        *)
(* packet.                                                                 *)
(***************************************************************************)
EXTENDS Integers, Sequences

CONSTANTS
    InEps             \* the interrupt IN endpoints (1, 2 and 3 in the code)

ASSUME InEpsAssumption == InEps \subseteq Nat \ {0}

VARIABLES
    epr,              \* Stm32F0UsbRegs.epr
    resetEvent,       \* events: ISTR.RESET
    enabled,          \* the transceiver is powered and out of reset
    attached,         \* BCDR.DPPU
    daddrEnabled,     \* DADDR.EF
    described,        \* BTABLE[0] has ADDR_RX and a receive block size
    txBuf,            \* per endpoint, the packet at ADDR_TX
    rxBuf             \* the packet at EP0's ADDR_RX

devVars == <<epr, resetEvent, enabled, attached, daddrEnabled, described,
             txBuf, rxBuf>>

Ep == {0} \cup InEps

DISABLED == 0
STALL == 1
NAK == 2
VALID == 3

(* The fields of EPnR; `rw' says whether the type and address are set.     *)
Epr == [ctrRx : BOOLEAN, ctrTx : BOOLEAN, setup : BOOLEAN,
        statRx : 0 .. 3, statTx : 0 .. 3, rw : BOOLEAN]

EprZero == [ctrRx |-> FALSE, ctrTx |-> FALSE, setup |-> FALSE,
            statRx |-> DISABLED, statTx |-> DISABLED, rw |-> FALSE]

(* Exclusive or of two 2-bit fields. *)
Toggle(a, b) == ((a + b) % 2) + 2 * ((a \div 2 + b \div 2) % 2)

(* A CPU write of v: STAT toggles, CTR is cleared by a zero, SETUP is      *)
(* read-only, the rest is stored.                                          *)
EprWrite(cur, v) ==
    [ctrRx |-> cur.ctrRx /\ v.ctrRx, ctrTx |-> cur.ctrTx /\ v.ctrTx,
     setup |-> cur.setup,
     statRx |-> Toggle(cur.statRx, v.statRx),
     statTx |-> Toggle(cur.statTx, v.statTx), rw |-> v.rw]

(* A packet has arrived, and the endpoint NAKs until it is re-armed.       *)
RaiseCtrRx(e, isSetup) ==
    [e EXCEPT !.ctrRx = TRUE, !.setup = isSetup, !.statRx = NAK]

(* Mutant: a transmitted packet leaves the endpoint armed. *)
StaysValid(e) == [e EXCEPT !.ctrTx = TRUE]

RaiseCtrTx(e) == [e EXCEPT !.ctrTx = TRUE, !.statTx = NAK]

(* ISTR: CTR of the lowest endpoint that has one; of its two directions    *)
(* the received packet is named first.                                     *)
CtrEps == {ep \in Ep : epr[ep].ctrRx \/ epr[ep].ctrTx}
IstrEp == CHOOSE ep \in CtrEps : \A other \in CtrEps : ep <= other
IstrDirRx == epr[IstrEp].ctrRx

(* How the firmware's driver writes a register it has read: toggle bits    *)
(* zero unless a STAT field is to become s, CTR bits kept or cleared.      *)
Keep(e) == [e EXCEPT !.statRx = 0, !.statTx = 0]
SetStatRx(e, s) == EprWrite(e, [Keep(e) EXCEPT !.statRx = Toggle(e.statRx, s)])
SetStatTx(e, s) == EprWrite(e, [Keep(e) EXCEPT !.statTx = Toggle(e.statTx, s)])
ClearCtrRx(e) == EprWrite(e, [Keep(e) EXCEPT !.ctrRx = FALSE])
ClearCtrTx(e) == EprWrite(e, [Keep(e) EXCEPT !.ctrTx = FALSE])

(* usb_lld_init_endpoint: EPR = EPR zeroes the toggles, then a plain store *)
(* with both STAT fields at NAK, which also drops a CTR flag.              *)
Opened(e) ==
    EprWrite(EprWrite(e, e),
             [EprZero EXCEPT !.statRx = NAK, !.statTx = NAK, !.rw = TRUE])

DevTypeOK ==
    /\ epr \in [Ep -> Epr]
    /\ resetEvent \in BOOLEAN /\ enabled \in BOOLEAN /\ attached \in BOOLEAN
    /\ daddrEnabled \in BOOLEAN /\ described \in BOOLEAN

DevInit ==
    /\ epr = [ep \in Ep |-> EprZero]
    /\ resetEvent = FALSE /\ enabled = FALSE /\ attached = FALSE
    /\ daddrEnabled = FALSE /\ described = FALSE
    /\ txBuf = [ep \in Ep |-> <<>>] /\ rxBuf = "none"
=============================================================================

----------------------------- MODULE MCUsbHost -----------------------------
(***************************************************************************)
(* UsbHost on a descriptor of three bytes in packets of two, one whose     *)
(* last packet is full and shorter than asked for, a SET_CONFIGURATION, a  *)
(* SET_REPORT, and a refused request of each of the three shapes.          *)
(***************************************************************************)
EXTENDS UsbHost

MCRefused == {"baddesc", "badrep", "badset"}
MCSupported == {"desc", "short", "setcfg", "setrep"}
MCRequests == MCSupported \cup MCRefused
MCWant(r) ==
    IF r \in {"desc", "baddesc"} THEN 3 ELSE IF r = "short" THEN 4 ELSE 0
MCSize(r) == IF r = "desc" THEN 4 ELSE IF r = "short" THEN 2 ELSE 0
MCHasOut(r) == r \in {"setrep", "badrep"}
MCScript == <<"setcfg">>
=============================================================================

---------------------------- MODULE ControlPipe ----------------------------
(***************************************************************************)
(* What the modelled USB host promises the clients of the bridge: every    *)
(* control transfer that is submitted is answered once, in the order of    *)
(* submission; `ok' carries the bytes the firmware has for it, `stall'     *)
(* says that the firmware refuses it.  When its patience is over the host  *)
(* may also answer `stall' to a request it gives up.                       *)
(***************************************************************************)
EXTENDS Integers, Sequences

CONSTANTS Requests, Supported, Expected(_)

VARIABLES
    submitted, answers,
    mayGiveUp         \* an input: is the host's patience over?

pipeVars == <<submitted, answers>>

Truths(r) ==
    IF r \in Supported THEN {[verdict |-> "ok", data |-> Expected(r)]}
                       ELSE {[verdict |-> "stall", data |-> <<>>]}

Init == submitted = <<>> /\ answers = <<>>

GaveUp(r) ==
    IF mayGiveUp
    THEN {[verdict |-> "stall", data |-> SubSeq(Expected(r), 1, n)] :
            n \in 0 .. Len(Expected(r))}
    ELSE {}

(* One request, or the host's whole enumeration script at once.            *)
Submit ==
    /\ Len(submitted') > Len(submitted)
    /\ SubSeq(submitted', 1, Len(submitted)) = submitted
    /\ UNCHANGED answers

Answer ==
    /\ Len(answers) < Len(submitted)
    /\ LET r == submitted[Len(answers) + 1] IN
         \E a \in Truths(r) \cup GaveUp(r) : answers' = Append(answers, a)
    /\ UNCHANGED submitted

Next == Submit \/ Answer

Spec == Init /\ [][Next]_pipeVars /\ WF_pipeVars(Answer)
=============================================================================

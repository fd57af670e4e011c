----------------------------- MODULE FlashStore -----------------------------
(***************************************************************************)
(* What the modelled flash controller promises the firmware's wear-        *)
(* levelling store: an erase that is asked for ends, blanks the page that  *)
(* was named and no other, once, and is put on record exactly if it        *)
(* happened.  An emulator that cannot write its memory fails the erase.    *)
(***************************************************************************)
EXTENDS Sequences

CONSTANTS Pages, NoPage

VARIABLES
  content,   \* "blank" or "written", for each page
  asked,     \* the page whose erase has been asked for
  record     \* the pages erased, in order

storeVars == <<content, asked, record>>

Init ==
  /\ content = [p \in Pages |-> "blank"]
  /\ asked = NoPage /\ record = <<>>

Ask(p) ==
  /\ asked = NoPage /\ asked' = p
  /\ UNCHANGED <<content, record>>

Erase ==
  /\ asked \in Pages
  /\ content' = [content EXCEPT ![asked] = "blank"]
  /\ record' = Append(record, asked)
  /\ asked' = NoPage

Fail ==
  /\ asked \in Pages
  /\ asked' = NoPage
  /\ UNCHANGED <<content, record>>

Program(p) ==
  /\ asked = NoPage
  /\ content' = [content EXCEPT ![p] = "written"]
  /\ UNCHANGED <<asked, record>>

Next ==
  \/ \E p \in Pages : Ask(p) \/ Program(p)
  \/ Erase \/ Fail

Spec == Init /\ [][Next]_storeVars /\ WF_storeVars(Erase \/ Fail)
=============================================================================

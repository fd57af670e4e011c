---------------------------- MODULE MCFuzzSweep ------------------------------
(* The harness and the tool that derives its targets, in one instance: the  *)
(* tool's runs come before a sweep, and none is under way during one.       *)
EXTENDS FuzzSweep, ReachTargets

Deriving ==
  /\ \A e \in Entries : job[e].pc = "queued"
  /\ ReachNext
  /\ UNCHANGED vars

Sweeping == Idle /\ Next /\ UNCHANGED reachVars

MCInit == Init /\ ReachInit

MCSpec == MCInit /\ [][Deriving \/ Sweeping]_<<vars, reachVars>>
=============================================================================

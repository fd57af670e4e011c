------------------------------ MODULE MCBridge ------------------------------
(***************************************************************************)
(* Instances of Bridge: two clients, of which one gives up to two commands *)
(* (one after a misfit is what a reset needs) and one only listens.        *)
(***************************************************************************)
EXTENDS Bridge, TLC

CONSTANTS c1, c2

MCClients == {c1, c2}
MCMaxCommands == c1 :> 2 @@ c2 :> 0
=============================================================================

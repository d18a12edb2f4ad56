--------------------------- MODULE MCCircuitBuild ---------------------------
(* Small instances of CircuitBuild for TLC.                                *)
EXTENDS CircuitBuild, TLC

CONSTANTS c1, c2

\* Two circuits that share two relays and their connections, or one of full length.
MCPlans == {c1 :> 2 @@ c2 :> 2, c1 :> 3 @@ c2 :> 0}
=============================================================================

------------------------------ MODULE MCFanFacts ------------------------------
(* Two refresh jobs of one creator and two devices.                        *)
EXTENDS FanFacts, TLC

CONSTANTS j1, j2, d1, d2

(* The second job has failed before.                                       *)
MCSpent == (j1 :> 0) @@ (j2 :> 1)

Symmetry == Permutations(Devices)
=============================================================================

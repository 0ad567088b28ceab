------------------------------ MODULE MCBilling ------------------------------
(* The instances of Billing that TLC checks.                                   *)
EXTENDS Billing, TLC

MCAmount == [o \in Orders |-> 2]
Symmetry == Permutations(Workers)
=============================================================================

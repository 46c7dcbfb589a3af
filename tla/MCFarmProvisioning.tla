-------------------------- MODULE MCFarmProvisioning --------------------------
(* Instances of FarmProvisioning small enough for TLC.                     *)
EXTENDS FarmProvisioning, TLC

MCSymmetry == Permutations(Players) \cup Permutations(Fields) \cup Permutations(Calls)
===============================================================================

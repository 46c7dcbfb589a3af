---------------------------- MODULE MCActivityIntake ----------------------------
(* Instances of ActivityIntake small enough for TLC: one player.           *)
EXTENDS ActivityIntake

MCOwner == [s \in Sessions |-> CHOOSE p \in Players : TRUE]
===============================================================================

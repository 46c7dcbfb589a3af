----------------------------- MODULE VehicleCustody -----------------------------
(***************************************************************************)
(* What the virtual garage promises about one vehicle: it is handed from   *)
(* the world to the garage and back, is never in the world while the       *)
(* garage holds it, never leaves the world's custody but for one copy, and *)
(* once its whereabouts are uncertain it stays under review.               *)
(***************************************************************************)
EXTENDS Naturals

VARIABLES
  custody,   \* "world", "leaving", "garage", "returning" or "review"
  copies     \* usable copies of the vehicle in the running game

Init == custody = "world" /\ copies = 1

(* Storing begins; it is given up only while the vehicle is still there, *)
(* and completes only when it is gone.                                   *)
Leave   == custody = "world" /\ custody' = "leaving" /\ copies' = copies
Remain  == custody = "leaving" /\ copies = 1 /\ custody' = "world" /\ copies' = copies
Enter   == custody = "leaving" /\ copies = 0 /\ custody' = "garage" /\ copies' = copies

(* Restoring begins; it is given up only while there is no vehicle, and *)
(* completes only when there is exactly one.                            *)
Release == custody = "garage" /\ custody' = "returning" /\ copies' = copies
Retain  == custody = "returning" /\ copies = 0 /\ custody' = "garage" /\ copies' = copies
Return  == custody = "returning" /\ copies = 1 /\ custody' = "world" /\ copies' = copies

Doubt   == custody \in {"leaving", "returning"} /\ custody' = "review" /\ copies' = copies

(* The game removes, loads or (restarting from its save) reverts. *)
Move    == custody \in {"leaving", "returning", "review"} /\ copies' \in {0, 1} /\ custody' = custody

Next == Leave \/ Remain \/ Enter \/ Release \/ Retain \/ Return \/ Doubt \/ Move
Spec == Init /\ [][Next]_<<custody, copies>>
=============================================================================

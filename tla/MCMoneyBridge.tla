----------------------------- MODULE MCMoneyBridge -----------------------------
(* Instances of MoneyBridge small enough for TLC: one player with a        *)
(* withdrawal w and a deposit d, or with a second withdrawal v like w that *)
(* competes with it for the wallet.                                        *)
EXTENDS MoneyBridge, TLC

CONSTANTS w, v, d, alice

MCKind == [r \in Requests |-> IF r = d THEN "deposit_funds" ELSE "withdraw_funds"]
MCUser == [r \in Requests |-> alice]
MCAmount == [r \in Requests |-> IF r = d THEN 1 ELSE 2]
MCOpening == [u \in Users |-> 3]
MCSymmetry == Permutations({w, v})
===============================================================================

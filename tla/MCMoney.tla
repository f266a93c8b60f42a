------------------------------ MODULE MCMoney ------------------------------
(* An inventory of two places, one of them taken, and two accounts.         *)
EXTENDS Money, TLC

Bag == <<[unit |-> 9, count |-> 1], Free, [unit |-> 1, count |-> 2]>>
=============================================================================

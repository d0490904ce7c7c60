------------------------------ MODULE MCBilling ------------------------------
(* Instances of Billing for TLC. *)
EXTENDS Billing, TLC

(* Payments, and refund requests, are interchangeable. *)
Symmetry == Permutations(Pay) \cup Permutations(Refund)
=============================================================================

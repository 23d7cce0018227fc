----------------------------- MODULE MCPayments -----------------------------
(* Payments for TLC: requests and users are interchangeable. *)
EXTENDS Payments, TLC

Symmetry == Permutations(Requests) \cup Permutations(Users)
=============================================================================

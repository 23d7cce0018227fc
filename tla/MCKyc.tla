-------------------------------- MODULE MCKyc --------------------------------
(* Kyc for TLC: one user verifies twice, another once. *)
EXTENDS Kyc, TLC

CONSTANTS u1, u2, k1, k2, k3

MCUsers == {u1, u2}
MCKeys == {k1, k2, k3}
MCKeyOwner == (k1 :> u1) @@ (k2 :> u1) @@ (k3 :> u2)

Symmetry == Permutations(Requests) \cup Permutations({k1, k2})
=============================================================================

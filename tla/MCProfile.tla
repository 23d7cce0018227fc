------------------------------ MODULE MCProfile ------------------------------
(* Profile for TLC: requests, users and values are interchangeable. *)
EXTENDS Profile, TLC

Symmetry ==
  Permutations(Requests) \cup Permutations(Users) \cup Permutations(Values)
=============================================================================

----------------------------- MODULE MCPasswords -----------------------------
(* Passwords for TLC: all parties are interchangeable. *)
EXTENDS Passwords, TLC

Symmetry ==
  Permutations(Requests) \cup Permutations(Users) \cup
  Permutations(Secrets) \cup Permutations(Phones)
=============================================================================

----------------------------- MODULE MCRateCache -----------------------------
(* RateCache for TLC: requests are interchangeable, and so are coins. *)
EXTENDS RateCache, TLC

Symmetry == Permutations(Requests) \cup Permutations(Coins)
=============================================================================

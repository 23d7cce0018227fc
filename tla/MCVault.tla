------------------------------- MODULE MCVault -------------------------------
(* Vault for TLC; bitcoin and ethereum have a symbol, celo has not. *)
EXTENDS Vault, TLC

MCCoins == {"bitcoin", "ethereum", "celo"}
MCSupported == {"bitcoin", "ethereum"}

Symmetry == Permutations(Requests) \cup Permutations(Users)
=============================================================================

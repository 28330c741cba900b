------------------------------ MODULE MCWallet ------------------------------
(* Wallet for TLC: requests and payments are interchangeable.                *)
EXTENDS WalletRefinement, TLC

Symmetry == Permutations(Handlers) \cup Permutations(Keys)
=============================================================================

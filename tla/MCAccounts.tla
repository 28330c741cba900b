----------------------------- MODULE MCAccounts -----------------------------
(* Accounts for TLC: users and slots are interchangeable.                    *)
EXTENDS Accounts, TLC

Symmetry == Permutations(Users) \cup Permutations(Tasks) \cup Permutations(Requests)
=============================================================================

----------------------------- MODULE MCPayments -----------------------------
(* Payments for TLC: the model values' symmetry.  Handlers, users and keys   *)
(* are interchangeable in every action and in every safety property.         *)
EXTENDS PaymentsRefinement, TLC

Symmetry == Permutations(Handlers) \cup Permutations(Users) \cup Permutations(Keys)
=============================================================================

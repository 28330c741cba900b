----------------------------- MODULE MCTerminal -----------------------------
(* Terminal for TLC: the slots of the polls are interchangeable.             *)
EXTENDS Terminal, TLC

Symmetry == Permutations(Slots)
=============================================================================

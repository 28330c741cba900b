----------------------------- MODULE MCPolicies -----------------------------
(* Policies for TLC: devices, requests, payments and connections are         *)
(* interchangeable in every action and property.                             *)
EXTENDS Policies, TLC

Symmetry == Permutations(Devices) \cup Permutations(Requests)
            \cup Permutations(Payments) \cup Permutations(Connections)
=============================================================================

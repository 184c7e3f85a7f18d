----------------------------- MODULE MCAinSupply -----------------------------
(* Instances of AinSupply for TLC. *)
EXTENDS AinSupply

CONSTANTS a1, a2

OneValidator == <<[addr |-> a1, stake |-> 40]>>
=============================================================================

----------------------------- MODULE MCChainSync -----------------------------
(* Instances of ChainSync for TLC. *)
EXTENDS ChainSync

CONSTANTS p, q, f

\* f imports from p, which imports from nobody.
OnePeer == [n \in Nodes |-> IF n = f THEN {p} ELSE {}]

\* q imports from p, and f from both.
TwoPeers == [n \in Nodes |-> IF n = f THEN {p, q} ELSE IF n = q THEN {p} ELSE {}]

\* Batches: q is no validator; f commits fewer than p, or none.
FewerBatches == [n \in Nodes |-> CASE n = p -> 2 [] n = f -> 1 [] n = q -> 0]
OnlyP        == [n \in Nodes |-> IF n = p THEN 2 ELSE 0]
=============================================================================

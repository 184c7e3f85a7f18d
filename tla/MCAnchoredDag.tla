---------------------------- MODULE MCAnchoredDag ----------------------------
(* Instances of AnchoredDag for TLC. *)
EXTENDS AnchoredDag, TLC

CONSTANTS
  MaxTopVertices,   \* bound: vertices signed in the last round
  MaxAnchors        \* bound: anchors committed

Symmetry == Permutations(Validators)

\* AnchorVisible speaks of one anchor and one vertex above it at a time, so a few
\* of each are as good as all.
Few == /\ Cardinality(AtRound(created, MaxRound)) <= MaxTopVertices
       /\ Cardinality(anchors) <= MaxAnchors
=============================================================================

----------------------------- MODULE AnchoredDag -----------------------------
(****************************************************************************)
(* What the DAG consensus promises of the cluster as a whole, whoever holds *)
(* which vertex: validators sign one vertex a round over a quorum of        *)
(* parents of the round before, and an anchor is committed only on the      *)
(* votes of enough vertices of the next round.  No node, message, disk or   *)
(* restart appears here; DagConsensus implements this specification.        *)
(****************************************************************************)
EXTENDS Integers, FiniteSets, BftQuorum

CONSTANTS
  Validators,   \* the active validator set
  MaxRound,     \* bound: no vertex is signed above this round
  MaxCopies     \* bound: distinct vertices one author can sign for one round

ASSUME BoundsAssumption == MaxRound \in Nat /\ MaxCopies \in Nat
ASSUME ValidatorsAssumption == IsFiniteSet(Validators) /\ Validators # {}

N == Cardinality(Validators)

\* A vertex is named by its hash.  Round, author and (for a validator that signs
\* twice) a copy number stand for the hash: different contents, different names.
VertexId == [round : 1..MaxRound, author : Validators, copy : 1..MaxCopies]

VARIABLES
  created,   \* vertices signed so far, by anyone
  par,       \* par[v]: the parents that vertex v names
  anchors    \* vertices that some node has committed as an anchor

absVars == <<created, par, anchors>>

AtRound(S, r) == {v \in S : v.round = r}

\* The vertices of S that vote for a: children of a in the next round.
VotersIn(S, a) == {w \in S : w.round = a.round + 1 /\ a \in par[w]}

TypeOK ==
  /\ created \subseteq VertexId
  /\ par \in [VertexId -> SUBSET created]
  /\ anchors \subseteq created

Init ==
  /\ created = {}
  /\ par = [v \in VertexId |-> {}]
  /\ anchors = {}

\* Seeded fault: the number of parents is not checked.
SignOnAnyParents(v, parents) ==
  /\ \A w \in created : <<w.round, w.author>> # <<v.round, v.author>>
  /\ parents \subseteq AtRound(created, v.round - 1)
  /\ created' = created \cup {v}
  /\ par' = [par EXCEPT ![v] = parents]
  /\ UNCHANGED anchors

\* A validator signs its only vertex of a round.
Sign(v, parents) ==
  /\ \A w \in created : <<w.round, w.author>> # <<v.round, v.author>>
  /\ parents \subseteq AtRound(created, v.round - 1)
  /\ v.round > 1 => Cardinality(parents) >= ParentQuorum(N)
  /\ created' = created \cup {v}
  /\ par' = [par EXCEPT ![v] = parents]
  /\ UNCHANGED anchors

\* Some node commits a as an anchor on the votes of a set of existing vertices.
CommitAnchor(a) ==
  /\ \E votes \in SUBSET VotersIn(created, a) :
       Cardinality(votes) >= CommitThreshold(N)
  /\ anchors' = anchors \cup {a}
  /\ UNCHANGED <<created, par>>

Next ==
  \/ \E v \in VertexId : \E parents \in SUBSET AtRound(created, v.round - 1) : Sign(v, parents)
  \/ \E a \in created : CommitAnchor(a)

Spec == Init /\ [][Next]_absVars

-----------------------------------------------------------------------------
(* Properties *)

\* A committed anchor is a grandparent of every vertex signed two rounds above
\* it, by any validator: a quorum of parents meets the set of voters.  This is
\* what lets a node that commits a later anchor find the earlier one in its
\* history (ordering.rs, try_commit and find_causal_history).
AnchorVisible ==
  \A a \in anchors : \A w \in created :
    w.round = a.round + 2 => \E p \in par[w] : a \in par[p]

\* What AnchorVisible rests on, kept by every step: one vertex a slot, parents of
\* the round below and a quorum of them, and the votes of every anchor.
OneVertexPerSlot ==
  \A v, w \in created : v.round = w.round /\ v.author = w.author => v = w

ParentsBelow == \A v \in created : par[v] \subseteq AtRound(created, v.round - 1)

QuorumOfParents ==
  \A v \in created : v.round > 1 => Cardinality(par[v]) >= ParentQuorum(N)

AnchorsSupported ==
  \A a \in anchors : \E votes \in SUBSET VotersIn(created, a) :
    Cardinality(votes) >= CommitThreshold(N)

DagInv ==
  TypeOK /\ OneVertexPerSlot /\ ParentsBelow /\ QuorumOfParents /\ AnchorsSupported
=============================================================================

-------------------------- MODULE AnchoredDagProofs --------------------------
(****************************************************************************)
(* Proofs about AnchoredDag, for any set of validators and any bounds.      *)
(****************************************************************************)
EXTENDS AnchoredDag, FiniteSetTheorems, TLAPS

-----------------------------------------------------------------------------
(* Quorum arithmetic and counting *)

\* The sizes that dag.rs and ordering.rs ask for add up to more than n, so that
\* two sets of these sizes among n validators meet; n = 2 and n = 3 are the two
\* sizes of the validator set for which they do not.
LEMMA QuorumsExceed ==
  ASSUME NEW n \in Nat, n >= 1, n # 2, n # 3
  PROVE  /\ ParentQuorum(n) \in Nat /\ CommitThreshold(n) \in Nat
         /\ ParentQuorum(n) + CommitThreshold(n) > n
BY DEF ParentQuorum, CommitThreshold, Faults

\* N is a positive number.
LEMMA NIsPositive == N \in Nat /\ N >= 1
<1>1. N \in Nat
  BY ValidatorsAssumption, FS_CardinalityType DEF N
<1>2. N # 0
  BY ValidatorsAssumption, FS_EmptySet DEF N
<1> QED
  BY <1>1, <1>2

\* With one vertex per slot, a round holds at most one vertex per validator.
LEMMA RoundIsSmall ==
  ASSUME TypeOK, OneVertexPerSlot, NEW r
  PROVE  /\ IsFiniteSet(AtRound(created, r))
         /\ Cardinality(AtRound(created, r)) <= N
<1> DEFINE R == AtRound(created, r)
           f == [v \in R |-> v.author]
<1>1. f \in [R -> Validators]
  BY DEF TypeOK, AtRound, VertexId
<1>2. \A v, w \in R : f[v] = f[w] => v = w
  BY DEF OneVertexPerSlot, AtRound
<1>3. f \in Injection(R, Validators)
  BY <1>1, <1>2 DEF Injection, IsInjective
<1> HIDE DEF f, R
<1>4. IsFiniteSet(R) /\ Cardinality(R) <= Cardinality(Validators)
  BY <1>3, FS_Injection, ValidatorsAssumption
<1> QED
  BY <1>4 DEF N, R

-----------------------------------------------------------------------------
(* DagInv is inductive *)

LEMMA DagInvInit == Init => DagInv
BY DEF Init, DagInv, TypeOK, OneVertexPerSlot, ParentsBelow, QuorumOfParents, AnchorsSupported

LEMMA SignStep ==
  ASSUME DagInv, NEW v \in VertexId,
         NEW parents \in SUBSET AtRound(created, v.round - 1), Sign(v, parents)
  PROVE  DagInv'
<1> USE DEF DagInv, Sign
<1>1. v \notin created
  OBVIOUS
<1>2. par' = [par EXCEPT ![v] = parents] /\ par \in [VertexId -> SUBSET created]
      /\ created \subseteq VertexId
  BY DEF TypeOK
<1>3. par'[v] = parents /\ \A w \in created : par'[w] = par[w]
  BY <1>1, <1>2
<1>4. \A r : AtRound(created, r) \subseteq AtRound(created', r)
  BY DEF AtRound
<1>5. TypeOK'
  BY <1>2 DEF TypeOK, AtRound
<1>6. OneVertexPerSlot'
  BY DEF OneVertexPerSlot
<1>7. ParentsBelow'
  BY <1>3, <1>4 DEF ParentsBelow
<1>8. QuorumOfParents'
  BY <1>3 DEF QuorumOfParents
<1>9. AnchorsSupported'
  <2>1. \A a : VotersIn(created, a) \subseteq VotersIn(created, a)'
    BY <1>3 DEF VotersIn
  <2> QED
    BY <2>1 DEF AnchorsSupported
<1> QED
  BY <1>5, <1>6, <1>7, <1>8, <1>9

LEMMA CommitAnchorStep ==
  ASSUME DagInv, NEW a \in created, CommitAnchor(a)
  PROVE  DagInv'
<1> USE DEF DagInv, CommitAnchor
<1>1. TypeOK'
  BY DEF TypeOK
<1>2. OneVertexPerSlot' /\ ParentsBelow' /\ QuorumOfParents'
  BY DEF OneVertexPerSlot, ParentsBelow, QuorumOfParents, AtRound
<1>3. AnchorsSupported'
  BY DEF AnchorsSupported, VotersIn
<1> QED
  BY <1>1, <1>2, <1>3

LEMMA DagInvNext == DagInv /\ [Next]_absVars => DagInv'
<1> SUFFICES ASSUME DagInv, [Next]_absVars PROVE DagInv'
  OBVIOUS
<1>1. CASE \E v \in VertexId : \E parents \in SUBSET AtRound(created, v.round - 1) :
             Sign(v, parents)
  BY <1>1, SignStep
<1>2. CASE \E a \in created : CommitAnchor(a)
  BY <1>2, CommitAnchorStep
<1>3. CASE UNCHANGED absVars
  BY <1>3 DEF DagInv, TypeOK, OneVertexPerSlot, ParentsBelow, QuorumOfParents,
              AnchorsSupported, AtRound, VotersIn, absVars
<1> QED
  BY <1>1, <1>2, <1>3 DEF Next

\* Every reachable DAG has one vertex a slot over a quorum of parents of the round
\* below, and votes for every anchor (dag.rs try_create_vertex, ordering.rs try_commit).
THEOREM DagInvariant == Spec => []DagInv
BY DagInvInit, DagInvNext, PTL DEF Spec

\* Type correctness of the cluster-wide DAG.
THEOREM TypeCorrect == Spec => []TypeOK
<1>1. DagInv => TypeOK
  BY DEF DagInv
<1> QED
  BY <1>1, DagInvariant, PTL

-----------------------------------------------------------------------------
(* The anchor is visible *)

LEMMA VisibleFromInvariant ==
  ASSUME N # 2, N # 3, DagInv
  PROVE  AnchorVisible
<1> SUFFICES ASSUME NEW a \in anchors, NEW w \in created, w.round = a.round + 2
             PROVE  \E p \in par[w] : a \in par[p]
  BY DEF AnchorVisible
<1> USE DEF DagInv
<1> DEFINE R == AtRound(created, a.round + 1)
<1>1. a \in VertexId /\ a.round \in Nat /\ a.round >= 1
  BY BoundsAssumption DEF TypeOK, VertexId
<1>2. PICK votes \in SUBSET VotersIn(created, a) :
        Cardinality(votes) >= CommitThreshold(N)
  BY DEF AnchorsSupported
<1>3. votes \in SUBSET R
  BY DEF VotersIn, AtRound
<1>4. par[w] \in SUBSET R
  <2>1. w.round - 1 = a.round + 1
    BY <1>1
  <2> QED
    BY <2>1 DEF ParentsBelow
<1>5. Cardinality(par[w]) >= ParentQuorum(N)
  BY <1>1 DEF QuorumOfParents
<1>6. IsFiniteSet(R) /\ Cardinality(R) <= N
  BY RoundIsSmall
<1>7. /\ ParentQuorum(N) \in Nat /\ CommitThreshold(N) \in Nat
      /\ ParentQuorum(N) + CommitThreshold(N) > N
  BY NIsPositive, QuorumsExceed
<1> HIDE DEF R
<1>8. /\ Cardinality(R) \in Nat /\ Cardinality(votes) \in Nat /\ Cardinality(par[w]) \in Nat
  BY <1>3, <1>4, <1>6, FS_Subset, FS_CardinalityType
<1>9. Cardinality(par[w]) + Cardinality(votes) > Cardinality(R)
  BY <1>2, <1>5, <1>6, <1>7, <1>8, NIsPositive
<1>10. par[w] \cap votes # {}
  BY <1>3, <1>4, <1>6, <1>9, FS_MajoritiesIntersect
<1> QED
  BY <1>2, <1>10 DEF VotersIn

\* For every validator set but those of two and three, a committed anchor is a
\* grandparent of every vertex two rounds above it, whoever signed it.
THEOREM AnchorsAreVisible ==
  ASSUME N # 2, N # 3
  PROVE  Spec => []AnchorVisible
<1>1. DagInv => AnchorVisible
  BY VisibleFromInvariant
<1> QED
  BY <1>1, DagInvariant, PTL
=============================================================================

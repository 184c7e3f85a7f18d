---------------------------- MODULE OrderingEngine ----------------------------
(****************************************************************************)
(* The pure part of consensus/consensus/src/ordering.rs: which vertex of a  *)
(* round is the anchor, who votes for it, and which vertices a commit       *)
(* orders.  Everything here is computed from one node's local DAG, a set of *)
(* vertex hashes; par gives the parents named inside each vertex.           *)
(****************************************************************************)
EXTENDS Integers, Sequences, FiniteSets, SequencesExt

CONSTANTS
  ValidatorList,   \* the sorted validator set
  VdfSeed(_)       \* the number that the beacon yields, from the last anchor committed

NValidators == Len(ValidatorList)

NoVertex == [round |-> 0, author |-> "genesis", copy |-> 0]

InRound(dag, r) == {v \in dag : v.round = r}

Leader(r, beacon, attempt) ==
  ValidatorList[((r + VdfSeed(beacon) + attempt) % NValidators) + 1]

\* The vertices that can be the anchor of round r: those of the first validator,
\* counting from the leader, that has one in this DAG.  It is one vertex unless a
\* restart loaded both vertices of a double-signer.
AnchorsOf(dag, r, beacon) ==
  LET by(k) == {v \in InRound(dag, r) : v.author = Leader(r, beacon, k)}
  IN  {v \in InRound(dag, r) :
         \E k \in 0..(NValidators - 1) : v \in by(k) /\ \A j \in 0..(k - 1) : by(j) = {}}

\* Vertices of the round above that name a as a parent.
Votes(dag, par, a) == {w \in InRound(dag, a.round + 1) : a \in par[w]}

\* Everything reachable from a through vertices this node holds and has not
\* committed.  A parent that has not arrived is skipped, with all its history.
CausalHistory(dag, par, committed, a) ==
  LET reach[k \in Nat] ==
        IF k = 0 THEN {a}
        ELSE reach[k - 1] \cup
             {p \in dag \ committed : \E v \in reach[k - 1] : p \in par[v]}
  IN  reach[a.round]

\* Hashes are compared as strings; any fixed total order stands for that.
HashLess(v, w) ==
  LET pos(a) == CHOOSE i \in 1..NValidators : ValidatorList[i] = a
  IN  \/ pos(v.author) < pos(w.author)
      \/ v.author = w.author /\ v.copy < w.copy

InOrder(v, w) == v.round < w.round \/ (v.round = w.round /\ HashLess(v, w))

\* S sorted: each place has the vertex with as many before it.
Sorted(S) ==
  [i \in 1..Cardinality(S) |-> CHOOSE v \in S : Cardinality({w \in S : InOrder(w, v)}) = i - 1]

\* What a commit of anchor a appends to the committed sequence.
Ordered(dag, par, committed, a) == Sorted(CausalHistory(dag, par, committed, a) \ committed)
=============================================================================

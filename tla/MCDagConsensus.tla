---------------------------- MODULE MCDagConsensus ----------------------------
(* Instances of DagConsensus for TLC. *)
EXTENDS DagConsensus

CONSTANTS n1, n2, n3, n4, o1, o2

One   == <<n1>>
Two   == <<n1, n2>>
Four  == <<n1, n2, n3, n4>>

\* The beacon in these instances: it moves the leader with the committed anchor.
MCVdfSeed(v) == v.round

-----------------------------------------------------------------------------
(* Four validators sign, and two observers that have taken in the first      *)
(* round take in the rest.  All four have signed round 1 and, on all of      *)
(* round 1, round 2; then n1, n2 and n3 have signed round 3, each on three   *)
(* vertices of round 2 with its own among them, and n1 round 4 on the three  *)
(* of round 3.  A validator has received what it signs on, while it was      *)
(* a round above, and nothing else yet, so that none has skipped a round.    *)

V(r, a) == [round |-> r, author |-> a, copy |-> 1]

AllOf(r) == {V(r, a) : a \in Validators}

FourRounds == AllOf(1) \cup AllOf(2) \cup {V(3, n1), V(3, n2), V(3, n3), V(4, n1)}

ReplayParents(v) ==
  CASE v = V(3, n1) -> AllOf(2) \ {V(2, n2)}
    [] v = V(3, n2) -> AllOf(2) \ {V(2, n1)}
    [] v = V(3, n3) -> AllOf(2) \ {V(2, n2)}
    [] OTHER -> {w \in FourRounds : w.round = v.round - 1}

\* Each observer has received round 1, one vertex after another: it is in round 2.
RoundOneSeen ==
  /\ phase = [n \in Nodes |-> "idle"]
  /\ round = [n \in Nodes |-> 2]
  /\ dag = [n \in Nodes |-> AllOf(1)]
  /\ cur = [n \in Nodes |-> NoVertex]
  /\ batch = [n \in Nodes |-> <<>>]
  /\ crounds = [n \in Nodes |-> {}]
  /\ cseq = [n \in Nodes |-> <<>>]
  /\ beacon = [n \in Nodes |-> NoVertex]
  /\ dVertices = [n \in Nodes |-> AllOf(1)]
  /\ dProposed = [n \in Nodes |-> 2]
  /\ dRounds = [n \in Nodes |-> {}]
  /\ dSeq = [n \in Nodes |-> <<>>]
  /\ dCheckpoint = [n \in Nodes |-> NoCheckpoint]
  /\ dHeight = [n \in Nodes |-> 0]
  /\ dLastSeen = [n \in Nodes |-> [v \in Validators |-> 1]]
  /\ dJailed = [n \in Nodes |-> {}]
  /\ dPending = [n \in Nodes |-> [v \in Validators |-> NoSlash]]
  /\ executed = [n \in Nodes |-> <<>>]
  /\ anchors = [n \in Nodes |-> {}]
  /\ unseen = [n \in Nodes |-> {}]
  /\ crashes = 0

ReplayInit ==
  /\ created = FourRounds
  /\ sent = FourRounds
  /\ par = [v \in VertexId |-> IF v \in FourRounds THEN ReplayParents(v) ELSE {}]
  /\ RoundOneSeen

ReplaySpec == ReplayInit /\ [][Next]_vars
=============================================================================

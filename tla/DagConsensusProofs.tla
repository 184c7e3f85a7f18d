-------------------------- MODULE DagConsensusProofs --------------------------
(****************************************************************************)
(* Proofs about DagConsensus, for any validator set, any set of nodes and   *)
(* any number of crashes.                                                   *)
(****************************************************************************)
EXTENDS DagConsensus, SumTheorems, FiniteSetTheorems, TLAPS

-----------------------------------------------------------------------------
(* Least and greatest elements of sets of rounds *)

LEMMA GreatestElement ==
  ASSUME NEW S \in SUBSET Nat, S # {}, NEW b \in Nat, \A x \in S : x <= b
  PROVE  \E m \in S : \A x \in S : x <= m
<1> DEFINE U == {u \in Nat : \A x \in S : x <= u}
<1>1. PICK m \in U : \A u \in U : m <= u
  <2>1. b \in U
    OBVIOUS
  <2> HIDE DEF U
  <2>2. U \in SUBSET Nat
    BY DEF U
  <2> QED
    BY <2>1, <2>2, LeastNatural
<1>2. m \in S
  <2> SUFFICES ASSUME m \notin S PROVE FALSE
    OBVIOUS
  <2>1. PICK x \in S : TRUE
    OBVIOUS
  <2>2. x <= m - 1 /\ m - 1 \in Nat
    BY <1>1, <2>1
  <2>3. m - 1 \in U
    BY <1>1, <2>2
  <2> QED
    BY <1>1, <2>3
<1> QED
  BY <1>1, <1>2

\* The round in which a node restarts exists, and is above all that it recovered
\* and above latest_proposed_round.
LEMMA RestartRound ==
  ASSUME TypeOK, NEW n \in Nodes
  PROVE  /\ StartRound(n) \in Nat
         /\ StartRound(n) \in {v.round + 1 : v \in Recovered(n)} \cup {dProposed[n] + 1}
         /\ StartRound(n) > dProposed[n]
         /\ \A v \in Recovered(n) : StartRound(n) > v.round
<1> DEFINE S == {v.round + 1 : v \in Recovered(n)} \cup {dProposed[n] + 1}
<1>1. dProposed[n] \in Nat /\ MaxRound \in Nat
  BY RoundsAssumption DEF TypeOK
<1>2. \A v \in Recovered(n) : v.round \in 1..MaxRound
  BY DEF TypeOK, Recovered, VertexId
<1>3. S \in SUBSET Nat /\ S # {}
  BY <1>1, <1>2
<1>4. \A x \in S : x <= MaxRound + 1 + dProposed[n]
  BY <1>1, <1>2
<1>5. PICK m \in S : \A x \in S : x <= m
  <2> HIDE DEF S
  <2>1. MaxRound + 1 + dProposed[n] \in Nat
    BY <1>1
  <2> QED
    BY <1>3, <1>4, <2>1, GreatestElement
<1>6. m > dProposed[n] /\ \A v \in Recovered(n) : m > v.round
  <2>1. m \in Nat
    BY <1>3
  <2>2. dProposed[n] + 1 <= m /\ \A v \in Recovered(n) : v.round + 1 <= m
    BY <1>5
  <2> QED
    BY <1>1, <1>2, <2>1, <2>2
<1>7. /\ StartRound(n) \in S
      /\ StartRound(n) > dProposed[n]
      /\ \A v \in Recovered(n) : StartRound(n) > v.round
  BY <1>6 DEF StartRound
<1> QED
  BY <1>3, <1>7

-----------------------------------------------------------------------------
(* Types *)

\* Anchors are vertices of the node's own DAG, two rounds below the vertex in hand.
LEMMA CandidatesAreHeld ==
  ASSUME NEW n, NEW v \in VertexId, NEW a \in Candidates(n, v)
  PROVE  /\ a \in dag[n]
         /\ a.round = v.round - 2
         /\ v.round - 2 \in 1..MaxRound
<1>1. v.round \in 1..MaxRound /\ MaxRound \in Nat
  BY RoundsAssumption DEF VertexId
<1>2. v.round >= FirstCommitRound /\ a \in AnchorsOf(dag[n], v.round - 2, beacon[n])
  BY DEF Candidates
<1>3. a \in InRound(dag[n], v.round - 2)
  BY <1>2 DEF AnchorsOf
<1> QED
  BY <1>1, <1>2, <1>3, RoundsAssumption DEF InRound

LEMMA SeenNowTypes ==
  ASSUME TypeOK, NEW n \in Nodes, NEW v \in VertexId, SeenNow(n, v)
  PROVE  dLastSeen' \in [Nodes -> [Validators -> Nat]]
<1> DEFINE seen == IF v.author # n /\ v.round > dLastSeen[n][v.author]
                   THEN v.round ELSE dLastSeen[n][v.author]
<1>1. v.round \in Nat /\ v.author \in Validators
  BY RoundsAssumption DEF VertexId
<1>2. seen \in Nat
  BY <1>1 DEF TypeOK
<1>3. dLastSeen' = [dLastSeen EXCEPT ![n][v.author] = seen]
  BY DEF SeenNow
<1> HIDE DEF seen
<1> QED
  BY <1>1, <1>2, <1>3 DEF TypeOK

\* What add_vertex leaves well typed, whether it takes the vertex or reports it.
LEMMA AddVertexTypes ==
  ASSUME TypeOK, NEW n \in Nodes, NEW v \in created', AddVertex(n, v),
         created \subseteq created', created' \subseteq VertexId,
         par' \in [VertexId -> SUBSET created'], sent' \subseteq created'
  PROVE  TypeOK'
<1>1. v.round \in Nat /\ v.author \in Validators /\ v.round + 1 \in Nat
  BY RoundsAssumption DEF VertexId
<1>2. CASE RejectTwin(n, v)
  BY <1>1, <1>2 DEF TypeOK, AddVertex, RejectTwin, Resume, Phases, NoSlash, logVars, histVars
<1>3. CASE Accept(n, v)
  <2>1. dag' \in [Nodes -> SUBSET created'] /\ dVertices' \in [Nodes -> SUBSET created']
    BY <1>3 DEF TypeOK, AddVertex, Accept
  <2>2. round' \in [Nodes -> Nat] /\ dProposed' \in [Nodes -> Nat]
    BY <1>1, <1>3 DEF TypeOK, Accept
  <2>3. dLastSeen' \in [Nodes -> [Validators -> Nat]]
    BY <1>3, SeenNowTypes DEF Accept
  <2>4. phase' \in [Nodes -> Phases] /\ cur' \in [Nodes -> created' \cup {NoVertex}]
    <3>1. CASE /\ phase' = [phase EXCEPT ![n] = "commit"]
               /\ cur' = [cur EXCEPT ![n] = v]
      BY <3>1 DEF TypeOK, Phases
    <3>2. CASE Resume(n, v)
      BY <3>2 DEF TypeOK, Resume, Phases
    <3> QED
      BY <1>3, <3>1, <3>2 DEF Accept
  <2>5. UNCHANGED <<crounds, beacon, dCheckpoint, dRounds, dHeight, anchors, unseen, crashes,
                    dJailed, dPending>>
    BY <1>3 DEF AddVertex, Accept, logVars, histVars
  <2> QED
    BY <2>1, <2>2, <2>3, <2>4, <2>5 DEF TypeOK
<1> QED
  BY <1>2, <1>3 DEF AddVertex

\* A signature names vertices that the node holds.
LEMMA SignTypes ==
  ASSUME TypeOK, NEW n \in Nodes, NEW v \in VertexId, Sign(n, v)
  PROVE  /\ v \in created' /\ created \subseteq created' /\ created' \subseteq VertexId
         /\ par' \in [VertexId -> SUBSET created'] /\ sent' \subseteq created'
<1>1. Parents(n) \subseteq created
  BY DEF Parents, InRound, TypeOK
<1> QED
  BY <1>1 DEF TypeOK, Sign

\* What a node leaves that dies, if the rest of the step keeps the types.
LEMMA DeadTypes ==
  ASSUME TypeOK, NEW n \in Nodes, Die(n),
         created \subseteq created', created' \subseteq VertexId,
         par' \in [VertexId -> SUBSET created'], sent' \subseteq created',
         dVertices' \in [Nodes -> SUBSET created'], dProposed' \in [Nodes -> Nat],
         UNCHANGED <<dCheckpoint, dRounds, dHeight>>,
         dLastSeen' \in [Nodes -> [Validators -> Nat]],
         dJailed' \in [Nodes -> SUBSET Validators],
         dPending' \in [Nodes -> [Validators -> {NoSlash, "double_sign", "downtime"}]],
         unseen' \in [Nodes -> SUBSET created']
  PROVE  TypeOK'
<1>1. /\ phase' \in [Nodes -> Phases] /\ round' \in [Nodes -> Nat]
      /\ dag' \in [Nodes -> SUBSET created'] /\ cur' \in [Nodes -> created' \cup {NoVertex}]
      /\ crounds' \in [Nodes -> SUBSET (1..MaxRound)]
      /\ beacon' \in [Nodes -> created' \cup {NoVertex}]
  BY DEF TypeOK, Die, Phases
<1>2. anchors' \in [Nodes -> SUBSET created'] /\ crashes' \in 0..MaxCrashes
  BY RoundsAssumption DEF TypeOK, Die
<1>3. dCheckpoint' \in [Nodes -> [round : Nat, vertices : SUBSET created']]
  BY DEF TypeOK
<1> QED
  BY <1>1, <1>2, <1>3 DEF TypeOK

LEMMA CutOffAddTypes ==
  ASSUME TypeOK, NEW n \in Nodes, NEW v \in created', CutOffAdd(n, v),
         created \subseteq created', created' \subseteq VertexId,
         par' \in [VertexId -> SUBSET created'], sent' \subseteq created'
  PROVE  TypeOK'
<1>1. dVertices' \in [Nodes -> SUBSET created'] /\ unseen' \in [Nodes -> SUBSET created']
  <2>1. dVertices' = [dVertices EXCEPT ![n] = dVertices[n] \cup {v}]
    BY DEF CutOffAdd
  <2>2. \/ unseen' = unseen
        \/ unseen' = [unseen EXCEPT ![n] = unseen[n] \cup {v}]
    BY DEF CutOffAdd, TypeOK
  <2>3. dVertices \in [Nodes -> SUBSET created'] /\ unseen \in [Nodes -> SUBSET created']
    BY DEF TypeOK
  <2> QED
    BY <2>1, <2>2, <2>3
<1>2. /\ dLastSeen' \in [Nodes -> [Validators -> Nat]]
      /\ dJailed' \in [Nodes -> SUBSET Validators]
      /\ dPending' \in [Nodes -> [Validators -> {NoSlash, "double_sign", "downtime"}]]
  <2>1. CASE UNCHANGED slashVars
    BY <2>1 DEF slashVars, TypeOK
  <2>2. CASE dPending' = [dPending EXCEPT ![n][v.author] = "double_sign"] /\ UNCHANGED <<dLastSeen, dJailed>>
    BY <2>2 DEF TypeOK
  <2>3. CASE SeenNow(n, v) /\ UNCHANGED <<dJailed, dPending>>
    BY <2>3, SeenNowTypes DEF TypeOK
  <2> QED
    BY <2>1, <2>2, <2>3 DEF CutOffAdd
<1>3. Die(n) /\ UNCHANGED <<dProposed, dCheckpoint, dRounds, dHeight>>
  BY DEF CutOffAdd, logVars
<1> QED
  BY <1>1, <1>2, <1>3, DeadTypes DEF TypeOK

LEMMA CutOffTypes ==
  ASSUME TypeOK, NEW n \in Nodes, CutOff(n)
  PROVE  TypeOK'
<1>1. ASSUME NEW v \in VertexId, Sign(n, v), CutOffAdd(n, v) PROVE TypeOK'
  BY <1>1, SignTypes, CutOffAddTypes
<1>2. ASSUME NEW v \in sent, CutOffAdd(n, v), UNCHANGED netVars PROVE TypeOK'
  BY <1>2, CutOffAddTypes DEF netVars, TypeOK
<1>3. ASSUME NEW a \in Validators, CutOffRecord(n, a) PROVE TypeOK'
  <2>1. /\ dProposed' \in [Nodes -> Nat]
        /\ dLastSeen' \in [Nodes -> [Validators -> Nat]]
    BY <1>3 DEF CutOffRecord, PutsOfRecord, TypeOK
  <2>2. dJailed' \in [Nodes -> SUBSET Validators]
    BY <1>3 DEF CutOffRecord, Missing, TypeOK
  <2>3. dPending' \in [Nodes -> [Validators -> {NoSlash, "double_sign", "downtime"}]]
    BY <1>3 DEF CutOffRecord, TypeOK
  <2>4. Die(n) /\ UNCHANGED <<netVars, dVertices, dCheckpoint, dRounds, dHeight, unseen>>
    BY <1>3 DEF CutOffRecord, logVars
  <2> QED
    BY <2>1, <2>2, <2>3, <2>4, DeadTypes DEF netVars, TypeOK
<1> QED
  BY <1>1, <1>2, <1>3 DEF CutOff

LEMMA TypeOKNext ==
  TypeOK /\ (\A n \in Nodes : InHand(n)) /\ [Next]_vars => TypeOK'
<1> SUFFICES ASSUME TypeOK, \A n \in Nodes : InHand(n), [Next]_vars PROVE TypeOK'
  OBVIOUS
<1> USE DEF TypeOK
<1>1. ASSUME NEW n \in Nodes, Propose(n) PROVE TypeOK'
  BY <1>1, SignTypes, AddVertexTypes DEF Propose
<1>2. ASSUME NEW n \in Nodes, NEW v \in sent, Receive(n, v) PROVE TypeOK'
  BY <1>2, AddVertexTypes DEF Receive, netVars
<1>3. ASSUME NEW n \in Nodes, Commit(n) PROVE TypeOK'
  <2>1. cur[n] \in VertexId
    BY <1>3 DEF Commit, InHand
  <2>2. PICK a \in Candidates(n, cur[n]) : /\ beacon' = [beacon EXCEPT ![n] = a]
                                          /\ anchors' = [anchors EXCEPT ![n] = @ \cup {a}]
    BY <1>3 DEF Commit
  <2>3. a \in created /\ cur[n].round - 2 \in 1..MaxRound
    BY <2>1, <2>2, CandidatesAreHeld
  <2>4. crounds' \in [Nodes -> SUBSET (1..MaxRound)] /\ dRounds' \in [Nodes -> SUBSET (1..MaxRound)]
    BY <1>3, <2>3 DEF Commit
  <2>5. beacon' \in [Nodes -> created \cup {NoVertex}] /\ anchors' \in [Nodes -> SUBSET created]
    BY <2>2, <2>3
  <2>6. phase' \in [Nodes -> Phases]
    BY <1>3 DEF Commit, Phases
  <2> QED
    BY <1>3, <2>4, <2>5, <2>6 DEF Commit, netVars, slashVars
<1>4. ASSUME NEW n \in Nodes, SaveSequence(n) PROVE TypeOK'
  BY <1>4 DEF SaveSequence, netVars, slashVars, histVars, Phases
<1>5. ASSUME NEW n \in Nodes, Execute(n) PROVE TypeOK'
  BY <1>5 DEF Execute, netVars, logVars, Phases, NoSlash
<1>6. ASSUME NEW n \in Nodes, Seal(n) PROVE TypeOK'
  BY <1>6 DEF Seal, Resume, netVars, slashVars, histVars, Phases
<1>7. ASSUME NEW n \in Nodes, Publish(n) PROVE TypeOK'
  BY <1>7 DEF Publish, InHand, diskVars, logVars, slashVars, histVars, Phases
<1>8. ASSUME NEW n \in Nodes, Record(n) PROVE TypeOK'
  <2>1. dProposed' \in [Nodes -> Nat] /\ round' \in [Nodes -> Nat]
    BY <1>8 DEF Record, PutsOfRecord
  <2>2. dLastSeen' \in [Nodes -> [Validators -> Nat]]
    BY <1>8 DEF Record, PutsOfRecord
  <2>3. Missing(n) \subseteq Validators
    BY DEF Missing
  <2>4. dJailed' \in [Nodes -> SUBSET Validators]
    BY <1>8, <2>3 DEF Record
  <2>5. dPending' \in [Nodes -> [Validators -> {NoSlash, "double_sign", "downtime"}]]
    BY <1>8 DEF Record
  <2>6. phase' \in [Nodes -> Phases] /\ cur' \in [Nodes -> created \cup {NoVertex}]
    BY <1>8 DEF Record, Phases
  <2> QED
    BY <1>8, <2>1, <2>2, <2>4, <2>5, <2>6 DEF Record, netVars, logVars, histVars
<1>9. ASSUME NEW n \in Nodes, Crash(n) PROVE TypeOK'
  BY <1>9, DeadTypes DEF Crash, netVars, diskVars, logVars, slashVars
<1>10. ASSUME NEW n \in Nodes, Restart(n) PROVE TypeOK'
  BY <1>10, RestartRound
  DEF Restart, Recovered, netVars, diskVars, logVars, slashVars, histVars, Phases
<1>11. ASSUME NEW n \in Nodes, CutOff(n) PROVE TypeOK'
  BY <1>11, CutOffTypes
<1>12. CASE UNCHANGED vars
  BY <1>12 DEF vars, netVars, memVars, diskVars, logVars, slashVars, histVars
<1> QED
  BY <1>1, <1>2, <1>3, <1>4, <1>5, <1>6, <1>7, <1>8, <1>9, <1>10, <1>11, <1>12 DEF Next

-----------------------------------------------------------------------------
(* SigningInv *)

LEMMA InitHolds == Init => TypeOK /\ SigningInv
<1> SUFFICES ASSUME Init PROVE TypeOK /\ SigningInv
  OBVIOUS
<1>1. TypeOK
  BY RoundsAssumption DEF Init, NodesInit, TypeOK, Phases, NoCheckpoint, NoSlash
<1>2. SigningInv
  BY DEF Init, NodesInit, SigningInv, SignsOnceBeforeCheckpoint, RoundIsAhead, InHand, OnDisk,
         NoCheckpoint
<1> QED
  BY <1>1, <1>2

\* What add_vertex does to the parts of the state that SigningInv speaks of.
LEMMA AddVertexEffect ==
  ASSUME TypeOK, NEW n \in Nodes, NEW v \in VertexId, AddVertex(n, v)
  PROVE  /\ dVertices' = [dVertices EXCEPT ![n] = @ \cup {v}]
         /\ UNCHANGED <<dCheckpoint, crounds>>
         /\ \A m \in Nodes \ {n} : /\ phase'[m] = phase[m] /\ cur'[m] = cur[m]
                                  /\ round'[m] = round[m] /\ dProposed'[m] = dProposed[m]
         /\ \/ phase'[n] = "commit" /\ cur'[n] = v
            \/ phase'[n] = "publish" /\ cur'[n] = v /\ v.author = n
            \/ phase'[n] = "idle" /\ v.author # n
         /\ v.author = n \/ v.round < round[n] =>
              round'[n] = round[n] /\ dProposed'[n] = dProposed[n]
         /\ round'[n] >= round[n]
         /\ round[n] >= dProposed[n] =>
              dProposed'[n] >= dProposed[n] /\ round'[n] >= dProposed'[n]
<1>1. v.round \in Nat /\ round[n] \in Nat /\ dProposed[n] \in Nat
  BY DEF TypeOK, VertexId
<1>2. dVertices' = [dVertices EXCEPT ![n] = @ \cup {v}] /\ UNCHANGED <<dCheckpoint, crounds>>
  BY DEF AddVertex
<1>3. CASE RejectTwin(n, v)
  BY <1>1, <1>2, <1>3 DEF RejectTwin, Resume, TypeOK
<1>4. CASE Accept(n, v)
  <2>1. /\ \A m \in Nodes \ {n} : round'[m] = round[m] /\ dProposed'[m] = dProposed[m]
        /\ v.author = n \/ v.round < round[n] =>
             round'[n] = round[n] /\ dProposed'[n] = dProposed[n]
        /\ round'[n] >= round[n]
        /\ round[n] >= dProposed[n] =>
             dProposed'[n] >= dProposed[n] /\ round'[n] >= dProposed'[n]
    BY <1>1, <1>4 DEF Accept, TypeOK
  <2>2. CASE /\ phase' = [phase EXCEPT ![n] = "commit"]
             /\ cur' = [cur EXCEPT ![n] = v]
    BY <1>2, <2>1, <2>2 DEF TypeOK
  <2>3. CASE Resume(n, v)
    BY <1>2, <2>1, <2>3 DEF TypeOK, Resume
  <2> QED
    BY <1>4, <2>2, <2>3 DEF Accept
<1> QED
  BY <1>3, <1>4 DEF AddVertex

NodeInv(n) == RoundIsAhead(n) /\ InHand(n) /\ OnDisk(n)

\* A node that a step does not touch, and that signs nothing in it, keeps its part.
LEMMA OtherNodes ==
  ASSUME NEW m, NodeInv(m),
         phase'[m] = phase[m], round'[m] = round[m], cur'[m] = cur[m],
         dProposed'[m] = dProposed[m], dVertices'[m] = dVertices[m],
         dCheckpoint'[m] = dCheckpoint[m], crounds'[m] = crounds[m],
         created \subseteq created', \A h \in created' \ created : h.author # m
  PROVE  NodeInv(m)'
<1>1. RoundIsAhead(m)'
  BY DEF NodeInv, RoundIsAhead
<1>2. InHand(m)'
  BY DEF NodeInv, InHand
<1>3. OnDisk(m)'
  BY DEF NodeInv, OnDisk
<1> QED
  BY <1>1, <1>2, <1>3 DEF NodeInv

\* A step that signs nothing and touches one node keeps SigningInv if it keeps that
\* node's part of it and its checkpoint, once taken.
LEMMA OneNodeStep ==
  ASSUME SigningInv, NEW n \in Nodes, created' = created, NodeInv(n)',
         dCheckpoint[n].round > 0 => dCheckpoint'[n].round > 0,
         \A m \in Nodes \ {n} :
           /\ phase'[m] = phase[m] /\ round'[m] = round[m] /\ cur'[m] = cur[m]
           /\ dProposed'[m] = dProposed[m] /\ dVertices'[m] = dVertices[m]
           /\ dCheckpoint'[m] = dCheckpoint[m] /\ crounds'[m] = crounds[m]
  PROVE  SigningInv'
<1>1. \A m \in Nodes : NodeInv(m)'
  BY OtherNodes DEF SigningInv, NodeInv
<1>2. SignsOnceBeforeCheckpoint'
  BY DEF SigningInv, SignsOnceBeforeCheckpoint, SameSlot
<1> QED
  BY <1>1, <1>2 DEF SigningInv, NodeInv

\* A vertex just signed is the first of its author in its round, unless there is a
\* checkpoint.
LEMMA SignOnce ==
  ASSUME TypeOK, SigningInv, NEW n \in Nodes, NEW v \in VertexId, MayPropose(n, v), Sign(n, v),
         dCheckpoint' = dCheckpoint
  PROVE  SignsOnceBeforeCheckpoint'
<1>1. v.round = round[n] /\ v.author = n /\ created' = created \cup {v}
  BY DEF MayPropose, Sign
<1>2. dCheckpoint[n].round = 0 => \A h \in created : h.author = n => h.round < round[n]
  BY DEF MayPropose, SigningInv, RoundIsAhead
<1>3. round[n] \in Nat /\ \A h \in created : h.round \in Nat
  BY DEF TypeOK, VertexId
<1> SUFFICES ASSUME NEW h \in created', NEW k \in created', SameSlot(h, k), h # k
             PROVE  dCheckpoint[h.author].round > 0
  BY DEF SignsOnceBeforeCheckpoint
<1>4. CASE h \in created /\ k \in created
  BY <1>4 DEF SigningInv, SignsOnceBeforeCheckpoint
<1>5. CASE h = v \/ k = v
  <2>1. h.round = round[n] /\ h.author = n /\ k.round = round[n] /\ k.author = n
    BY <1>1, <1>5 DEF SameSlot
  <2>2. h \in created \/ k \in created
    BY <1>1
  <2>3. dCheckpoint[n].round # 0
    BY <1>2, <1>3, <2>1, <2>2
  <2> QED
    BY <2>1, <2>3 DEF TypeOK
<1> QED
  BY <1>1, <1>4, <1>5

LEMMA ProposeSigning ==
  ASSUME TypeOK, SigningInv, NEW n \in Nodes, Propose(n)
  PROVE  SigningInv'
<1>0. PICK v \in VertexId : MayPropose(n, v) /\ Sign(n, v) /\ AddVertex(n, v)
  BY DEF Propose
<1>1. v.round = round[n] /\ v.author = n
  BY <1>0 DEF MayPropose
<1>2. /\ phase[n] = "idle" /\ created' = created \cup {v} /\ AddVertex(n, v)
  BY <1>0 DEF MayPropose, Sign
<1>3. /\ dVertices' = [dVertices EXCEPT ![n] = @ \cup {v}]
      /\ UNCHANGED <<dCheckpoint, crounds>>
      /\ \A m \in Nodes \ {n} : /\ phase'[m] = phase[m] /\ cur'[m] = cur[m]
                               /\ round'[m] = round[m] /\ dProposed'[m] = dProposed[m]
      /\ phase'[n] \in {"commit", "publish"} /\ cur'[n] = v
      /\ round'[n] = round[n] /\ dProposed'[n] = dProposed[n]
  BY <1>1, <1>2, AddVertexEffect
<1>4. dVertices'[n] = dVertices[n] \cup {v} /\ \A m \in Nodes \ {n} : dVertices'[m] = dVertices[m]
  BY <1>3 DEF TypeOK
<1>5. /\ round[n] >= dProposed[n] /\ round[n] >= 1
      /\ dCheckpoint[n].round = 0 => \A h \in created : h.author = n => h.round < round[n]
  BY <1>2 DEF SigningInv, RoundIsAhead
<1>6. round[n] \in Nat /\ \A h \in created : h.round \in Nat
  BY DEF TypeOK, VertexId
<1>7. NodeInv(n)'
  <2>1. RoundIsAhead(n)'
    BY <1>1, <1>2, <1>3, <1>5 DEF RoundIsAhead
  <2>2. InHand(n)'
    BY <1>1, <1>2, <1>3, <1>4 DEF InHand
  <2>3. OnDisk(n)'
    BY <1>1, <1>2, <1>3, <1>4, <1>6 DEF OnDisk, SigningInv
  <2> QED
    BY <2>1, <2>2, <2>3 DEF NodeInv
<1>8. \A m \in Nodes \ {n} : NodeInv(m)'
  BY <1>1, <1>2, <1>3, <1>4, OtherNodes DEF SigningInv, NodeInv
<1>9. SignsOnceBeforeCheckpoint'
  BY <1>0, <1>3, SignOnce
<1> QED
  BY <1>1, <1>2, <1>7, <1>8, <1>9 DEF SigningInv, NodeInv

LEMMA ReceiveSigning ==
  ASSUME TypeOK, SigningInv, NEW n \in Nodes, NEW v \in sent, Receive(n, v)
  PROVE  SigningInv'
<1>1. v \in VertexId /\ v \in created
  BY DEF TypeOK
<1>2. phase[n] = "idle" /\ v.author # n /\ AddVertex(n, v) /\ created' = created
  BY DEF Receive, MayReceive, netVars
<1>3. round[n] >= dProposed[n]
  BY <1>2 DEF SigningInv, RoundIsAhead
<1>4. /\ dVertices' = [dVertices EXCEPT ![n] = @ \cup {v}]
      /\ UNCHANGED <<dCheckpoint, crounds>>
      /\ \A m \in Nodes \ {n} : /\ phase'[m] = phase[m] /\ cur'[m] = cur[m]
                               /\ round'[m] = round[m] /\ dProposed'[m] = dProposed[m]
      /\ \/ phase'[n] = "commit" /\ cur'[n] = v
         \/ phase'[n] = "idle"
      /\ round'[n] >= round[n] /\ dProposed'[n] >= dProposed[n] /\ round'[n] >= dProposed'[n]
  BY <1>1, <1>2, <1>3, AddVertexEffect
<1>5. dVertices'[n] = dVertices[n] \cup {v} /\ \A m \in Nodes \ {n} : dVertices'[m] = dVertices[m]
  BY <1>4 DEF TypeOK
<1>6. /\ round[n] \in Nat /\ dProposed[n] \in Nat /\ \A h \in created : h.round \in Nat
      /\ round'[n] \in Nat /\ dProposed'[n] \in Nat
  <2>1. created' \subseteq VertexId /\ par' \in [VertexId -> SUBSET created'] /\ sent' \subseteq created'
    BY DEF Receive, netVars, TypeOK
  <2>2. TypeOK'
    BY <1>1, <1>2, <2>1, AddVertexTypes
  <2> QED
    BY <2>2 DEF TypeOK, VertexId
<1>7. RoundIsAhead(n)'
  BY <1>2, <1>4, <1>6 DEF RoundIsAhead, SigningInv
<1>8. InHand(n)'
  BY <1>1, <1>2, <1>4, <1>5 DEF InHand
<1>9. OnDisk(n)'
  BY <1>2, <1>4, <1>5, <1>6 DEF OnDisk, SigningInv
<1> QED
  BY <1>2, <1>4, <1>5, <1>7, <1>8, <1>9, OneNodeStep DEF NodeInv

LEMMA CommitSigning ==
  ASSUME TypeOK, SigningInv, NEW n \in Nodes, Commit(n)
  PROVE  SigningInv'
<1>1. /\ phase[n] = "commit" /\ phase' = [phase EXCEPT ![n] = "save"]
      /\ crounds' = [crounds EXCEPT ![n] = @ \cup {cur[n].round - 2}]
      /\ UNCHANGED <<created, round, cur, dVertices, dProposed, dCheckpoint>>
  BY DEF Commit, netVars
<1>2. RoundIsAhead(n)' /\ InHand(n)' /\ OnDisk(n)'
  BY <1>1 DEF SigningInv, RoundIsAhead, InHand, OnDisk, TypeOK
<1> QED
  BY <1>1, <1>2, OneNodeStep DEF NodeInv, TypeOK

LEMMA SaveSequenceSigning ==
  ASSUME TypeOK, SigningInv, NEW n \in Nodes, SaveSequence(n)
  PROVE  SigningInv'
<1>1. /\ phase[n] = "save" /\ phase' = [phase EXCEPT ![n] = "execute"]
      /\ UNCHANGED <<created, round, cur, crounds, dVertices, dProposed, dCheckpoint>>
  BY DEF SaveSequence, netVars
<1>2. RoundIsAhead(n)' /\ InHand(n)' /\ OnDisk(n)'
  BY <1>1 DEF SigningInv, RoundIsAhead, InHand, OnDisk, TypeOK
<1> QED
  BY <1>1, <1>2, OneNodeStep DEF NodeInv, TypeOK

LEMMA ExecuteSigning ==
  ASSUME TypeOK, SigningInv, NEW n \in Nodes, Execute(n)
  PROVE  SigningInv'
<1>1. /\ phase[n] = "execute" /\ phase' = [phase EXCEPT ![n] = "seal"]
      /\ UNCHANGED <<created, round, cur, crounds, dVertices, dProposed, dCheckpoint>>
  BY DEF Execute, netVars
<1>2. RoundIsAhead(n)' /\ InHand(n)' /\ OnDisk(n)'
  BY <1>1 DEF SigningInv, RoundIsAhead, InHand, OnDisk, TypeOK
<1> QED
  BY <1>1, <1>2, OneNodeStep DEF NodeInv, TypeOK

\* Pruning never takes the vertex in hand, nor one above it: the round two below
\* it has just been committed, so the oldest committed round is below it.
LEMMA PruningKeepsTop ==
  ASSUME TypeOK, NEW n \in Nodes, NEW h, cur[n] \in created,
         cur[n].round - 2 \in crounds[n], NEW v \in Pruned(n, h)
  PROVE  v.round < cur[n].round
<1>1. PICK m \in crounds[n] : \A s \in crounds[n] : m <= s
  <2>1. crounds[n] \in SUBSET Nat /\ crounds[n] # {}
    BY DEF TypeOK
  <2> QED
    BY <2>1, LeastNatural
<1> DEFINE oldest == CHOOSE r \in crounds[n] : \A s \in crounds[n] : r <= s
<1>2. oldest \in crounds[n] /\ \A s \in crounds[n] : oldest <= s
  BY <1>1
<1>3. v \in dag[n] /\ v.round < oldest - PruneBuffer
  BY DEF Pruned
<1> HIDE DEF oldest
<1>4. oldest \in Nat /\ oldest <= cur[n].round - 2 /\ PruneBuffer \in Nat
  BY <1>2, PeriodsAssumption DEF TypeOK
<1>5. v.round \in Nat /\ cur[n].round \in Nat
  BY <1>3 DEF TypeOK, VertexId
<1> QED
  BY <1>3, <1>4, <1>5

LEMMA SealSigning ==
  ASSUME TypeOK, SigningInv, NEW n \in Nodes, Seal(n)
  PROVE  SigningInv'
<1> DEFINE gone == IF batch[n] = <<>> THEN {} ELSE Pruned(n, dHeight[n] + 1)
<1>1. /\ phase[n] = "seal" /\ Resume(n, cur[n])
      /\ dVertices' = [dVertices EXCEPT ![n] = @ \ gone]
      /\ UNCHANGED <<created, round, crounds, dProposed>>
      /\ dCheckpoint' = [dCheckpoint EXCEPT ![n] =
           IF batch[n] # <<>> /\ round[n] % CheckpointPeriod = 0
           THEN [round |-> round[n], vertices |-> dag[n] \ gone] ELSE @]
  BY DEF Seal, netVars
<1>2. /\ cur[n] \in created /\ cur[n] \in dVertices[n] /\ cur[n].round - 2 \in crounds[n]
      /\ round[n] >= dProposed[n]
      /\ cur[n].author = n => cur[n].round = round[n]
  BY <1>1 DEF SigningInv, InHand, RoundIsAhead
<1>3. \A v \in gone : v.round < cur[n].round
  BY <1>2, PruningKeepsTop
<1> HIDE DEF gone
<1>4. /\ \A h \in created : h.round \in Nat
      /\ dVertices[n] \subseteq created /\ round[n] \in Nat /\ dProposed[n] \in Nat
  BY DEF TypeOK, VertexId
<1>5. dVertices'[n] = dVertices[n] \ gone /\ cur[n] \in dVertices'[n]
  BY <1>1, <1>2, <1>3, <1>4 DEF TypeOK
<1>6. /\ dCheckpoint[n].round > 0 => dCheckpoint'[n].round > 0
      /\ dCheckpoint'[n].round = 0 => dCheckpoint[n].round = 0
  <2>1. round[n] >= 1
    BY <1>1 DEF SigningInv, RoundIsAhead
  <2>2. CASE batch[n] # <<>> /\ round[n] % CheckpointPeriod = 0
    BY <1>1, <1>4, <2>1, <2>2 DEF TypeOK
  <2>3. CASE ~(batch[n] # <<>> /\ round[n] % CheckpointPeriod = 0)
    BY <1>1, <2>3 DEF TypeOK
  <2> QED
    BY <2>2, <2>3
<1>7. \/ phase'[n] = "publish" /\ cur'[n] = cur[n] /\ cur[n].author = n
      \/ phase'[n] = "idle" /\ cur'[n] = NoVertex /\ cur[n].author # n
  BY <1>1 DEF Resume, TypeOK
<1>8. RoundIsAhead(n)'
  BY <1>1, <1>2, <1>4, <1>6, <1>7 DEF RoundIsAhead, SigningInv
<1>9. InHand(n)'
  <2>1. created' = created /\ round'[n] = round[n]
    BY <1>1
  <2>2. CASE phase'[n] = "publish" /\ cur'[n] = cur[n] /\ cur[n].author = n
    BY <1>2, <2>1, <2>2 DEF InHand
  <2>3. CASE phase'[n] = "idle"
    BY <2>3 DEF InHand
  <2> QED
    BY <1>7, <2>2, <2>3
<1>10. OnDisk(n)'
  <2> SUFFICES ASSUME dCheckpoint[n].round = 0, NEW h \in created, h.author = n
               PROVE  h.round <= dProposed[n] \/ \E v \in dVertices'[n] : v.round >= h.round
    BY <1>1, <1>6 DEF OnDisk
  <2>1. h.round <= dProposed[n] \/ \E v \in dVertices[n] : v.round >= h.round
    BY DEF SigningInv, OnDisk
  <2>2. ASSUME NEW v \in dVertices[n], v.round >= h.round
        PROVE  \E w \in dVertices'[n] : w.round >= h.round
    <3>1. CASE v \in gone
      BY <1>2, <1>3, <1>4, <1>5, <2>2, <3>1
    <3>2. CASE v \notin gone
      BY <1>5, <2>2, <3>2
    <3> QED
      BY <3>1, <3>2
  <2> QED
    BY <2>1, <2>2
<1>11. \A m \in Nodes \ {n} :
         /\ phase'[m] = phase[m] /\ round'[m] = round[m] /\ cur'[m] = cur[m]
         /\ dProposed'[m] = dProposed[m] /\ dVertices'[m] = dVertices[m]
         /\ dCheckpoint'[m] = dCheckpoint[m] /\ crounds'[m] = crounds[m]
  BY <1>1 DEF Resume, TypeOK
<1> QED
  BY <1>1, <1>6, <1>8, <1>9, <1>10, <1>11, OneNodeStep DEF NodeInv

LEMMA PublishSigning ==
  ASSUME TypeOK, SigningInv, NEW n \in Nodes, Publish(n)
  PROVE  SigningInv'
<1>1. /\ phase[n] = "publish" /\ phase' = [phase EXCEPT ![n] = "record"]
      /\ UNCHANGED <<created, round, cur, crounds, dVertices, dProposed, dCheckpoint>>
  BY DEF Publish, diskVars
<1>2. RoundIsAhead(n)' /\ InHand(n)' /\ OnDisk(n)'
  BY <1>1 DEF SigningInv, RoundIsAhead, InHand, OnDisk, TypeOK
<1> QED
  BY <1>1, <1>2, OneNodeStep DEF NodeInv, TypeOK

LEMMA RecordSigning ==
  ASSUME TypeOK, SigningInv, NEW n \in Nodes, Record(n)
  PROVE  SigningInv'
<1>1. /\ phase[n] = "record" /\ phase' = [phase EXCEPT ![n] = "idle"]
      /\ round' = [round EXCEPT ![n] = @ + 1] /\ dProposed' = [dProposed EXCEPT ![n] = round[n]]
      /\ cur' = [cur EXCEPT ![n] = NoVertex]
      /\ UNCHANGED <<created, crounds, dVertices, dCheckpoint>>
  BY DEF Record, PutsOfRecord, netVars
<1>2. /\ round[n] \in Nat /\ dProposed[n] \in Nat /\ \A h \in created : h.round \in Nat
      /\ round'[n] = round[n] + 1 /\ dProposed'[n] = round[n] /\ phase'[n] = "idle"
  BY <1>1 DEF TypeOK, VertexId
<1>3. /\ round[n] >= 1 /\ round[n] >= dProposed[n] /\ cur[n].round = round[n]
      /\ dCheckpoint[n].round = 0 =>
           \A h \in created : h.author = n => h.round < round[n] \/ h = cur[n]
  BY <1>1 DEF SigningInv, RoundIsAhead, InHand
<1>4. RoundIsAhead(n)'
  BY <1>1, <1>2, <1>3 DEF RoundIsAhead
<1>5. InHand(n)'
  BY <1>2 DEF InHand
<1>6. OnDisk(n)'
  BY <1>1, <1>2, <1>3 DEF OnDisk
<1> QED
  BY <1>1, <1>4, <1>5, <1>6, OneNodeStep DEF NodeInv, TypeOK

\* A node that dies keeps its part if the disk covers what it has signed.
LEMMA DieSigning ==
  ASSUME TypeOK, NEW n \in Nodes, Die(n), OnDisk(n)'
  PROVE  NodeInv(n)'
<1>1. phase'[n] = "down"
  BY DEF Die, TypeOK
<1> QED
  BY <1>1 DEF NodeInv, RoundIsAhead, InHand

LEMMA DieLeavesOthers ==
  ASSUME TypeOK, NEW n \in Nodes, Die(n), NEW m \in Nodes \ {n}
  PROVE  /\ phase'[m] = phase[m] /\ round'[m] = round[m] /\ cur'[m] = cur[m]
         /\ dag'[m] = dag[m] /\ crounds'[m] = crounds[m]
BY DEF Die, TypeOK

LEMMA CrashSigning ==
  ASSUME TypeOK, SigningInv, NEW n \in Nodes, Crash(n)
  PROVE  SigningInv'
<1>1. Die(n) /\ UNCHANGED <<created, dVertices, dProposed, dCheckpoint>>
  BY DEF Crash, netVars, diskVars
<1>2. OnDisk(n)'
  BY <1>1 DEF SigningInv, OnDisk
<1> QED
  BY <1>1, <1>2, DieSigning, DieLeavesOthers, OneNodeStep

\* Dying in add_vertex: the vertex is on disk by then, whoever signed it.
LEMMA CutOffSigning ==
  ASSUME TypeOK, SigningInv, NEW n \in Nodes, CutOff(n)
  PROVE  SigningInv'
<1>1. ASSUME NEW v \in VertexId, MayPropose(n, v), Sign(n, v), CutOffAdd(n, v) PROVE SigningInv'
  <2>1. v.round = round[n] /\ v.author = n /\ created' = created \cup {v}
    BY <1>1 DEF MayPropose, Sign
  <2>2. /\ Die(n) /\ UNCHANGED <<dProposed, dCheckpoint>>
        /\ dVertices'[n] = dVertices[n] \cup {v}
        /\ \A m \in Nodes \ {n} : dVertices'[m] = dVertices[m]
    BY <1>1 DEF CutOffAdd, TypeOK
  <2>3. OnDisk(n)'
    <3>1. v.round >= v.round
      BY RoundsAssumption DEF VertexId
    <3> QED
      BY <2>1, <2>2, <3>1 DEF SigningInv, OnDisk
  <2>4. NodeInv(n)'
    BY <2>2, <2>3, DieSigning
  <2>5. \A m \in Nodes \ {n} : NodeInv(m)'
    BY <2>1, <2>2, DieLeavesOthers, OtherNodes DEF SigningInv, NodeInv
  <2>6. SignsOnceBeforeCheckpoint'
    BY <1>1, <2>2, SignOnce
  <2> QED
    BY <2>1, <2>4, <2>5, <2>6 DEF SigningInv, NodeInv
<1>2. ASSUME NEW v \in sent, CutOffAdd(n, v), UNCHANGED netVars PROVE SigningInv'
  <2>1. /\ created' = created /\ Die(n) /\ UNCHANGED <<dProposed, dCheckpoint>>
        /\ dVertices'[n] = dVertices[n] \cup {v}
        /\ \A m \in Nodes \ {n} : dVertices'[m] = dVertices[m]
    BY <1>2 DEF CutOffAdd, netVars, TypeOK
  <2>2. OnDisk(n)'
    BY <2>1 DEF SigningInv, OnDisk
  <2> QED
    BY <2>1, <2>2, DieSigning, DieLeavesOthers, OneNodeStep
<1>3. ASSUME NEW a \in Validators, CutOffRecord(n, a) PROVE SigningInv'
  <2>1. /\ phase[n] = "record" /\ Die(n) /\ dProposed' = [dProposed EXCEPT ![n] = round[n]]
        /\ UNCHANGED <<created, dVertices, dCheckpoint>>
    BY <1>3 DEF CutOffRecord, PutsOfRecord, netVars
  <2>2. /\ round[n] \in Nat /\ \A h \in created : h.round \in Nat
        /\ dProposed'[n] = round[n] /\ \A m \in Nodes \ {n} : dProposed'[m] = dProposed[m]
    BY <2>1 DEF TypeOK, VertexId
  <2>3. /\ cur[n].round = round[n]
        /\ dCheckpoint[n].round = 0 =>
             \A h \in created : h.author = n => h.round < round[n] \/ h = cur[n]
    BY <2>1 DEF SigningInv, RoundIsAhead, InHand
  <2>4. OnDisk(n)'
    BY <2>1, <2>2, <2>3 DEF OnDisk
  <2> QED
    BY <2>1, <2>2, <2>4, DieSigning, DieLeavesOthers, OneNodeStep
<1> QED
  BY <1>1, <1>2, <1>3 DEF CutOff

LEMMA RestartSigning ==
  ASSUME TypeOK, SigningInv, NEW n \in Nodes, Restart(n)
  PROVE  SigningInv'
<1>1. /\ phase[n] = "down" /\ phase' = [phase EXCEPT ![n] = "idle"]
      /\ round' = [round EXCEPT ![n] = StartRound(n)]
      /\ crounds' = [crounds EXCEPT ![n] = dRounds[n]]
      /\ UNCHANGED <<created, cur, dVertices, dProposed, dCheckpoint>>
  BY DEF Restart, netVars, diskVars
<1>2. phase'[n] = "idle" /\ round'[n] = StartRound(n)
  BY <1>1 DEF TypeOK
<1>3. /\ StartRound(n) \in Nat /\ StartRound(n) > dProposed[n] /\ dProposed[n] \in Nat
      /\ \A v \in Recovered(n) : StartRound(n) > v.round
  BY RestartRound DEF TypeOK
<1>4. ASSUME dCheckpoint[n].round = 0, NEW h \in created, h.author = n
      PROVE  h.round < StartRound(n)
  <2>1. Recovered(n) = dVertices[n]
    BY <1>4 DEF Recovered
  <2>2. h.round \in Nat /\ \A v \in dVertices[n] : v.round \in Nat
    BY DEF TypeOK, VertexId
  <2>3. h.round <= dProposed[n] \/ \E v \in dVertices[n] : v.round >= h.round
    BY <1>4 DEF SigningInv, OnDisk
  <2> QED
    BY <1>3, <2>1, <2>2, <2>3
<1>5. RoundIsAhead(n)'
  BY <1>1, <1>2, <1>3, <1>4 DEF RoundIsAhead
<1>6. InHand(n)'
  BY <1>2 DEF InHand
<1>7. OnDisk(n)'
  BY <1>1 DEF OnDisk, SigningInv
<1> QED
  BY <1>1, <1>5, <1>6, <1>7, OneNodeStep DEF NodeInv, TypeOK

LEMMA SigningNext == TypeOK /\ SigningInv /\ [Next]_vars => SigningInv'
<1> SUFFICES ASSUME TypeOK, SigningInv, [Next]_vars PROVE SigningInv'
  OBVIOUS
<1>1. ASSUME NEW n \in Nodes, NEW v \in sent, Receive(n, v) PROVE SigningInv'
  BY <1>1, ReceiveSigning
<1>2. ASSUME NEW n \in Nodes,
             \/ Propose(n) \/ Commit(n) \/ SaveSequence(n) \/ Execute(n) \/ Seal(n)
             \/ Publish(n) \/ Record(n) \/ Crash(n) \/ CutOff(n) \/ Restart(n)
      PROVE  SigningInv'
  BY <1>2, ProposeSigning, CommitSigning, SaveSequenceSigning, ExecuteSigning, SealSigning,
     PublishSigning, RecordSigning, CrashSigning, CutOffSigning, RestartSigning
<1>3. CASE UNCHANGED vars
  <2>1. UNCHANGED <<created, phase, round, cur, crounds, dVertices, dProposed, dCheckpoint>>
    BY <1>3 DEF vars, netVars, memVars, diskVars
  <2> QED
    BY <2>1 DEF SigningInv, SignsOnceBeforeCheckpoint, RoundIsAhead, InHand, OnDisk
<1> QED
  BY <1>1, <1>2, <1>3 DEF Next

\* Types and SigningInv hold together: neither is inductive without the other.
THEOREM SigningInvariant == Spec => [](TypeOK /\ SigningInv)
<1>1. TypeOK /\ SigningInv /\ [Next]_vars => (TypeOK /\ SigningInv)'
  BY TypeOKNext, SigningNext DEF SigningInv
<1> QED
  BY <1>1, InitHolds, PTL DEF Spec

\* Every variable but the four sequences of the ordering engine keeps its type.
THEOREM TypesCorrect == Spec => []TypeOK
BY SigningInvariant, PTL

\* A validator that has taken no checkpoint yet never signs two vertices for one
\* round, wherever it crashes in try_create_vertex or add_vertex (dag.rs:221).
THEOREM NoDoubleSignBeforeCheckpoint == Spec => []SignsOnceBeforeCheckpoint
<1>1. SigningInv => SignsOnceBeforeCheckpoint
  BY DEF SigningInv
<1> QED
  BY <1>1, SigningInvariant, PTL

-----------------------------------------------------------------------------
(* Who is slashed, and for what. *)

\* What add_vertex does to the slash queue, to the DAG and to last_seen.
LEMMA AddVertexSlashes ==
  ASSUME TypeOK, NEW n \in Nodes, NEW v \in VertexId, AddVertex(n, v)
  PROVE  /\ dVertices' = [dVertices EXCEPT ![n] = dVertices[n] \cup {v}]
         /\ UNCHANGED <<dCheckpoint, unseen>>
         /\ \/ /\ \E w \in dag[n] : SameSlot(v, w) /\ w # v
               /\ dPending' = [dPending EXCEPT ![n][v.author] = "double_sign"]
               /\ UNCHANGED <<dag, dLastSeen>>
            \/ /\ dPending' = dPending
               /\ dag' = [dag EXCEPT ![n] = dag[n] \cup {v}]
               /\ dLastSeen' = [dLastSeen EXCEPT ![n][v.author] =
                                  IF v.author # n /\ v.round > dLastSeen[n][v.author]
                                  THEN v.round ELSE dLastSeen[n][v.author]]
<1>1. CASE RejectTwin(n, v) /\ \E w \in dag[n] : SameSlot(v, w) /\ w # v
  BY <1>1 DEF AddVertex, RejectTwin, histVars
<1>2. CASE Accept(n, v)
  BY <1>2 DEF AddVertex, Accept, SeenNow, histVars
<1> QED
  BY <1>1, <1>2 DEF AddVertex, HasTwin

\* What a crash in add_vertex does to them.
LEMMA CutOffAddSlashes ==
  ASSUME TypeOK, NEW n \in Nodes, NEW v \in VertexId, CutOffAdd(n, v)
  PROVE  /\ dVertices' = [dVertices EXCEPT ![n] = dVertices[n] \cup {v}]
         /\ dag' = [dag EXCEPT ![n] = {}]
         /\ dCheckpoint' = dCheckpoint
         /\ \/ /\ UNCHANGED <<dPending, dLastSeen>>
               /\ unseen' = [unseen EXCEPT ![n] = IF v.author = n THEN unseen[n]
                                                                 ELSE unseen[n] \cup {v}]
            \/ /\ \E w \in dag[n] : SameSlot(v, w) /\ w # v
               /\ dPending' = [dPending EXCEPT ![n][v.author] = "double_sign"]
               /\ UNCHANGED <<dLastSeen, unseen>>
            \/ /\ UNCHANGED <<dPending, unseen>>
               /\ dLastSeen' = [dLastSeen EXCEPT ![n][v.author] =
                                  IF v.author # n /\ v.round > dLastSeen[n][v.author]
                                  THEN v.round ELSE dLastSeen[n][v.author]]
BY DEF CutOffAdd, HasTwin, SeenNow, Die, slashVars

LEMMA AccusedSignedTwiceNext ==
  TypeOK /\ SigningInv /\ AccusedSignedTwice /\ [Next]_vars => AccusedSignedTwice'
<1> SUFFICES ASSUME TypeOK, SigningInv, AccusedSignedTwice, [Next]_vars PROVE AccusedSignedTwice'
  OBVIOUS
<1> DEFINE Twice(a) == \E v, w \in created : SameSlot(v, w) /\ v # w /\ v.author = a
<1>1. CASE UNCHANGED <<created, dPending>>
  BY <1>1 DEF AccusedSignedTwice, SameSlot
<1>2. ASSUME NEW n \in Nodes, NEW v \in VertexId, v \in created', created \subseteq created',
             AddVertex(n, v) \/ CutOffAdd(n, v)
      PROVE  AccusedSignedTwice'
  <2>1. \A a : Twice(a) => Twice(a)'
    BY <1>2 DEF SameSlot
  <2>2. CASE dPending' = dPending
    BY <2>1, <2>2 DEF AccusedSignedTwice
  <2>3. CASE /\ \E w \in dag[n] : SameSlot(v, w) /\ w # v
             /\ dPending' = [dPending EXCEPT ![n][v.author] = "double_sign"]
    <3>1. Twice(v.author)'
      BY <1>2, <2>3 DEF TypeOK, SameSlot
    <3>2. ASSUME NEW m \in Nodes, NEW a \in Validators, dPending'[m][a] = "double_sign",
                 m # n \/ a # v.author
          PROVE  Twice(a)'
      BY <2>1, <2>3, <3>2 DEF AccusedSignedTwice, TypeOK
    <3> QED BY <3>1, <3>2 DEF AccusedSignedTwice
  <2> QED BY <1>2, <2>2, <2>3, AddVertexSlashes, CutOffAddSlashes
<1>3. ASSUME NEW n \in Nodes, Propose(n) PROVE AccusedSignedTwice'
  <2>1. PICK v \in VertexId : created' = created \cup {v} /\ AddVertex(n, v)
    BY <1>3, Zenon DEF Propose, Sign
  <2> QED BY <1>2, <2>1
<1>4. ASSUME NEW n \in Nodes, NEW v \in sent, Receive(n, v) PROVE AccusedSignedTwice'
  <2>1. v \in VertexId /\ v \in created' /\ created' = created /\ AddVertex(n, v)
    BY <1>4 DEF Receive, TypeOK, netVars
  <2> QED BY <1>2, <2>1
<1>5. ASSUME NEW n \in Nodes, Execute(n) \/ Record(n) \/ (\E a \in Validators : CutOffRecord(n, a))
      PROVE  AccusedSignedTwice'
  <2>1. created' = created
    BY <1>5 DEF Execute, Record, CutOffRecord, netVars
  <2>2. PICK f \in [Validators -> {NoSlash, "double_sign", "downtime"}] :
          /\ dPending' = [dPending EXCEPT ![n] = f]
          /\ \A a \in Validators : f[a] = "double_sign" => dPending[n][a] = "double_sign"
    <3>1. dPending[n] \in [Validators -> {NoSlash, "double_sign", "downtime"}]
      BY DEF TypeOK
    <3>2. CASE Execute(n)
      <4> DEFINE f == [v \in Validators |-> IF v \in SlashesDue(n) THEN NoSlash ELSE dPending[n][v]]
      <4>1. dPending' = [dPending EXCEPT ![n] = f]
        BY <3>2 DEF Execute
      <4>2. f \in [Validators -> {NoSlash, "double_sign", "downtime"}]
        BY <3>1
      <4>3. \A a \in Validators : f[a] = "double_sign" => dPending[n][a] = "double_sign"
        BY DEF NoSlash
      <4> HIDE DEF f
      <4> QED BY <4>1, <4>2, <4>3
    <3>3. ASSUME NEW late,
                 dPending' = [dPending EXCEPT ![n] =
                   [v \in Validators |-> IF v \in late THEN "downtime" ELSE dPending[n][v]]]
          PROVE  \E g \in [Validators -> {NoSlash, "double_sign", "downtime"}] :
                   /\ dPending' = [dPending EXCEPT ![n] = g]
                   /\ \A a \in Validators : g[a] = "double_sign" => dPending[n][a] = "double_sign"
      <4> DEFINE f == [v \in Validators |-> IF v \in late THEN "downtime" ELSE dPending[n][v]]
      <4>1. f \in [Validators -> {NoSlash, "double_sign", "downtime"}]
        BY <3>1
      <4>2. \A a \in Validators : f[a] = "double_sign" => dPending[n][a] = "double_sign"
        OBVIOUS
      <4>3. dPending' = [dPending EXCEPT ![n] = f]
        BY <3>3
      <4> HIDE DEF f
      <4> QED BY <4>1, <4>2, <4>3
    <3>4. CASE Record(n)
      BY <3>3, <3>4 DEF Record
    <3>5. CASE \E a \in Validators : CutOffRecord(n, a)
      BY <3>3, <3>5 DEF CutOffRecord
    <3> QED BY <1>5, <3>2, <3>4, <3>5
  <2>3. ASSUME NEW m \in Nodes, NEW a \in Validators, dPending'[m][a] = "double_sign"
        PROVE  dPending[m][a] = "double_sign"
    <3>1. dPending'[m] = IF m = n THEN f ELSE dPending[m]
      BY <2>2 DEF TypeOK
    <3> QED BY <2>2, <2>3, <3>1
  <2> QED BY <2>1, <2>3 DEF AccusedSignedTwice, SameSlot
<1>6. ASSUME NEW n \in Nodes,
             Commit(n) \/ SaveSequence(n) \/ Seal(n) \/ Publish(n) \/ Crash(n) \/ Restart(n)
      PROVE  AccusedSignedTwice'
  BY <1>1, <1>6 DEF Commit, SaveSequence, Seal, Publish, Crash, Restart, netVars, slashVars, diskVars
<1>7. ASSUME NEW n \in Nodes, CutOff(n) PROVE AccusedSignedTwice'
  <2>1. ASSUME NEW v \in VertexId, Sign(n, v), CutOffAdd(n, v) PROVE AccusedSignedTwice'
    BY <1>2, <2>1 DEF Sign
  <2>2. ASSUME NEW v \in sent, CutOffAdd(n, v), UNCHANGED netVars PROVE AccusedSignedTwice'
    BY <1>2, <2>2 DEF netVars, TypeOK
  <2> QED BY <1>5, <1>7, <2>1, <2>2 DEF CutOff
<1>8. CASE UNCHANGED vars
  BY <1>1, <1>8 DEF vars, netVars, diskVars, slashVars
<1> QED
  BY <1>3, <1>4, <1>5, <1>6, <1>7, <1>8 DEF Next

\* Whoever a node accuses of double-signing has signed two vertices of one round, for any
\* validator set, over checkpoints, prunings, crashes and restarts.
THEOREM OnlyDoubleSignersAccused == Spec => []AccusedSignedTwice
<1>1. Init => AccusedSignedTwice
  BY DEF Init, NodesInit, AccusedSignedTwice, NoSlash
<1> QED
  BY <1>1, AccusedSignedTwiceNext, SigningInvariant, PTL DEF Spec

\* Every vertex that a node holds, or would hold after a restart, has been counted in
\* last_seen: the twin that is kept on disk too, for the vertex it is a twin of was.
\* Only where a crash came between the vertex and last_seen is there none.
Unseen(n, v) == \E u \in unseen[n] : SameSlot(u, v)

SeenUpTo(n, S) == \A v \in S : v.author # n => v.round <= dLastSeen[n][v.author] \/ Unseen(n, v)

LastSeenInv ==
  \A n \in Nodes : /\ SeenUpTo(n, dag[n]) /\ SeenUpTo(n, dVertices[n])
                   /\ SeenUpTo(n, dCheckpoint[n].vertices)

LEMMA LastSeenGrows ==
  ASSUME TypeOK, NEW n \in Nodes, NEW S \in SUBSET VertexId, SeenUpTo(n, S),
         \A a \in Validators : a # n => dLastSeen'[n][a] >= dLastSeen[n][a],
         dLastSeen' \in [Nodes -> [Validators -> Nat]], unseen[n] \subseteq unseen'[n]
  PROVE  SeenUpTo(n, S)'
<1>1. \A v \in S : v.author \in Validators /\ v.round \in Nat
  BY DEF VertexId
<1>2. \A a \in Validators : dLastSeen[n][a] \in Nat /\ dLastSeen'[n][a] \in Nat
  BY DEF TypeOK
<1>3. \A v \in S : Unseen(n, v) => Unseen(n, v)'
  BY DEF Unseen, SameSlot
<1> QED
  BY <1>1, <1>2, <1>3 DEF SeenUpTo

LEMMA LastSeenNext == TypeOK /\ SigningInv /\ LastSeenInv /\ [Next]_vars => LastSeenInv'
<1> SUFFICES ASSUME TypeOK, SigningInv, LastSeenInv, [Next]_vars PROVE LastSeenInv'
  OBVIOUS
<1>0. TypeOK'
  BY TypeOKNext DEF SigningInv
<1> DEFINE Held(m) == SeenUpTo(m, dag[m]) /\ SeenUpTo(m, dVertices[m])
                        /\ SeenUpTo(m, dCheckpoint[m].vertices)
<1>1. \A m \in Nodes : Held(m)
  BY DEF LastSeenInv
<1>2. /\ \A m \in Nodes : /\ dag[m] \in SUBSET VertexId /\ dVertices[m] \in SUBSET VertexId
                          /\ dCheckpoint[m].vertices \in SUBSET VertexId
      /\ dLastSeen' \in [Nodes -> [Validators -> Nat]]
  BY <1>0 DEF TypeOK
\* A node's own last_seen apart, it only grows; and what the node holds it held before.
<1>3. ASSUME NEW m \in Nodes,
             \A a \in Validators : a # m => dLastSeen'[m][a] >= dLastSeen[m][a],
             unseen[m] \subseteq unseen'[m],
             dag'[m] \subseteq dag[m] \cup dVertices[m] \cup dCheckpoint[m].vertices,
             dVertices'[m] \subseteq dVertices[m],
             dCheckpoint'[m].vertices \subseteq dag[m] \cup dCheckpoint[m].vertices
      PROVE  Held(m)'
  <2>1. SeenUpTo(m, dag[m] \cup dVertices[m] \cup dCheckpoint[m].vertices)
    BY <1>1 DEF SeenUpTo
  <2>2. dag[m] \cup dVertices[m] \cup dCheckpoint[m].vertices \in SUBSET VertexId
    BY <1>2
  <2> DEFINE S == dag[m] \cup dVertices[m] \cup dCheckpoint[m].vertices
  <2>3. PICK T : T = S
    OBVIOUS
  <2>4. SeenUpTo(m, T)'
    BY <1>2, <1>3, <2>1, <2>2, <2>3, LastSeenGrows
  <2>5. dag'[m] \subseteq T /\ dVertices'[m] \subseteq T /\ dCheckpoint'[m].vertices \subseteq T
    BY <1>3, <2>3
  <2> QED BY <2>4, <2>5 DEF SeenUpTo
<1>4. ASSUME NEW m \in Nodes,
             UNCHANGED <<dag[m], dVertices[m], dCheckpoint[m], dLastSeen[m], unseen[m]>>
      PROVE  Held(m)'
  BY <1>1, <1>4 DEF SeenUpTo, Unseen
\* A vertex that is put on the disk, and in the DAG if the node lives on.
<1>5. ASSUME NEW n \in Nodes, NEW v \in VertexId,
             \A m \in Nodes : m # n =>
               UNCHANGED <<dag[m], dVertices[m], dCheckpoint[m], dLastSeen[m], unseen[m]>>,
             dag'[n] \subseteq dag[n] \cup {v}, dVertices'[n] = dVertices[n] \cup {v},
             dCheckpoint'[n] = dCheckpoint[n],
             \A a \in Validators : dLastSeen'[n][a] >= dLastSeen[n][a],
             unseen[n] \subseteq unseen'[n],
             v.author # n => v.round <= dLastSeen'[n][v.author] \/ Unseen(n, v)'
      PROVE  LastSeenInv'
  <2>1. PICK D, V, C : D = dag[n] /\ V = dVertices[n] /\ C = dCheckpoint[n].vertices
    OBVIOUS
  <2>2. SeenUpTo(n, D)' /\ SeenUpTo(n, V)' /\ SeenUpTo(n, C)'
    BY <1>1, <1>2, <1>5, <2>1, LastSeenGrows
  <2>3. SeenUpTo(n, {v})'
    BY <1>5 DEF SeenUpTo
  <2>4. Held(n)'
    BY <1>5, <2>1, <2>2, <2>3 DEF SeenUpTo
  <2> QED BY <1>4, <1>5, <2>4 DEF LastSeenInv
\* The three outcomes for the last seen of the author: counted, a twin of one that was,
\* or cut off.
<1>6. ASSUME NEW n \in Nodes, NEW v \in VertexId, NEW D \in {dag[n] \cup {v}, dag[n], {}},
             dVertices' = [dVertices EXCEPT ![n] = dVertices[n] \cup {v}],
             dCheckpoint' = dCheckpoint, dag' = [dag EXCEPT ![n] = D],
             \/ /\ dLastSeen' = [dLastSeen EXCEPT ![n][v.author] =
                                   IF v.author # n /\ v.round > dLastSeen[n][v.author]
                                   THEN v.round ELSE dLastSeen[n][v.author]]
                /\ unseen' = unseen
             \/ (\E w \in dag[n] : SameSlot(v, w)) /\ UNCHANGED <<dLastSeen, unseen>>
             \/ /\ dLastSeen' = dLastSeen
                /\ unseen' = [unseen EXCEPT ![n] = IF v.author = n THEN unseen[n]
                                                                   ELSE unseen[n] \cup {v}]
      PROVE  LastSeenInv'
  <2>1. v.round \in Nat /\ v.author \in Validators /\ dLastSeen[n] \in [Validators -> Nat]
    BY RoundsAssumption DEF VertexId, TypeOK
  <2>2. \A m \in Nodes : m # n =>
          UNCHANGED <<dag[m], dVertices[m], dCheckpoint[m], dLastSeen[m], unseen[m]>>
    BY <1>6 DEF TypeOK
  <2>3. /\ dag'[n] \subseteq dag[n] \cup {v} /\ dVertices'[n] = dVertices[n] \cup {v}
        /\ dCheckpoint'[n] = dCheckpoint[n] /\ unseen[n] \subseteq unseen'[n]
    BY <1>6 DEF TypeOK
  <2>4. /\ \A a \in Validators : dLastSeen'[n][a] >= dLastSeen[n][a]
        /\ v.author # n => v.round <= dLastSeen'[n][v.author] \/ Unseen(n, v)'
    <3>1. CASE dLastSeen' = [dLastSeen EXCEPT ![n][v.author] =
                               IF v.author # n /\ v.round > dLastSeen[n][v.author]
                               THEN v.round ELSE dLastSeen[n][v.author]]
      BY <2>1, <3>1 DEF TypeOK
    <3>2. \A a \in Validators : dLastSeen[n][a] >= dLastSeen[n][a]
      BY <2>1
    <3>3. CASE (\E w \in dag[n] : SameSlot(v, w)) /\ UNCHANGED <<dLastSeen, unseen>>
      BY <1>1, <3>2, <3>3 DEF SeenUpTo, SameSlot, Unseen
    <3>4. CASE /\ dLastSeen' = dLastSeen
               /\ unseen' = [unseen EXCEPT ![n] = IF v.author = n THEN unseen[n]
                                                                  ELSE unseen[n] \cup {v}]
      BY <3>2, <3>4 DEF SameSlot, Unseen, TypeOK
    <3> QED BY <1>6, <3>1, <3>3, <3>4
  <2> QED BY <1>5, <2>2, <2>3, <2>4
<1>7. ASSUME NEW n \in Nodes, NEW v \in VertexId, AddVertex(n, v) PROVE LastSeenInv'
  <2>1. dag' = [dag EXCEPT ![n] = dag[n]] \/ dag' = [dag EXCEPT ![n] = dag[n] \cup {v}]
    BY <1>7, AddVertexSlashes DEF TypeOK
  <2> QED BY <1>6, <1>7, <2>1, AddVertexSlashes
<1>8. ASSUME NEW n \in Nodes, NEW v \in VertexId, CutOffAdd(n, v) PROVE LastSeenInv'
  BY <1>6, <1>8, CutOffAddSlashes
\* The downtime check writes the node's own last_seen, whether it comes to its end or not.
<1>9. ASSUME NEW n \in Nodes, PutsOfRecord(n), UNCHANGED <<dVertices, dCheckpoint, unseen>>,
             \A m \in Nodes : dag'[m] \subseteq dag[m]
      PROVE  LastSeenInv'
  <2>1. \A m \in Nodes, a \in Validators : a # m => dLastSeen'[m][a] = dLastSeen[m][a]
    BY <1>9 DEF PutsOfRecord, TypeOK
  <2>2. \A m \in Nodes, a \in Validators : a # m => dLastSeen'[m][a] >= dLastSeen[m][a]
    BY <2>1 DEF TypeOK
  <2> QED BY <1>3, <1>9, <2>2 DEF LastSeenInv
<1>10. ASSUME NEW n \in Nodes, Propose(n) PROVE LastSeenInv'
  <2>1. PICK v \in VertexId : AddVertex(n, v)
    BY <1>10, Zenon DEF Propose
  <2> QED BY <1>7, <2>1
<1>11. ASSUME NEW n \in Nodes, NEW v \in sent, Receive(n, v) PROVE LastSeenInv'
  <2>1. v \in VertexId /\ AddVertex(n, v)
    BY <1>11 DEF Receive, TypeOK
  <2> QED BY <1>7, <2>1
<1>12. ASSUME NEW n \in Nodes, Seal(n) PROVE LastSeenInv'
  <2>1. \A m \in Nodes : /\ dag'[m] \subseteq dag[m] /\ dVertices'[m] \subseteq dVertices[m]
                         /\ dCheckpoint'[m].vertices \subseteq dag[m] \cup dCheckpoint[m].vertices
    BY <1>12 DEF Seal, TypeOK
  <2>2. UNCHANGED <<dLastSeen, unseen>>
    BY <1>12 DEF Seal, slashVars, histVars
  <2>3. \A m \in Nodes, a \in Validators : dLastSeen'[m][a] >= dLastSeen[m][a]
    BY <2>2 DEF TypeOK
  <2> QED BY <1>3, <2>1, <2>2, <2>3 DEF LastSeenInv
<1>13. ASSUME NEW n \in Nodes, Record(n) PROVE LastSeenInv'
  BY <1>9, <1>13 DEF Record, histVars
<1>14. ASSUME NEW n \in Nodes, NEW a \in Validators, CutOffRecord(n, a) PROVE LastSeenInv'
  <2>1. \A m \in Nodes : dag'[m] \subseteq dag[m]
    BY <1>14 DEF CutOffRecord, Die, TypeOK
  <2> QED BY <1>9, <1>14, <2>1 DEF CutOffRecord
<1>15. ASSUME NEW n \in Nodes, CutOff(n) PROVE LastSeenInv'
  BY <1>8, <1>14, <1>15 DEF CutOff, TypeOK
<1>16. ASSUME NEW n \in Nodes, Crash(n) \/ Restart(n) PROVE LastSeenInv'
  <2>1. UNCHANGED <<dVertices, dCheckpoint, dLastSeen, unseen>>
    BY <1>16 DEF Crash, Restart, diskVars, slashVars, histVars
  <2>2. \A m \in Nodes : dag'[m] \subseteq dag[m] \cup dVertices[m] \cup dCheckpoint[m].vertices
    <3>1. CASE Crash(n)
      BY <3>1 DEF Crash, Die, TypeOK
    <3>2. CASE Restart(n)
      <4>1. dag' = [dag EXCEPT ![n] = Recovered(n)]
        BY <3>2 DEF Restart
      <4>2. Recovered(n) \subseteq dVertices[n] \cup dCheckpoint[n].vertices
        BY DEF Recovered
      <4> QED BY <4>1, <4>2 DEF TypeOK
    <3> QED BY <1>16, <3>1, <3>2
  <2>3. \A m \in Nodes, a \in Validators : dLastSeen'[m][a] >= dLastSeen[m][a]
    BY <2>1 DEF TypeOK
  <2> QED BY <1>3, <2>1, <2>2, <2>3 DEF LastSeenInv
<1>17. ASSUME UNCHANGED <<dag, dVertices, dCheckpoint, dLastSeen, unseen>> PROVE LastSeenInv'
  BY <1>4, <1>17 DEF LastSeenInv
<1>18. ASSUME NEW n \in Nodes, Commit(n) \/ SaveSequence(n) \/ Execute(n) \/ Publish(n)
       PROVE  LastSeenInv'
  BY <1>17, <1>18 DEF Commit, SaveSequence, Execute, Publish, slashVars, diskVars, histVars
<1>19. CASE UNCHANGED vars
  BY <1>17, <1>19 DEF vars, memVars, diskVars, slashVars, histVars
<1> QED
  BY <1>10, <1>11, <1>12, <1>13, <1>15, <1>16, <1>18, <1>19 DEF Next

LEMMA LastSeenInvariant == Spec => []LastSeenInv
<1>1. Init => LastSeenInv
  BY DEF Init, NodesInit, LastSeenInv, SeenUpTo, NoCheckpoint
<1> QED
  BY <1>1, LastSeenNext, SigningInvariant, PTL DEF Spec

\* Who is queued for downtime has not been heard of for the threshold, as far as last_seen
\* has reached the disk.
Absent(n, a) == \A v \in dag[n] : v.author = a => LongAgo(n, v) \/ Unseen(n, v)

LEMMA MissingIsAbsent ==
  ASSUME TypeOK, LastSeenInv, NEW n \in Nodes, NEW a \in Missing(n)
  PROVE  Absent(n, a)
<1> SUFFICES ASSUME NEW v \in dag[n], v.author = a, ~Unseen(n, v) PROVE LongAgo(n, v)
  BY DEF Absent
<1>1. /\ a \in Validators /\ a # n /\ round[n] - dLastSeen[n][a] >= DowntimeThreshold
  BY DEF Missing
<1>2. v.round <= dLastSeen[n][a]
  BY <1>1 DEF LastSeenInv, SeenUpTo
<1>3. /\ v.round \in Nat /\ round[n] \in Nat /\ dLastSeen[n][a] \in Nat
      /\ DowntimeThreshold \in Nat
  BY <1>1, PeriodsAssumption, RoundsAssumption DEF TypeOK, VertexId
<1> QED
  BY <1>1, <1>2, <1>3 DEF LongAgo

\* Slashes for downtime are queued by the downtime check only, for who is missing.
LEMMA OnlyMissingSlashed ==
  ASSUME TypeOK, [Next]_vars, NEW m \in Nodes, NEW a \in Validators, Slashes(m, a)
  PROVE  a \in Missing(m)
<1>0. dPending \in [Nodes -> [Validators -> {NoSlash, "double_sign", "downtime"}]]
  BY DEF TypeOK
<1>1. ASSUME NEW n \in Nodes, NEW late \in SUBSET Missing(n),
             dPending' = [dPending EXCEPT ![n] =
               [v \in Validators |-> IF v \in late THEN "downtime" ELSE dPending[n][v]]]
      PROVE  a \in Missing(m)
  <2>1. dPending'[m] = IF m = n THEN [v \in Validators |-> IF v \in late THEN "downtime"
                                                                           ELSE dPending[n][v]]
                                ELSE dPending[m]
    BY <1>0, <1>1
  <2> QED BY <1>1, <2>1 DEF Slashes
<1>2. ASSUME NEW n \in Nodes, Record(n) PROVE a \in Missing(m)
  BY <1>1, <1>2 DEF Record
<1>3. ASSUME NEW n \in Nodes, NEW b \in Validators, CutOffRecord(n, b) PROVE a \in Missing(m)
  <2> DEFINE done == {v \in Missing(n) : Place(v) < Place(b)}
  <2>1. done \in SUBSET Missing(n)
    OBVIOUS
  <2>2. dPending' = [dPending EXCEPT ![n] =
          [v \in Validators |-> IF v \in done THEN "downtime" ELSE dPending[n][v]]]
    BY <1>3 DEF CutOffRecord
  <2> HIDE DEF done
  <2> QED BY <1>1, <2>1, <2>2
<1>4. ASSUME dPending' = dPending PROVE FALSE
  BY <1>4 DEF Slashes
<1>5. ASSUME NEW n \in Nodes, NEW v \in VertexId, AddVertex(n, v) \/ CutOffAdd(n, v) PROVE FALSE
  <2>1. \/ dPending' = [dPending EXCEPT ![n][v.author] = "double_sign"]
        \/ dPending' = dPending
    BY <1>5, AddVertexSlashes, CutOffAddSlashes
  <2>2. dPending'[m][a] = "double_sign" \/ dPending'[m][a] = dPending[m][a]
    BY <1>0, <2>1
  <2> QED BY <2>2 DEF Slashes
<1>6. ASSUME NEW n \in Nodes, Propose(n) PROVE FALSE
  BY <1>5, <1>6 DEF Propose
<1>7. ASSUME NEW n \in Nodes, NEW v \in sent, Receive(n, v) PROVE FALSE
  BY <1>5, <1>7 DEF Receive, TypeOK
<1>8. ASSUME NEW n \in Nodes, CutOff(n) PROVE a \in Missing(m)
  BY <1>3, <1>5, <1>8 DEF CutOff, TypeOK
<1>9. ASSUME NEW n \in Nodes, Execute(n) PROVE FALSE
  <2>1. dPending'[m] = IF m = n THEN [v \in Validators |-> IF v \in SlashesDue(n) THEN NoSlash
                                                                                   ELSE dPending[n][v]]
                                ELSE dPending[m]
    BY <1>0, <1>9 DEF Execute
  <2> QED BY <2>1 DEF NoSlash, Slashes
<1>10. ASSUME NEW n \in Nodes,
              Commit(n) \/ SaveSequence(n) \/ Seal(n) \/ Publish(n) \/ Crash(n) \/ Restart(n)
       PROVE  FALSE
  BY <1>4, <1>10 DEF Commit, SaveSequence, Seal, Publish, Crash, Restart, slashVars, diskVars
<1>11. ~UNCHANGED vars
  BY <1>4 DEF vars, diskVars, slashVars
<1> QED
  BY <1>2, <1>6, <1>7, <1>8, <1>9, <1>10, <1>11 DEF Next

\* A validator is slashed for downtime only by a node that holds no vertex of it within the
\* threshold, for any thresholds, and over crashes of the node that accuses it anywhere in
\* add_vertex: but for the slots of which such a crash has kept last_seen from the disk.
THEOREM DowntimeIsAbsence == Spec => SlashedForAbsence
<1> DEFINE Fair == \A n \in Nodes : \A a \in Validators : Slashes(n, a) => Absent(n, a)
<1>1. TypeOK /\ LastSeenInv /\ [Next]_vars => Fair
  BY OnlyMissingSlashed, MissingIsAbsent
<1>2. Fair => \A n \in Nodes : \A a \in Validators : Slashes(n, a) =>
                \A v \in dag[n] : v.author = a =>
                  LongAgo(n, v) \/ \E u \in unseen[n] : SameSlot(u, v)
  BY DEF Absent, Unseen
<1> HIDE DEF Fair
<1> QED
  BY <1>1, <1>2, SigningInvariant, LastSeenInvariant, PTL DEF Spec, SlashedForAbsence

-----------------------------------------------------------------------------
(* What a commit orders *)

Pos(a) == CHOOSE i \in 1..NValidators : ValidatorList[i] = a

LEMMA PositionOfValidator ==
  ASSUME NEW a \in Validators
  PROVE  Pos(a) \in Nat /\ ValidatorList[Pos(a)] = a
<1>1. \E i \in 1..NValidators : ValidatorList[i] = a
  BY DEF Validators
<1>2. Pos(a) \in 1..NValidators /\ ValidatorList[Pos(a)] = a
  BY <1>1 DEF Pos
<1>3. NValidators \in Nat
  BY ListAssumption DEF NValidators
<1>. QED BY <1>2, <1>3

\* InOrder is a strict total order of the vertices.
LEMMA OrderIsTotal ==
  /\ \A v \in VertexId : ~InOrder(v, v)
  /\ \A v, w \in VertexId : v # w => InOrder(v, w) \/ InOrder(w, v)
  /\ \A u, v, w \in VertexId : InOrder(u, v) /\ InOrder(v, w) => InOrder(u, w)
<1> DEFINE Before(v, w) ==
             \/ v.round < w.round
             \/ /\ v.round = w.round
                /\ \/ Pos(v.author) < Pos(w.author)
                   \/ v.author = w.author /\ v.copy < w.copy
<1>1. \A v, w : InOrder(v, w) <=> Before(v, w)
  BY DEF InOrder, HashLess, Pos
<1>2. ASSUME NEW v \in VertexId
      PROVE  v.round \in Nat /\ v.copy \in Nat /\ v.author \in Validators
  BY RoundsAssumption DEF VertexId
<1>3. \A a \in Validators : Pos(a) \in Nat
  BY PositionOfValidator
<1>4. \A a, b \in Validators : Pos(a) = Pos(b) => a = b
  BY PositionOfValidator
<1>5. ASSUME NEW v \in VertexId PROVE ~Before(v, v)
  <2>1. v.round \in Nat /\ v.copy \in Nat /\ Pos(v.author) \in Nat
    BY <1>2, <1>3
  <2>. QED BY <2>1
<1>6. ASSUME NEW v \in VertexId, NEW w \in VertexId, v # w PROVE Before(v, w) \/ Before(w, v)
  <2>1. /\ v.round \in Nat /\ v.copy \in Nat /\ Pos(v.author) \in Nat
        /\ w.round \in Nat /\ w.copy \in Nat /\ Pos(w.author) \in Nat
    BY <1>2, <1>3
  <2>2. ~(v.round = w.round /\ v.author = w.author /\ v.copy = w.copy)
    BY <1>6 DEF VertexId
  <2>3. Pos(v.author) = Pos(w.author) => v.author = w.author
    BY <1>2, <1>4
  <2>. QED BY <2>1, <2>2, <2>3
<1>7. ASSUME NEW u \in VertexId, NEW v \in VertexId, NEW w \in VertexId, Before(u, v), Before(v, w)
      PROVE  Before(u, w)
  <2>1. /\ u.round \in Nat /\ u.copy \in Nat /\ Pos(u.author) \in Nat
        /\ v.round \in Nat /\ v.copy \in Nat /\ Pos(v.author) \in Nat
        /\ w.round \in Nat /\ w.copy \in Nat /\ Pos(w.author) \in Nat
    BY <1>2, <1>3
  <2>. QED BY <1>7, <2>1
<1> HIDE DEF Before
<1>. QED BY <1>1, <1>5, <1>6, <1>7

\* Sorting lists some elements of the set, none of them twice.
LEMMA SortedListsOnce ==
  ASSUME NEW S \in SUBSET VertexId, IsFiniteSet(S)
  PROVE  Sorted(S) \in Seq(S) /\ IsInjective(Sorted(S))
<1> DEFINE n == Cardinality(S)
           Before(v) == {w \in S : InOrder(w, v)}
           rank == [v \in S |-> Cardinality(Before(v))]
           at(i) == CHOOSE v \in S : Cardinality(Before(v)) = i - 1
<1>1. n \in Nat
  BY FS_CardinalityType
<1>2. ASSUME NEW v \in S PROVE Cardinality(Before(v)) \in 0..n - 1
  <2>1. Before(v) \in SUBSET S /\ v \notin Before(v)
    BY OrderIsTotal
  <2> HIDE DEF Before
  <2>2. /\ IsFiniteSet(Before(v)) /\ Cardinality(Before(v)) <= n
        /\ n = Cardinality(Before(v)) => S = Before(v)
    BY <2>1, FS_Subset
  <2>3. Cardinality(Before(v)) \in Nat
    BY <2>2, FS_CardinalityType
  <2>4. Cardinality(Before(v)) # n
    BY <2>1, <2>2
  <2> HIDE DEF n
  <2>. QED BY <1>1, <2>2, <2>3, <2>4
<1>3. ASSUME NEW v \in S, NEW w \in S, InOrder(v, w)
      PROVE  Cardinality(Before(v)) # Cardinality(Before(w))
  <2>1. Before(v) \in SUBSET Before(w) /\ v \in Before(w) /\ v \notin Before(v)
    BY <1>3, OrderIsTotal
  <2>2. Before(w) \in SUBSET S
    OBVIOUS
  <2> HIDE DEF Before
  <2>3. IsFiniteSet(Before(w))
    BY <2>2, FS_Subset
  <2>4. Cardinality(Before(w)) = Cardinality(Before(v)) => Before(w) = Before(v)
    BY <2>1, <2>3, FS_Subset
  <2>. QED BY <2>1, <2>4
<1> HIDE DEF Before
<1>4. rank \in Injection(S, 0..n - 1)
  <2>1. rank \in [S -> 0..n - 1]
    BY <1>2
  <2>2. ASSUME NEW v \in S, NEW w \in S, rank[v] = rank[w] PROVE v = w
    <3>1. Cardinality(Before(v)) = Cardinality(Before(w))
      BY <2>2
    <3>. QED BY <1>3, <3>1, OrderIsTotal
  <2> HIDE DEF rank
  <2>. QED BY <2>1, <2>2 DEF Injection, IsInjective
<1>5. IsFiniteSet(0..n - 1) /\ Cardinality(0..n - 1) = n
  <2> HIDE DEF n
  <2>1. 0 \in Int /\ n - 1 \in Int /\ n \in Nat
    BY <1>1
  <2>. QED BY ONLY <2>1, FS_Interval
<1>6. rank \in Surjection(S, 0..n - 1)
  <2> HIDE DEF rank
  <2>. QED BY <1>4, <1>5, FS_Injection
<1>7. ASSUME NEW i \in 1..n PROVE at(i) \in S /\ Cardinality(Before(at(i))) = i - 1
  <2>1. i - 1 \in 0..n - 1
    BY <1>1
  <2>2. PICK v \in S : rank[v] = i - 1
    BY <1>6, <2>1 DEF Surjection
  <2>3. \E u \in S : Cardinality(Before(u)) = i - 1
    BY <2>2
  <2>. QED BY <2>3
<1>8. Sorted(S) = [i \in 1..n |-> at(i)]
  BY DEF Sorted, Before
<1> HIDE DEF at, n
<1>9. Sorted(S) \in [1..n -> S]
  BY <1>7, <1>8
<1>10. ASSUME NEW i \in 1..n, NEW j \in 1..n, Sorted(S)[i] = Sorted(S)[j] PROVE i = j
  <2>1. at(i) = at(j)
    BY <1>8, <1>10
  <2>2. i - 1 = j - 1
    BY <1>7, <2>1
  <2>3. i \in Int /\ j \in Int
    BY <1>1
  <2>. QED BY ONLY <2>2, <2>3
<1>11. DOMAIN Sorted(S) = 1..n
  BY <1>8
<1>. QED BY <1>1, <1>9, <1>10, <1>11 DEF IsInjective

\* The history of a vertex that is held consists of vertices that are held.
LEMMA HistoryIsHeld ==
  ASSUME NEW D, NEW p, NEW C, NEW a \in D, a.round \in Nat
  PROVE  CausalHistory(D, p, C, a) \subseteq D
<1> DEFINE More(R) == R \cup {q \in D \ C : \E v \in R : q \in p[v]}
           F == [R \in SUBSET D |-> More(R)]
           Eq(g) == g = [k \in Nat |-> IF k = 0 THEN {a} ELSE More(g[k - 1])]
<1>1. F \in [SUBSET D -> SUBSET D] /\ {a} \in SUBSET D /\ \A R \in SUBSET D : F[R] = More(R)
  OBVIOUS
<1> HIDE DEF F
<1>2. PICK g \in [Nat -> SUBSET D] : IsTurns(F, {a}, Nat, g)
  BY <1>1, TurnsForever
<1> HIDE DEF More
<1>3. \A k \in Nat : k # 0 => F[g[k - 1]] = More(g[k - 1])
  <2> SUFFICES ASSUME NEW k \in Nat, k # 0 PROVE F[g[k - 1]] = More(g[k - 1])
    OBVIOUS
  <2>1. k - 1 \in Nat
    OBVIOUS
  <2>2. g[k - 1] \in SUBSET D
    BY <2>1
  <2>. QED BY <1>1, <2>2
<1>4. Eq(g)
  BY <1>2, <1>3 DEF IsTurns
<1>5. CausalHistory(D, p, C, a) = (CHOOSE h : Eq(h))[a.round]
  BY DEF CausalHistory, More
<1>6. PICK h : h = CHOOSE f : Eq(f)
  OBVIOUS
<1>7. Eq(h)
  <2> HIDE DEF Eq
  <2>. QED BY <1>4, <1>6
<1>8. h[0] = {a} /\ \A k \in Nat : h[k + 1] = More(h[k])
  <2>1. h[0] = {a}
    BY <1>7
  <2>2. ASSUME NEW k \in Nat PROVE h[k + 1] = More(h[k])
    <3>1. k + 1 \in Nat /\ k + 1 # 0 /\ (k + 1) - 1 = k
      OBVIOUS
    <3>. QED BY <1>7, <3>1
  <2>. QED BY <2>1, <2>2
<1> HIDE DEF Eq
<1>9. \A k \in Nat : h[k] \subseteq D
  <2> DEFINE B == {k \in Nat : ~(h[k] \subseteq D)}
  <2>1. \A R : R \subseteq D => More(R) \subseteq D
    BY DEF More
  <2>2. ASSUME B # {} PROVE FALSE
    <3>1. PICK x \in B : \A y \in B : x <= y
      <4>1. B \subseteq Nat
        OBVIOUS
      <4> HIDE DEF B
      <4>. QED BY <2>2, <4>1, LeastNatural
    <3>2. x # 0 /\ x \in Nat
      BY <1>8
    <3>3. x - 1 \in Nat /\ (x - 1) + 1 = x /\ ~(x <= x - 1)
      BY ONLY <3>2
    <3>4. h[x - 1] \subseteq D
      BY <3>1, <3>3
    <3>5. h[x] \subseteq D
      BY <1>8, <2>1, <3>3, <3>4
    <3>. QED BY <3>5
  <2>. QED BY <2>2
<1>. QED BY <1>5, <1>6, <1>9

-----------------------------------------------------------------------------
(* What is executed, and how often *)

\* A sequence put behind another that shares nothing with it.
LEMMA JoinedOnce ==
  ASSUME NEW X, NEW s \in Seq(X), NEW t \in Seq(X), IsInjective(s), IsInjective(t),
         ToSet(s) \cap ToSet(t) = {}
  PROVE  /\ s \o t \in Seq(X) /\ IsInjective(s \o t)
         /\ ToSet(s \o t) = ToSet(s) \cup ToSet(t)
<1> DEFINE m == Len(s)  k == Len(t)
<1>1. /\ m \in Nat /\ k \in Nat /\ DOMAIN s = 1..m /\ DOMAIN t = 1..k
      /\ s \o t \in Seq(X) /\ DOMAIN (s \o t) = 1..m + k
  OBVIOUS
<1>2. \A i \in 1..m + k : (s \o t)[i] = IF i <= m THEN s[i] ELSE t[i - m]
  OBVIOUS
<1> HIDE DEF m, k
<1>3. \A i \in 1..m + k : IF i <= m THEN i \in 1..m ELSE i - m \in 1..k
  BY <1>1
<1>4. \A i \in 1..m : \A j \in 1..k : s[i] # t[j]
  BY <1>1 DEF ToSet
<1>5. ASSUME NEW i \in 1..m + k, NEW j \in 1..m + k, (s \o t)[i] = (s \o t)[j] PROVE i = j
  <2>1. i \in Int /\ j \in Int
    BY <1>1
  <2>2. CASE i <= m /\ j <= m
    <3>1. i \in 1..m /\ j \in 1..m /\ s[i] = s[j]
      BY <1>2, <1>3, <1>5, <2>2
    <3>. QED BY <1>1, <3>1 DEF IsInjective
  <2>3. CASE ~(i <= m) /\ ~(j <= m)
    <3>1. i - m \in 1..k /\ j - m \in 1..k /\ t[i - m] = t[j - m]
      BY <1>2, <1>3, <1>5, <2>3
    <3>2. i - m = j - m
      BY <1>1, <3>1 DEF IsInjective
    <3>. QED BY <1>1, <2>1, <3>2
  <2>4. CASE (i <= m /\ ~(j <= m)) \/ (~(i <= m) /\ j <= m)
    BY <1>2, <1>3, <1>4, <1>5, <2>4
  <2>. QED BY <2>2, <2>3, <2>4
<1>6. ToSet(s \o t) \subseteq ToSet(s) \cup ToSet(t)
  <2> SUFFICES ASSUME NEW i \in 1..m + k PROVE (s \o t)[i] \in ToSet(s) \cup ToSet(t)
    BY <1>1 DEF ToSet
  <2>. QED BY <1>1, <1>2, <1>3 DEF ToSet
<1>7. ToSet(s) \subseteq ToSet(s \o t)
  <2> SUFFICES ASSUME NEW i \in 1..m PROVE s[i] \in ToSet(s \o t)
    BY <1>1 DEF ToSet
  <2>1. i \in 1..m + k /\ i <= m
    BY <1>1
  <2>. QED BY <1>1, <1>2, <2>1 DEF ToSet
<1>8. ToSet(t) \subseteq ToSet(s \o t)
  <2> SUFFICES ASSUME NEW j \in 1..k PROVE t[j] \in ToSet(s \o t)
    BY <1>1 DEF ToSet
  <2>1. m + j \in 1..m + k /\ ~(m + j <= m) /\ (m + j) - m = j
    BY <1>1
  <2>2. (s \o t)[m + j] = t[j]
    BY <1>2, <2>1
  <2>. QED BY <1>1, <2>1, <2>2 DEF ToSet
<1>. QED BY <1>1, <1>5, <1>6, <1>7, <1>8 DEF IsInjective

\* A sequence turned round.
LEMMA ReversedOnce ==
  ASSUME NEW X, NEW s \in Seq(X), IsInjective(s), NEW r, r = SubSeq(Reverse(s), 1, Len(s))
  PROVE  r \in Seq(X) /\ IsInjective(r) /\ ToSet(r) = ToSet(s)
<1> DEFINE m == Len(s)
<1>1. m \in Nat /\ DOMAIN s = 1..m /\ \A i \in 1..m : s[i] \in X
  OBVIOUS
<1>2. \A i \in 1..m : (m - i) + 1 \in 1..m
  BY <1>1
<1>3. Reverse(s) = [i \in 1..m |-> s[(m - i) + 1]]
  BY DEF Reverse
<1>4. Reverse(s) \in Seq(X) /\ Len(Reverse(s)) = m
  BY <1>1, <1>2, <1>3
<1>5. r = [i \in 1..m |-> s[(m - i) + 1]]
  BY <1>1, <1>3, <1>4
<1> HIDE DEF m
<1>6. r \in Seq(X)
  BY <1>1, <1>2, <1>5
<1>7. ASSUME NEW i \in 1..m, NEW j \in 1..m, r[i] = r[j] PROVE i = j
  <2>1. (m - i) + 1 = (m - j) + 1
    BY <1>1, <1>2, <1>5, <1>7 DEF IsInjective
  <2>2. i \in Int /\ j \in Int
    BY <1>1
  <2>. QED BY ONLY <1>1, <2>1, <2>2
<1>8. ToSet(r) \subseteq ToSet(s)
  BY <1>1, <1>2, <1>5 DEF ToSet
<1>9. ToSet(s) \subseteq ToSet(r)
  <2> SUFFICES ASSUME NEW i \in 1..m PROVE s[i] \in ToSet(r)
    BY <1>1 DEF ToSet
  <2>1. PICK j \in 1..m : j = (m - i) + 1
    BY <1>2
  <2>2. (m - j) + 1 = i
    BY <1>1, <2>1
  <2>3. r[j] = s[i]
    BY <1>5, <2>2
  <2>. QED BY <1>5, <2>3 DEF ToSet
<1>. QED BY <1>5, <1>6, <1>7, <1>8, <1>9 DEF IsInjective

Lists == [Nodes -> Seq(VertexId)]

SeqTypes == cseq \in Lists /\ dSeq \in Lists /\ batch \in Lists /\ executed \in Lists

\* What a node has executed is in the sequence on its disk, and that in the sequence in
\* memory; a batch is new until it is executed, and on the disk by then.
OnceInv(n) ==
  /\ IsInjective(cseq[n]) /\ IsInjective(dSeq[n]) /\ IsInjective(executed[n])
  /\ ToSet(executed[n]) \subseteq ToSet(dSeq[n])
  /\ phase[n] # "down" => ToSet(dSeq[n]) \subseteq ToSet(cseq[n])
  /\ phase[n] \in {"save", "execute"} =>
       /\ IsInjective(batch[n]) /\ ToSet(batch[n]) \subseteq ToSet(cseq[n])
       /\ ToSet(batch[n]) \cap ToSet(executed[n]) = {}
  /\ phase[n] = "execute" => ToSet(batch[n]) \subseteq ToSet(dSeq[n])

OrderInv == IsFiniteSet(created) /\ SeqTypes /\ \A n \in Nodes : OnceInv(n)

\* The sequence on disk is cut at SequenceCap, and the reload does not turn it round.
SequenceKept == \A n \in Nodes : Len(cseq[n]) <= SequenceCap

\* A step of one node that leaves its sequences alone, and the others' with their phase.
LEMMA SequencesLeftAlone ==
  ASSUME OrderInv, NEW n \in Nodes, IsFiniteSet(created'),
         UNCHANGED <<cseq, dSeq, batch, executed>>,
         \A m \in Nodes \ {n} : phase'[m] = phase[m],
         phase[n] # "down", phase'[n] \notin {"save", "execute"}
  PROVE  OrderInv'
<1>1. SeqTypes'
  BY DEF OrderInv, SeqTypes
<1>2. ASSUME NEW m \in Nodes PROVE OnceInv(m)'
  <2>1. OnceInv(m)
    BY DEF OrderInv
  <2>2. CASE m = n
    BY <2>1, <2>2 DEF OnceInv
  <2>3. CASE m # n
    <3>1. phase'[m] = phase[m]
      BY <2>3
    <3>. QED BY <2>1, <3>1 DEF OnceInv
  <2>. QED BY <2>2, <2>3
<1>. QED BY <1>1, <1>2 DEF OrderInv

\* A step of one node that signs nothing.
LEMMA SequencesOfOne ==
  ASSUME OrderInv, NEW n \in Nodes, created' = created, SeqTypes', OnceInv(n)',
         \A m \in Nodes \ {n} : /\ phase'[m] = phase[m] /\ cseq'[m] = cseq[m] /\ dSeq'[m] = dSeq[m]
                                /\ batch'[m] = batch[m] /\ executed'[m] = executed[m]
  PROVE  OrderInv'
<1>1. ASSUME NEW m \in Nodes \ {n} PROVE OnceInv(m)'
  <2>1. OnceInv(m)
    BY DEF OrderInv
  <2>. QED BY <2>1 DEF OnceInv
<1>. QED BY <1>1 DEF OrderInv

LEMMA CommitOnce ==
  ASSUME TypeOK, SigningInv, OrderInv, NEW n \in Nodes, Commit(n)
  PROVE  OrderInv'
<1>1. PICK a \in Candidates(n, cur[n]) :
        batch' = [batch EXCEPT ![n] = Ordered(dag[n], par, ToSet(cseq[n]), a)]
  BY DEF Commit
<1>2. /\ phase[n] = "commit" /\ phase' = [phase EXCEPT ![n] = "save"]
      /\ cseq' = [cseq EXCEPT ![n] = cseq[n] \o batch'[n]]
      /\ UNCHANGED <<created, dSeq, executed>>
  BY DEF Commit, netVars
<1> DEFINE new == CausalHistory(dag[n], par, ToSet(cseq[n]), a) \ ToSet(cseq[n])
<1>3. new \subseteq created /\ new \cap ToSet(cseq[n]) = {}
  <2>1. cur[n] \in VertexId
    BY <1>2 DEF SigningInv, InHand, TypeOK
  <2>2. a \in dag[n] /\ a.round \in 1..MaxRound
    BY <2>1, CandidatesAreHeld
  <2>3. a.round \in Nat
    BY <2>2, RoundsAssumption
  <2>4. CausalHistory(dag[n], par, ToSet(cseq[n]), a) \subseteq dag[n]
    BY <2>2, <2>3, HistoryIsHeld
  <2>5. dag[n] \subseteq created
    BY DEF TypeOK
  <2>. QED BY <2>4, <2>5
<1>4. new \in SUBSET VertexId /\ IsFiniteSet(new)
  <2>1. created \subseteq VertexId /\ IsFiniteSet(created)
    BY DEF TypeOK, OrderInv
  <2> HIDE DEF new
  <2>. QED BY <1>3, <2>1, FS_Subset
<1>5. batch'[n] = Sorted(new)
  BY <1>1 DEF OrderInv, SeqTypes, Lists, Ordered
<1> HIDE DEF new
<1>6. Sorted(new) \in Seq(new) /\ IsInjective(Sorted(new))
  BY <1>4, SortedListsOnce
<1>7. PICK s : s = cseq[n]
  OBVIOUS
<1>8. PICK t : t = batch'[n]
  OBVIOUS
<1>9. /\ s \in Seq(VertexId) /\ IsInjective(s)
      /\ ToSet(executed[n]) \subseteq ToSet(dSeq[n]) /\ ToSet(dSeq[n]) \subseteq ToSet(s)
  BY <1>2, <1>7 DEF OrderInv, OnceInv, SeqTypes, Lists
<1>10. t \in Seq(new) /\ t \in Seq(VertexId) /\ IsInjective(t)
  BY <1>4, <1>5, <1>6, <1>8
<1>11. ToSet(t) \subseteq new
  BY <1>10 DEF ToSet
<1>12. ToSet(s) \cap ToSet(t) = {}
  BY <1>3, <1>7, <1>11
<1>13. /\ s \o t \in Seq(VertexId) /\ IsInjective(s \o t)
       /\ ToSet(s \o t) = ToSet(s) \cup ToSet(t)
  BY <1>9, <1>10, <1>12, JoinedOnce
<1>14. cseq' = [cseq EXCEPT ![n] = s \o t] /\ batch' = [batch EXCEPT ![n] = t]
  BY <1>1, <1>2, <1>5, <1>7, <1>8 DEF Ordered, new
<1>15. SeqTypes'
  BY <1>2, <1>10, <1>13, <1>14 DEF OrderInv, SeqTypes, Lists
<1>16. cseq'[n] = s \o t /\ phase'[n] = "save" /\ dSeq'[n] = dSeq[n] /\ executed'[n] = executed[n]
  BY <1>2, <1>14 DEF OrderInv, SeqTypes, Lists, TypeOK
<1>17. IsInjective(dSeq[n]) /\ IsInjective(executed[n])
  BY DEF OrderInv, OnceInv
<1>18. OnceInv(n)'
  BY <1>8, <1>9, <1>10, <1>12, <1>13, <1>16, <1>17 DEF OnceInv
<1>. QED BY <1>2, <1>14, <1>15, <1>18, SequencesOfOne

LEMMA SaveOnce ==
  ASSUME TypeOK, OrderInv, SequenceKept, NEW n \in Nodes, SaveSequence(n)
  PROVE  OrderInv'
<1> DEFINE r == SubSeq(Reverse(cseq[n]), 1, Len(cseq[n]))
<1>1. cseq[n] \in Seq(VertexId) /\ IsInjective(cseq[n])
  BY DEF OrderInv, SeqTypes, Lists, OnceInv
<1>2. (IF Len(cseq[n]) < SequenceCap THEN Len(cseq[n]) ELSE SequenceCap) = Len(cseq[n])
  <2>1. Len(cseq[n]) \in Nat /\ SequenceCap \in Nat /\ Len(cseq[n]) <= SequenceCap
    BY <1>1, PeriodsAssumption DEF SequenceKept
  <2>. QED BY <2>1
<1>3. /\ phase[n] = "save" /\ phase' = [phase EXCEPT ![n] = "execute"]
      /\ dSeq' = [dSeq EXCEPT ![n] = r]
      /\ UNCHANGED <<created, cseq, batch, executed>>
  BY <1>2 DEF SaveSequence, netVars, histVars
<1>4. r \in Seq(VertexId) /\ IsInjective(r) /\ ToSet(r) = ToSet(cseq[n])
  BY <1>1, ReversedOnce
<1> HIDE DEF r
<1>5. SeqTypes'
  BY <1>3, <1>4 DEF OrderInv, SeqTypes, Lists
<1>6. dSeq'[n] = r /\ phase'[n] = "execute"
  BY <1>3 DEF OrderInv, SeqTypes, Lists, TypeOK
<1>7. OnceInv(n)'
  BY <1>3, <1>4, <1>6 DEF OrderInv, OnceInv
<1>. QED BY <1>3, <1>5, <1>7, SequencesOfOne

LEMMA ExecuteOnce ==
  ASSUME TypeOK, OrderInv, NEW n \in Nodes, Execute(n)
  PROVE  OrderInv'
<1>1. /\ phase[n] = "execute" /\ phase' = [phase EXCEPT ![n] = "seal"]
      /\ executed' = [executed EXCEPT ![n] = executed[n] \o batch[n]]
      /\ UNCHANGED <<created, cseq, batch, dSeq>>
  BY DEF Execute, netVars, logVars
<1>2. PICK s : s = executed[n]
  OBVIOUS
<1>3. PICK t : t = batch[n]
  OBVIOUS
<1>4. /\ s \in Seq(VertexId) /\ t \in Seq(VertexId) /\ IsInjective(s) /\ IsInjective(t)
      /\ ToSet(s) \cap ToSet(t) = {}
      /\ ToSet(s) \subseteq ToSet(dSeq[n]) /\ ToSet(t) \subseteq ToSet(dSeq[n])
  BY <1>1, <1>2, <1>3 DEF OrderInv, OnceInv, SeqTypes, Lists
<1>5. /\ s \o t \in Seq(VertexId) /\ IsInjective(s \o t)
      /\ ToSet(s \o t) = ToSet(s) \cup ToSet(t)
  BY <1>4, JoinedOnce
<1>6. executed' = [executed EXCEPT ![n] = s \o t]
  BY <1>1, <1>2, <1>3
<1>7. SeqTypes'
  BY <1>1, <1>5, <1>6 DEF OrderInv, SeqTypes, Lists
<1>8. executed'[n] = s \o t /\ phase'[n] = "seal"
  BY <1>1, <1>6 DEF OrderInv, SeqTypes, Lists, TypeOK
<1>9. OnceInv(n)'
  BY <1>1, <1>4, <1>5, <1>8 DEF OrderInv, OnceInv
<1>. QED BY <1>1, <1>6, <1>7, <1>9, SequencesOfOne

LEMMA SealOnce ==
  ASSUME TypeOK, OrderInv, NEW n \in Nodes, Seal(n)
  PROVE  OrderInv'
<1>1. /\ phase[n] = "seal" /\ batch' = [batch EXCEPT ![n] = <<>>]
      /\ UNCHANGED <<created, cseq, dSeq, executed>>
      /\ \/ phase' = [phase EXCEPT ![n] = "publish"]
         \/ phase' = [phase EXCEPT ![n] = "idle"]
  BY DEF Seal, Resume, netVars, histVars
<1>2. SeqTypes'
  BY <1>1 DEF OrderInv, SeqTypes, Lists
<1>3. phase'[n] \in {"publish", "idle"} /\ \A m \in Nodes \ {n} : phase'[m] = phase[m]
  BY <1>1 DEF TypeOK
<1>4. OnceInv(n)'
  BY <1>1, <1>3 DEF OrderInv, OnceInv
<1>5. \A m \in Nodes \ {n} : batch'[m] = batch[m]
  BY <1>1 DEF OrderInv, SeqTypes, Lists
<1>. QED BY <1>1, <1>2, <1>3, <1>4, <1>5, SequencesOfOne

\* A node that dies, having signed one vertex at most.
LEMMA DieOnce ==
  ASSUME TypeOK, OrderInv, NEW n \in Nodes, Die(n), IsFiniteSet(created'), dSeq' = dSeq
  PROVE  OrderInv'
<1>1. /\ phase' = [phase EXCEPT ![n] = "down"]
      /\ batch' = [batch EXCEPT ![n] = <<>>] /\ cseq' = [cseq EXCEPT ![n] = <<>>]
      /\ UNCHANGED <<dSeq, executed>>
  BY DEF Die
<1>2. SeqTypes'
  BY <1>1 DEF OrderInv, SeqTypes, Lists
<1>3. phase'[n] = "down" /\ cseq'[n] = <<>>
  BY <1>1 DEF TypeOK, OrderInv, SeqTypes, Lists
<1>4. IsInjective(<<>>)
  BY DEF IsInjective
<1>5. OnceInv(n)'
  BY <1>1, <1>3, <1>4 DEF OrderInv, OnceInv
<1>6. ASSUME NEW m \in Nodes \ {n} PROVE OnceInv(m)'
  <2>1. OnceInv(m)
    BY DEF OrderInv
  <2>2. /\ phase'[m] = phase[m] /\ cseq'[m] = cseq[m] /\ dSeq'[m] = dSeq[m]
        /\ batch'[m] = batch[m] /\ executed'[m] = executed[m]
    BY <1>1 DEF TypeOK, OrderInv, SeqTypes, Lists
  <2>. QED BY <2>1, <2>2 DEF OnceInv
<1>. QED BY <1>2, <1>5, <1>6 DEF OrderInv

LEMMA CrashOnce ==
  ASSUME TypeOK, OrderInv, NEW n \in Nodes, Crash(n)
  PROVE  OrderInv'
BY DieOnce DEF Crash, netVars, diskVars, logVars, OrderInv

LEMMA CutOffOnce ==
  ASSUME TypeOK, OrderInv, NEW n \in Nodes, CutOff(n)
  PROVE  OrderInv'
<1>1. IsFiniteSet(created)
  BY DEF OrderInv
<1>2. ASSUME NEW v \in VertexId, Sign(n, v), CutOffAdd(n, v) PROVE OrderInv'
  <2>1. IsFiniteSet(created')
    BY <1>1, <1>2, FS_AddElement DEF Sign
  <2>. QED BY <1>2, <2>1, DieOnce DEF CutOffAdd, logVars
<1>3. ASSUME NEW v \in sent, CutOffAdd(n, v), UNCHANGED netVars PROVE OrderInv'
  BY <1>1, <1>3, DieOnce DEF CutOffAdd, netVars, logVars
<1>4. ASSUME NEW a \in Validators, CutOffRecord(n, a) PROVE OrderInv'
  BY <1>1, <1>4, DieOnce DEF CutOffRecord, netVars, logVars
<1>. QED BY <1>2, <1>3, <1>4 DEF CutOff

LEMMA RestartOnce ==
  ASSUME TypeOK, OrderInv, NEW n \in Nodes, Restart(n)
  PROVE  OrderInv'
<1>1. /\ phase' = [phase EXCEPT ![n] = "idle"] /\ cseq' = [cseq EXCEPT ![n] = dSeq[n]]
      /\ UNCHANGED <<created, batch, dSeq, executed>>
  BY DEF Restart, netVars, diskVars, logVars, histVars
<1>2. SeqTypes'
  BY <1>1 DEF OrderInv, SeqTypes, Lists
<1>3. phase'[n] = "idle" /\ cseq'[n] = dSeq[n]
  BY <1>1 DEF TypeOK, OrderInv, SeqTypes, Lists
<1>4. OnceInv(n)'
  BY <1>1, <1>3 DEF OrderInv, OnceInv
<1>. QED BY <1>1, <1>2, <1>4, SequencesOfOne

LEMMA OrderNext ==
  ASSUME TypeOK, TypeOK', SigningInv, OrderInv, SequenceKept, [Next]_vars
  PROVE  OrderInv'
<1>1. ASSUME NEW n \in Nodes, NEW v \in VertexId, phase[n] = "idle", AddVertex(n, v),
             IsFiniteSet(created')
      PROVE  OrderInv'
  <2>1. /\ \A m \in Nodes \ {n} : phase'[m] = phase[m]
        /\ phase'[n] \in {"commit", "publish", "idle"}
    BY <1>1, AddVertexEffect
  <2>2. UNCHANGED <<cseq, dSeq, batch, executed>>
    BY <1>1 DEF AddVertex, logVars, histVars
  <2>. QED BY <1>1, <2>1, <2>2, SequencesLeftAlone
<1>2. ASSUME NEW n \in Nodes, Propose(n) PROVE OrderInv'
  <2>1. PICK v \in VertexId : MayPropose(n, v) /\ Sign(n, v) /\ AddVertex(n, v)
    BY <1>2 DEF Propose
  <2>2. IsFiniteSet(created')
    BY <2>1, FS_AddElement DEF OrderInv, Sign
  <2>. QED BY <1>1, <2>1, <2>2 DEF MayPropose
<1>3. ASSUME NEW n \in Nodes, NEW v \in sent, Receive(n, v) PROVE OrderInv'
  <2>1. phase[n] = "idle" /\ v \in VertexId /\ created' = created /\ AddVertex(n, v)
    BY <1>3 DEF Receive, MayReceive, netVars, TypeOK
  <2>2. IsFiniteSet(created')
    BY <2>1 DEF OrderInv
  <2>. QED BY <1>1, <2>1, <2>2
<1>4. ASSUME NEW n \in Nodes, Publish(n) \/ Record(n) PROVE OrderInv'
  <2>1. /\ phase[n] \in {"publish", "record"}
        /\ \/ phase' = [phase EXCEPT ![n] = "record"]
           \/ phase' = [phase EXCEPT ![n] = "idle"]
        /\ UNCHANGED <<created, cseq, dSeq, batch, executed>>
    BY <1>4 DEF Publish, Record, netVars, diskVars, logVars, histVars
  <2>2. phase'[n] \in {"record", "idle"} /\ \A m \in Nodes \ {n} : phase'[m] = phase[m]
    BY <2>1 DEF TypeOK
  <2>3. IsFiniteSet(created')
    BY <2>1 DEF OrderInv
  <2>. QED BY <2>1, <2>2, <2>3, SequencesLeftAlone
<1>5. CASE UNCHANGED vars
  <2>1. UNCHANGED <<created, phase, cseq, dSeq, batch, executed>>
    BY <1>5 DEF vars, netVars, memVars, diskVars, logVars, histVars
  <2>. QED BY <2>1 DEF OrderInv, SeqTypes, OnceInv
<1>. QED BY <1>2, <1>3, <1>4, <1>5, CommitOnce, SaveOnce, ExecuteOnce, SealOnce, CrashOnce,
            CutOffOnce, RestartOnce DEF Next

\* As long as no node has committed more vertices than its disk keeps, none runs the
\* payload of a vertex twice, wherever it crashes between commit and execution.
THEOREM ExecutesOnce == Spec /\ []SequenceKept => []ExecutedOnce
<1>1. Init => OrderInv
  <2> SUFFICES ASSUME Init PROVE OrderInv
    OBVIOUS
  <2>1. IsFiniteSet(created) /\ SeqTypes
    BY FS_EmptySet DEF Init, NodesInit, SeqTypes, Lists
  <2>2. \A n \in Nodes : /\ phase[n] = "idle" /\ cseq[n] = <<>> /\ dSeq[n] = <<>>
                         /\ executed[n] = <<>>
    BY DEF Init, NodesInit
  <2>3. IsInjective(<<>>)
    BY DEF IsInjective
  <2>4. \A n \in Nodes : OnceInv(n)
    BY <2>2, <2>3 DEF OnceInv
  <2>. QED BY <2>1, <2>4 DEF OrderInv
<1>2. TypeOK /\ TypeOK' /\ SigningInv /\ SequenceKept /\ OrderInv /\ [Next]_vars => OrderInv'
  BY OrderNext
<1>3. OrderInv => ExecutedOnce
  BY DEF OrderInv, OnceInv, ExecutedOnce
<1>. QED BY <1>1, <1>2, <1>3, SigningInvariant, PTL DEF Spec

-----------------------------------------------------------------------------
(* DagConsensus implements AnchoredDag as long as no node has taken a       *)
(* checkpoint (the first is at round 100), and so inherits what is proved   *)
(* of AnchoredDag.                                                          *)

NoCheckpointYet == \A n \in Nodes : dCheckpoint[n].round = 0

\* The length of the validator list is the size of the validator set.
LEMMA ListCountsValidators ==
  /\ NValidators \in Nat
  /\ IsFiniteSet(Validators) /\ Validators # {}
  /\ Cardinality(Validators) = NValidators
<1>1. NValidators \in Nat /\ NValidators >= 1
  BY ListAssumption DEF NValidators
<1> DEFINE D == 1..NValidators
           f == [i \in D |-> ValidatorList[i]]
<1>2. f \in [D -> Validators]
  BY DEF Validators
<1>3. \A i, j \in D : f[i] = f[j] => i = j
  BY DistinctAssumption
<1>4. \A v \in Validators : \E i \in D : f[i] = v
  BY DEF Validators
<1>5. IsFiniteSet(D) /\ Cardinality(D) = NValidators
  BY <1>1, FS_Interval
<1>6. Validators # {}
  BY <1>1 DEF Validators
<1> HIDE DEF D, f
<1>7. f \in Bijection(D, Validators)
  BY <1>2, <1>3, <1>4 DEF Bijection, Injection, Surjection, IsInjective
<1> QED
  BY <1>1, <1>5, <1>6, <1>7, FS_Bijection DEF ExistsBijection

\* The instance counts and compares as this module does.
LEMMA SameOperators ==
  /\ \A S : Promise!Cardinality(S) = Cardinality(S)
  /\ \A k : Promise!ParentQuorum(k) = ParentQuorum(k)
  /\ \A k : Promise!CommitThreshold(k) = CommitThreshold(k)
<1>1. \A S : Promise!Cardinality(S) = Cardinality(S)
  BY DEF Promise!Cardinality, Cardinality
<1>2. \A k : Promise!ParentQuorum(k) = ParentQuorum(k)
  BY DEF Promise!ParentQuorum, ParentQuorum, Promise!Faults, Faults
<1>3. \A k : Promise!CommitThreshold(k) = CommitThreshold(k)
  BY DEF Promise!CommitThreshold, CommitThreshold
<1> QED
  BY <1>1, <1>2, <1>3

LEMMA PromiseInit == Init => Promise!Init
BY DEF Init, NodesInit, Promise!Init, VertexId, Promise!VertexId

\* A proposal is the first and only signature of its author in its round.
LEMMA SignIsSign ==
  ASSUME TypeOK, SigningInv, NoCheckpointYet, NEW n \in Nodes, NEW v \in VertexId,
         MayPropose(n, v), Sign(n, v), anchors' = anchors
  PROVE  Promise!Next
<1>1. v.round = round[n] /\ v.author = n
  BY DEF MayPropose
<1>2. /\ phase[n] = "idle"
      /\ created' = created \cup {v} /\ par' = [par EXCEPT ![v] = Parents(n)]
      /\ round[n] > 1 => Cardinality(Parents(n)) >= ParentQuorum(NValidators)
  BY DEF MayPropose, Sign
<1>3. Parents(n) \subseteq Promise!AtRound(created, round[n] - 1)
  BY DEF TypeOK, Parents, InRound, Promise!AtRound
<1>4. \A w \in created : <<w.round, w.author>> # <<v.round, v.author>>
  <2>1. \A h \in created : h.author = n => h.round < round[n]
    BY <1>2 DEF SigningInv, RoundIsAhead, NoCheckpointYet
  <2>2. round[n] \in Nat /\ \A h \in created : h.round \in Nat
    BY DEF TypeOK, VertexId
  <2> QED
    BY <1>1, <2>1, <2>2
<1>5. Promise!N = NValidators
  BY ListCountsValidators, SameOperators DEF Promise!N
<1>6. Promise!Sign(v, Parents(n))
  BY <1>1, <1>2, <1>3, <1>4, <1>5, SameOperators DEF Promise!Sign
<1> QED
  BY <1>1, <1>3, <1>6 DEF Promise!Next, VertexId, Promise!VertexId

\* A commit has the votes of vertices that exist.
LEMMA CommitIsSupported ==
  ASSUME TypeOK, SigningInv, NEW n \in Nodes, Commit(n)
  PROVE  Promise!Next
<1>1. cur[n] \in VertexId
  BY DEF SigningInv, Commit, InHand, TypeOK
<1>2. PICK a \in Candidates(n, cur[n]) : /\ Supported(n, a)
                                        /\ anchors' = [anchors EXCEPT ![n] = @ \cup {a}]
  BY DEF Commit
<1>3. a \in created /\ dag[n] \subseteq created
  BY <1>1, CandidatesAreHeld DEF TypeOK
<1>4. Votes(dag[n], par, a) \in SUBSET Promise!VotersIn(created, a)
  BY <1>3 DEF Votes, InRound, Promise!VotersIn
<1>5. Cardinality(Votes(dag[n], par, a)) >= CommitThreshold(Promise!N)
  BY <1>2, ListCountsValidators, SameOperators DEF Supported, Promise!N
<1>6. UNION {anchors'[m] : m \in Nodes} = (UNION {anchors[m] : m \in Nodes}) \cup {a}
  BY <1>2 DEF TypeOK
<1>7. UNCHANGED <<created, par>>
  BY DEF Commit, netVars
<1>8. Promise!CommitAnchor(a)
  BY <1>4, <1>5, <1>6, <1>7, SameOperators DEF Promise!CommitAnchor
<1> QED
  BY <1>3, <1>8 DEF Promise!Next

LEMMA PromiseStep ==
  TypeOK /\ SigningInv /\ NoCheckpointYet /\ [Next]_vars => [Promise!Next]_(Promise!absVars)
<1> SUFFICES ASSUME TypeOK, SigningInv, NoCheckpointYet, [Next]_vars
             PROVE  Promise!Next \/ UNCHANGED Promise!absVars
  OBVIOUS
<1>1. ASSUME NEW n \in Nodes, Propose(n) PROVE Promise!Next
  BY <1>1, SignIsSign DEF Propose, AddVertex, histVars
<1>2. ASSUME NEW n \in Nodes, Commit(n) PROVE Promise!Next
  BY <1>2, CommitIsSupported
<1>3. ASSUME NEW n \in Nodes, NEW v \in sent, Receive(n, v) PROVE UNCHANGED Promise!absVars
  BY <1>3 DEF Receive, AddVertex, netVars, histVars, Promise!absVars
<1>4. ASSUME NEW n \in Nodes,
             \/ SaveSequence(n) \/ Execute(n) \/ Seal(n) \/ Publish(n) \/ Record(n)
             \/ Crash(n) \/ Restart(n)
      PROVE  UNCHANGED Promise!absVars
  <2>1. UNCHANGED <<created, par, anchors>>
    BY <1>4
    DEF SaveSequence, Execute, Seal, Publish, Record, Crash, Die, Restart, netVars, histVars
  <2> QED
    BY <2>1 DEF Promise!absVars
<1>5. ASSUME NEW n \in Nodes, CutOff(n) PROVE Promise!Next \/ UNCHANGED Promise!absVars
  <2>1. ASSUME NEW v \in VertexId, MayPropose(n, v), Sign(n, v), CutOffAdd(n, v) PROVE Promise!Next
    BY <2>1, SignIsSign DEF CutOffAdd, Die
  <2>2. ASSUME NEW v, CutOffAdd(n, v), UNCHANGED netVars PROVE UNCHANGED Promise!absVars
    BY <2>2 DEF CutOffAdd, Die, netVars, Promise!absVars
  <2>3. ASSUME NEW a, CutOffRecord(n, a) PROVE UNCHANGED Promise!absVars
    BY <2>3 DEF CutOffRecord, Die, netVars, Promise!absVars
  <2> QED
    BY <1>5, <2>1, <2>2, <2>3 DEF CutOff
<1>6. CASE UNCHANGED vars
  BY <1>6 DEF vars, netVars, histVars, Promise!absVars
<1> QED
  BY <1>1, <1>2, <1>3, <1>4, <1>5, <1>6 DEF Next

\* Until the first checkpoint, what the nodes do together is a behaviour of
\* AnchoredDag, whatever is lost or reordered and whoever crashes.
THEOREM DagImplementsPromise == Spec /\ []NoCheckpointYet => ImplementsPromise
BY PromiseInit, PromiseStep, SigningInvariant, PTL DEF Spec, ImplementsPromise, Promise!Spec

-----------------------------------------------------------------------------
(* What is inherited from AnchoredDag *)

PromiseProofs == INSTANCE AnchoredDagProofs WITH anchors <- UNION {anchors[n] : n \in Nodes}

\* The two instances of AnchoredDag are one.
LEMMA SameSpecification ==
  /\ Promise!Init => PromiseProofs!Init
  /\ [Promise!Next]_(Promise!absVars) => [PromiseProofs!Next]_(PromiseProofs!absVars)
  /\ PromiseProofs!AnchorVisible => Promise!AnchorVisible
<1>1. Promise!Init => PromiseProofs!Init
  BY DEF Promise!Init, PromiseProofs!Init, Promise!VertexId, PromiseProofs!VertexId
<1>2. PromiseProofs!AnchorVisible => Promise!AnchorVisible
  BY DEF Promise!AnchorVisible, PromiseProofs!AnchorVisible
<1>3. /\ \A S : Promise!Cardinality(S) = PromiseProofs!Cardinality(S)
      /\ \A k : Promise!ParentQuorum(k) = PromiseProofs!ParentQuorum(k)
      /\ \A k : Promise!CommitThreshold(k) = PromiseProofs!CommitThreshold(k)
  BY DEF Promise!Cardinality, PromiseProofs!Cardinality,
         Promise!ParentQuorum, PromiseProofs!ParentQuorum, Promise!Faults, PromiseProofs!Faults,
         Promise!CommitThreshold, PromiseProofs!CommitThreshold
<1>4. ASSUME Promise!Next PROVE PromiseProofs!Next
  BY <1>3, <1>4 DEF Promise!Next, PromiseProofs!Next, Promise!Sign, PromiseProofs!Sign,
         Promise!CommitAnchor, PromiseProofs!CommitAnchor, Promise!VertexId,
         PromiseProofs!VertexId, Promise!AtRound, PromiseProofs!AtRound,
         Promise!VotersIn, PromiseProofs!VotersIn, Promise!N, PromiseProofs!N
<1>5. Promise!absVars = PromiseProofs!absVars /\ (Promise!absVars)' = (PromiseProofs!absVars)'
  BY DEF Promise!absVars, PromiseProofs!absVars
<1> QED
  BY <1>1, <1>2, <1>4, <1>5

\* In a cluster of one validator or of four and more, and until the first checkpoint,
\* whatever any node commits as an anchor is a grandparent of every vertex that any
\* validator signs two rounds above it.
THEOREM ClusterAnchorsAreVisible ==
  ASSUME NValidators # 2, NValidators # 3
  PROVE  Spec /\ []NoCheckpointYet => []Promise!AnchorVisible
<1>1. /\ PromiseProofs!BoundsAssumption /\ PromiseProofs!ValidatorsAssumption
      /\ PromiseProofs!N = NValidators
  BY ListCountsValidators, RoundsAssumption
     DEF PromiseProofs!BoundsAssumption, PromiseProofs!ValidatorsAssumption, PromiseProofs!N,
         PromiseProofs!IsFiniteSet, IsFiniteSet, PromiseProofs!Cardinality, Cardinality
<1>2. PromiseProofs!Spec => []PromiseProofs!AnchorVisible
  BY <1>1, PromiseProofs!AnchorsAreVisible
<1>3. Promise!Spec => PromiseProofs!Spec
  BY SameSpecification, PTL DEF Promise!Spec, PromiseProofs!Spec
<1>4. Spec /\ []NoCheckpointYet => Promise!Spec
  BY DagImplementsPromise DEF ImplementsPromise
<1> QED
  BY <1>2, <1>3, <1>4, SameSpecification, PTL

-----------------------------------------------------------------------------
(* Up to three validators need a single parent, and so go on as long as some *)
(* validator holds a vertex of the round below its own.  That is whoever     *)
(* signed the highest vertex there is.                                       *)

Highest(v) == v \in created /\ \A w \in created : w.round <= v.round

\* The node that signed a highest vertex still has it, and is in the next round or about to be.
KeepsHighest(n, v) ==
  /\ v \in dVertices[n] /\ dProposed[n] <= v.round
  /\ phase[n] # "down" =>
       /\ v \in dag[n]
       /\ \/ round[n] = v.round + 1
          \/ phase[n] # "idle" /\ cur[n] = v /\ round[n] = v.round

\* A node among the validators before anything is signed.
Untried(n) == dProposed[n] = 0 /\ (phase[n] # "down" => round[n] = 1)

HighestInv ==
  /\ IsFiniteSet(created)
  /\ \A v : Highest(v) => KeepsHighest(v.author, v)
  /\ created = {} => \A n \in Nodes : Untried(n)

\* A step that signs nothing and touches one node keeps the others' part.
LEMMA HighestOfOne ==
  ASSUME TypeOK, SigningInv, HighestInv, NEW n \in Nodes, created' = created,
         \A v : Highest(v) /\ v.author = n => KeepsHighest(n, v)',
         created = {} => Untried(n)',
         \A m \in Nodes \ {n} :
           /\ phase'[m] = phase[m] /\ round'[m] = round[m] /\ cur'[m] = cur[m] /\ dag'[m] = dag[m]
           /\ dProposed'[m] = dProposed[m] /\ dVertices'[m] = dVertices[m]
  PROVE  HighestInv'
<1>1. ASSUME NEW v, Highest(v)' PROVE KeepsHighest(v.author, v)'
  <2>1. Highest(v) /\ v.author \in Nodes
    BY <1>1 DEF Highest, SigningInv
  <2>2. CASE v.author = n
    BY <2>1, <2>2
  <2>3. CASE v.author # n
    <3>1. KeepsHighest(v.author, v)
      BY <2>1 DEF HighestInv
    <3>. QED BY <2>1, <2>3, <3>1 DEF KeepsHighest
  <2>. QED BY <2>2, <2>3
<1>2. created' = {} => \A m \in Nodes : Untried(m)'
  BY DEF HighestInv, Untried
<1>. QED BY <1>1, <1>2 DEF HighestInv

\* What a node signs is higher than all that it has signed before.
LEMMA SignedAbove ==
  ASSUME TypeOK, SigningInv, NoCheckpointYet, NEW n \in Nodes, NEW v \in VertexId,
         MayPropose(n, v), Sign(n, v)
  PROVE  /\ phase[n] = "idle" /\ created' = created \cup {v}
         /\ v.round = round[n] /\ v.author = n
         /\ round[n] \in Nat /\ round[n] >= dProposed[n]
         /\ \A h \in created : h.round \in Nat /\ (h.author = n => h.round < round[n])
BY DEF MayPropose, Sign, SigningInv, RoundIsAhead, NoCheckpointYet, TypeOK, VertexId

LEMMA ProposeHighest ==
  ASSUME TypeOK, SigningInv, HighestInv, NoCheckpointYet, NEW n \in Nodes, Propose(n)
  PROVE  HighestInv'
<1>0. PICK v \in VertexId : MayPropose(n, v) /\ Sign(n, v) /\ AddVertex(n, v)
  BY DEF Propose
<1>1. v.round = round[n] /\ v.author = n
  BY <1>0, SignedAbove
<1>2. phase[n] = "idle" /\ created' = created \cup {v} /\ AddVertex(n, v)
  BY <1>0, SignedAbove
<1>3. /\ round[n] \in Nat /\ round[n] >= dProposed[n]
      /\ \A h \in created : h.round \in Nat /\ (h.author = n => h.round < round[n])
  BY <1>0, SignedAbove
<1>4. /\ dVertices' = [dVertices EXCEPT ![n] = @ \cup {v}]
      /\ \A m \in Nodes \ {n} : /\ phase'[m] = phase[m] /\ cur'[m] = cur[m]
                               /\ round'[m] = round[m] /\ dProposed'[m] = dProposed[m]
      /\ phase'[n] \in {"commit", "publish"} /\ cur'[n] = v
      /\ round'[n] = round[n] /\ dProposed'[n] = dProposed[n]
  BY <1>1, <1>2, AddVertexEffect
<1>5. dag' = [dag EXCEPT ![n] = dag[n] \cup {v}]
  <2>1. ~\E w \in dag[n] : SameSlot(v, w) /\ w # v
    <3>1. dag[n] \subseteq created
      BY DEF TypeOK
    <3>. QED BY <1>1, <1>3, <3>1 DEF SameSlot
  <2>. QED BY <1>2, <2>1, AddVertexSlashes
<1>6. /\ dVertices'[n] = dVertices[n] \cup {v} /\ dag'[n] = dag[n] \cup {v}
      /\ \A m \in Nodes \ {n} : dVertices'[m] = dVertices[m] /\ dag'[m] = dag[m]
  BY <1>4, <1>5 DEF TypeOK
<1>7. ASSUME NEW h, Highest(h)' PROVE KeepsHighest(h.author, h)'
  <2>1. CASE h = v
    BY <1>1, <1>3, <1>4, <1>6, <2>1 DEF KeepsHighest
  <2>2. CASE h # v
    <3>1. h \in created /\ Highest(h) /\ v.round <= h.round
      BY <1>2, <1>7, <2>2 DEF Highest
    <3>2. h.author \in Nodes /\ h.author # n
      BY <1>1, <1>3, <3>1 DEF SigningInv
    <3>3. KeepsHighest(h.author, h)
      BY <3>1 DEF HighestInv
    <3>. QED BY <1>4, <1>6, <3>2, <3>3 DEF KeepsHighest
  <2>. QED BY <2>1, <2>2
<1>8. IsFiniteSet(created') /\ created' # {}
  BY <1>2, FS_AddElement DEF HighestInv
<1>. QED BY <1>7, <1>8 DEF HighestInv

LEMMA ReceiveHighest ==
  ASSUME TypeOK, SigningInv, HighestInv, NEW n \in Nodes, NEW v \in sent, Receive(n, v)
  PROVE  HighestInv'
<1>1. v \in VertexId /\ v \in created /\ created # {}
  BY DEF TypeOK
<1>2. phase[n] = "idle" /\ v.author # n /\ AddVertex(n, v) /\ created' = created
  BY DEF Receive, MayReceive, netVars
<1>3. /\ dVertices' = [dVertices EXCEPT ![n] = @ \cup {v}]
      /\ \A m \in Nodes \ {n} : /\ phase'[m] = phase[m] /\ cur'[m] = cur[m]
                               /\ round'[m] = round[m] /\ dProposed'[m] = dProposed[m]
      /\ v.round < round[n] => round'[n] = round[n] /\ dProposed'[n] = dProposed[n]
  BY <1>1, <1>2, AddVertexEffect
<1>4. dag' = dag \/ dag' = [dag EXCEPT ![n] = dag[n] \cup {v}]
  BY <1>1, <1>2, AddVertexSlashes
<1>5. /\ dVertices[n] \subseteq dVertices'[n] /\ dag[n] \subseteq dag'[n]
      /\ \A m \in Nodes \ {n} : dVertices'[m] = dVertices[m] /\ dag'[m] = dag[m]
  BY <1>3, <1>4 DEF TypeOK
<1>6. ASSUME NEW h, Highest(h), h.author = n PROVE KeepsHighest(n, h)'
  <2>1. KeepsHighest(n, h) /\ v.round <= h.round
    BY <1>1, <1>6 DEF HighestInv, Highest
  <2>2. round[n] = h.round + 1
    BY <1>2, <2>1 DEF KeepsHighest
  <2>3. v.round \in Nat /\ h.round \in Nat
    BY <1>1, <1>6 DEF TypeOK, VertexId, Highest
  <2>4. v.round < round[n]
    BY <2>1, <2>2, <2>3
  <2>5. round'[n] = h.round + 1 /\ dProposed'[n] = dProposed[n]
    BY <1>3, <2>2, <2>4
  <2>6. h \in dVertices[n] /\ h \in dag[n] /\ dProposed[n] <= h.round
    BY <1>2, <2>1 DEF KeepsHighest
  <2>. QED BY <1>5, <2>5, <2>6 DEF KeepsHighest
<1>. QED BY <1>1, <1>2, <1>3, <1>5, <1>6, HighestOfOne

LEMMA SealHighest ==
  ASSUME TypeOK, SigningInv, HighestInv, NEW n \in Nodes, Seal(n)
  PROVE  HighestInv'
<1> DEFINE gone == IF batch[n] = <<>> THEN {} ELSE Pruned(n, dHeight[n] + 1)
<1>1. /\ phase[n] = "seal" /\ Resume(n, cur[n])
      /\ dVertices' = [dVertices EXCEPT ![n] = @ \ gone]
      /\ dag' = [dag EXCEPT ![n] = @ \ gone]
      /\ UNCHANGED <<created, round, dProposed>>
  BY DEF Seal, netVars
<1>2. cur[n] \in created /\ cur[n].round - 2 \in crounds[n]
  BY <1>1 DEF SigningInv, InHand
<1>3. \A v \in gone : v.round < cur[n].round
  BY <1>2, PruningKeepsTop
<1> HIDE DEF gone
<1>4. /\ dVertices'[n] = dVertices[n] \ gone /\ dag'[n] = dag[n] \ gone
      /\ \/ phase'[n] = "publish" /\ cur'[n] = cur[n]
         \/ phase'[n] = "idle" /\ cur[n].author # n
  BY <1>1 DEF Resume, TypeOK
<1>5. ASSUME NEW h, Highest(h), h.author = n PROVE KeepsHighest(n, h)'
  <2>1. KeepsHighest(n, h) /\ h \notin gone
    <3>1. h.round \in Nat /\ cur[n].round \in Nat /\ cur[n].round <= h.round
      BY <1>2, <1>5 DEF Highest, TypeOK, VertexId
    <3>2. h \notin gone
      BY <1>3, <3>1
    <3>. QED BY <1>5, <3>2 DEF HighestInv
  <2>2. /\ h \in dVertices[n] /\ h \in dag[n] /\ dProposed[n] <= h.round
        /\ round[n] = h.round + 1 \/ (cur[n] = h /\ round[n] = h.round)
    BY <1>1, <2>1 DEF KeepsHighest
  <2>. QED BY <1>1, <1>4, <1>5, <2>1, <2>2 DEF KeepsHighest
<1>6. \A m \in Nodes \ {n} :
        /\ phase'[m] = phase[m] /\ round'[m] = round[m] /\ cur'[m] = cur[m] /\ dag'[m] = dag[m]
        /\ dProposed'[m] = dProposed[m] /\ dVertices'[m] = dVertices[m]
  BY <1>1 DEF Resume, TypeOK
<1>. QED BY <1>1, <1>2, <1>5, <1>6, HighestOfOne

LEMMA RecordHighest ==
  ASSUME TypeOK, SigningInv, HighestInv, NEW n \in Nodes, Record(n)
  PROVE  HighestInv'
<1>1. /\ phase[n] = "record" /\ phase' = [phase EXCEPT ![n] = "idle"]
      /\ round' = [round EXCEPT ![n] = @ + 1] /\ dProposed' = [dProposed EXCEPT ![n] = round[n]]
      /\ cur' = [cur EXCEPT ![n] = NoVertex]
      /\ UNCHANGED <<created, dVertices, dag>>
  BY DEF Record, PutsOfRecord, netVars
<1>2. cur[n] \in created /\ cur[n].round = round[n]
  BY <1>1 DEF SigningInv, InHand
<1>3. round'[n] = round[n] + 1 /\ dProposed'[n] = round[n] /\ phase'[n] = "idle"
  BY <1>1 DEF TypeOK
<1>4. ASSUME NEW h, Highest(h), h.author = n PROVE KeepsHighest(n, h)'
  <2>1. KeepsHighest(n, h) /\ cur[n].round <= h.round /\ h.round \in Nat
    <3>1. cur[n].round <= h.round /\ h.round \in Nat
      BY <1>2, <1>4 DEF Highest, TypeOK, VertexId
    <3>. QED BY <1>4, <3>1 DEF HighestInv
  <2>2. h \in dVertices[n] /\ h \in dag[n] /\ round[n] \in {h.round, h.round + 1}
    BY <1>1, <2>1 DEF KeepsHighest
  <2>3. round[n] = h.round
    BY <1>2, <2>1, <2>2
  <2>. QED BY <1>1, <1>3, <2>1, <2>2, <2>3 DEF KeepsHighest
<1>5. \A m \in Nodes \ {n} :
        /\ phase'[m] = phase[m] /\ round'[m] = round[m] /\ cur'[m] = cur[m] /\ dag'[m] = dag[m]
        /\ dProposed'[m] = dProposed[m] /\ dVertices'[m] = dVertices[m]
  BY <1>1 DEF TypeOK
<1>. QED BY <1>1, <1>2, <1>4, <1>5, HighestOfOne

\* A restart without a checkpoint has every vertex of the disk again, and starts one round
\* above the highest of them, since no higher round was proposed.
LEMMA RestartHighest ==
  ASSUME TypeOK, SigningInv, HighestInv, NoCheckpointYet, NEW n \in Nodes, Restart(n)
  PROVE  HighestInv'
<1>1. /\ phase[n] = "down" /\ phase' = [phase EXCEPT ![n] = "idle"]
      /\ round' = [round EXCEPT ![n] = StartRound(n)]
      /\ dag' = [dag EXCEPT ![n] = dVertices[n]]
      /\ UNCHANGED <<created, cur, dVertices, dProposed>>
  <2>1. Recovered(n) = dVertices[n]
    BY DEF Recovered, NoCheckpointYet
  <2>. QED BY <2>1 DEF Restart, netVars, diskVars
<1>2. phase'[n] = "idle" /\ round'[n] = StartRound(n) /\ dag'[n] = dVertices[n]
  BY <1>1 DEF TypeOK
<1>3. /\ StartRound(n) \in {v.round + 1 : v \in dVertices[n]} \cup {dProposed[n] + 1}
      /\ StartRound(n) \in Nat /\ \A v \in dVertices[n] : StartRound(n) > v.round
  BY RestartRound DEF Recovered, NoCheckpointYet
<1>4. dVertices[n] \subseteq created /\ dProposed[n] \in Nat /\ \A v \in created : v.round \in Nat
  BY DEF TypeOK, VertexId
<1>5. ASSUME NEW h, Highest(h), h.author = n PROVE KeepsHighest(n, h)'
  <2>1. /\ h \in dVertices[n] /\ dProposed[n] <= h.round /\ h.round \in Nat
        /\ \A v \in dVertices[n] : v.round <= h.round
    BY <1>4, <1>5 DEF HighestInv, Highest, KeepsHighest
  <2>2. StartRound(n) = h.round + 1
    BY <1>3, <1>4, <2>1
  <2>. QED BY <1>1, <1>2, <2>1, <2>2 DEF KeepsHighest
<1>6. ASSUME created = {} PROVE Untried(n)'
  <2>1. dProposed[n] = 0 /\ dVertices[n] = {}
    BY <1>4, <1>6 DEF HighestInv, Untried
  <2>. QED BY <1>1, <1>2, <1>3, <2>1 DEF Untried
<1>7. \A m \in Nodes \ {n} :
        /\ phase'[m] = phase[m] /\ round'[m] = round[m] /\ cur'[m] = cur[m] /\ dag'[m] = dag[m]
        /\ dProposed'[m] = dProposed[m] /\ dVertices'[m] = dVertices[m]
  BY <1>1 DEF TypeOK
<1>. QED BY <1>1, <1>5, <1>6, <1>7, HighestOfOne

\* A node that dies having put down v, which it has signed or been sent, keeps the highest.
LEMMA CutOffHighest ==
  ASSUME TypeOK, SigningInv, HighestInv, NoCheckpointYet, NEW n \in Nodes, CutOff(n)
  PROVE  HighestInv'
<1>1. ASSUME NEW v \in VertexId, MayPropose(n, v), Sign(n, v), CutOffAdd(n, v) PROVE HighestInv'
  <2>1. /\ created' = created \cup {v} /\ v.round = round[n] /\ v.author = n
        /\ round[n] >= dProposed[n]
        /\ \A h \in created : h.author = n => h.round < round[n]
        /\ round[n] \in Nat /\ \A h \in created : h.round \in Nat
    BY <1>1, SignedAbove
  <2>2. /\ dVertices'[n] = dVertices[n] \cup {v} /\ Die(n) /\ dProposed' = dProposed
        /\ phase'[n] = "down" /\ \A m \in Nodes \ {n} : dVertices'[m] = dVertices[m]
    BY <1>1 DEF CutOffAdd, Die, TypeOK
  <2>3. ASSUME NEW h, Highest(h)' PROVE KeepsHighest(h.author, h)'
    <3>1. CASE h = v
      BY <2>1, <2>2, <3>1 DEF KeepsHighest
    <3>2. CASE h # v
      <4>1. h \in created /\ Highest(h) /\ v.round <= h.round
        BY <2>1, <2>3, <3>2 DEF Highest
      <4>2. h.author \in Nodes /\ h.author # n
        BY <2>1, <4>1 DEF SigningInv
      <4>3. KeepsHighest(h.author, h)
        BY <4>1 DEF HighestInv
      <4>. QED BY <2>2, <4>2, <4>3, DieLeavesOthers DEF KeepsHighest
    <3>. QED BY <3>1, <3>2
  <2>4. IsFiniteSet(created') /\ created' # {}
    BY <2>1, FS_AddElement DEF HighestInv
  <2>. QED BY <2>3, <2>4 DEF HighestInv
<1>2. ASSUME NEW v \in sent, CutOffAdd(n, v), UNCHANGED netVars PROVE HighestInv'
  <2>1. /\ created' = created /\ created # {} /\ Die(n) /\ dProposed' = dProposed
        /\ dVertices[n] \subseteq dVertices'[n] /\ phase'[n] = "down"
        /\ \A m \in Nodes \ {n} : dVertices'[m] = dVertices[m]
    BY <1>2 DEF CutOffAdd, Die, netVars, TypeOK
  <2>2. ASSUME NEW h, Highest(h), h.author = n PROVE KeepsHighest(n, h)'
    BY <2>1, <2>2 DEF HighestInv, KeepsHighest
  <2>. QED BY <2>1, <2>2, DieLeavesOthers, HighestOfOne
<1>3. ASSUME NEW a \in Validators, CutOffRecord(n, a) PROVE HighestInv'
  <2>1. /\ phase[n] = "record" /\ Die(n) /\ dProposed' = [dProposed EXCEPT ![n] = round[n]]
        /\ UNCHANGED <<created, dVertices>>
    BY <1>3 DEF CutOffRecord, PutsOfRecord, netVars
  <2>2. /\ dProposed'[n] = round[n] /\ \A m \in Nodes \ {n} : dProposed'[m] = dProposed[m]
        /\ phase'[n] = "down"
    BY <2>1 DEF Die, TypeOK
  <2>3. cur[n] \in created /\ cur[n].round = round[n]
    BY <2>1 DEF SigningInv, InHand
  <2>4. ASSUME NEW h, Highest(h), h.author = n PROVE KeepsHighest(n, h)'
    <3>1. cur[n].round <= h.round /\ h \in dVertices[n]
      BY <2>3, <2>4 DEF Highest, HighestInv, KeepsHighest
    <3>. QED BY <2>1, <2>2, <2>3, <3>1 DEF KeepsHighest
  <2>. QED BY <2>1, <2>2, <2>3, <2>4, DieLeavesOthers, HighestOfOne
<1>. QED BY <1>1, <1>2, <1>3 DEF CutOff

LEMMA HighestNext ==
  TypeOK /\ SigningInv /\ NoCheckpointYet /\ HighestInv /\ [Next]_vars => HighestInv'
<1> SUFFICES ASSUME TypeOK, SigningInv, NoCheckpointYet, HighestInv, [Next]_vars PROVE HighestInv'
  OBVIOUS
<1>1. ASSUME NEW n \in Nodes, NEW v \in sent, Receive(n, v) PROVE HighestInv'
  BY <1>1, ReceiveHighest
<1>2. ASSUME NEW n \in Nodes, Commit(n) \/ SaveSequence(n) \/ Execute(n) \/ Publish(n)
      PROVE  HighestInv'
  <2>1. /\ phase[n] \in {"commit", "save", "execute", "publish"}
        /\ \E p \in {"save", "execute", "seal", "record"} : phase' = [phase EXCEPT ![n] = p]
        /\ UNCHANGED <<created, round, dag, cur, dVertices, dProposed>>
    BY <1>2 DEF Commit, SaveSequence, Execute, Publish, netVars, diskVars
  <2>2. /\ phase'[n] \in {"save", "execute", "seal", "record"}
        /\ \A m \in Nodes \ {n} : phase'[m] = phase[m]
    BY <2>1 DEF TypeOK
  <2>3. ASSUME NEW h, Highest(h), h.author = n PROVE KeepsHighest(n, h)'
    BY <2>1, <2>2, <2>3 DEF HighestInv, KeepsHighest
  <2>4. created = {} => Untried(n)'
    BY <2>1 DEF HighestInv, Untried
  <2>. QED BY <2>1, <2>2, <2>3, <2>4, HighestOfOne
<1>3. ASSUME NEW n \in Nodes, Crash(n) PROVE HighestInv'
  <2>1. /\ phase' = [phase EXCEPT ![n] = "down"] /\ round' = [round EXCEPT ![n] = 0]
        /\ dag' = [dag EXCEPT ![n] = {}] /\ cur' = [cur EXCEPT ![n] = NoVertex]
        /\ UNCHANGED <<created, dVertices, dProposed>>
    BY <1>3 DEF Crash, Die, netVars, diskVars
  <2>2. /\ phase'[n] = "down"
        /\ \A m \in Nodes \ {n} : /\ phase'[m] = phase[m] /\ round'[m] = round[m]
                                 /\ cur'[m] = cur[m] /\ dag'[m] = dag[m]
    BY <2>1 DEF TypeOK
  <2>3. ASSUME NEW h, Highest(h), h.author = n PROVE KeepsHighest(n, h)'
    BY <2>1, <2>2, <2>3 DEF HighestInv, KeepsHighest
  <2>4. created = {} => Untried(n)'
    BY <2>1, <2>2 DEF HighestInv, Untried
  <2>. QED BY <2>1, <2>2, <2>3, <2>4, HighestOfOne
<1>4. CASE UNCHANGED vars
  <2>1. UNCHANGED <<created, phase, round, dag, cur, dVertices, dProposed>>
    BY <1>4 DEF vars, netVars, memVars, diskVars
  <2>. QED BY <2>1 DEF HighestInv, Highest, KeepsHighest, Untried
<1>. QED BY <1>1, <1>2, <1>3, <1>4, ProposeHighest, SealHighest, RecordHighest, CutOffHighest,
            RestartHighest DEF Next

\* Three validators and fewer never stand still before the first checkpoint, whoever crashes:
\* the one that signed the highest vertex can sign the next, or has reached the bound.
THEOREM FewGoOn ==
  ASSUME NValidators <= 3, Nodes \cap Validators # {}
  PROVE  Spec /\ []NoCheckpointYet => []NoStandstill
<1>1. ParentQuorum(NValidators) = 1
  BY ListCountsValidators, ListAssumption DEF ParentQuorum, Faults
<1>2. Init => HighestInv
  <2> SUFFICES ASSUME Init PROVE HighestInv
    OBVIOUS
  <2>. QED BY FS_EmptySet DEF Init, NodesInit, HighestInv, Highest, Untried
<1>3. TypeOK /\ SigningInv /\ HighestInv => NoStandstill
  <2> SUFFICES ASSUME TypeOK, SigningInv, HighestInv, \A n \in Nodes : phase[n] = "idle"
               PROVE  \E n \in Nodes \cap Validators :
                        \/ Cardinality(InRound(dag[n], round[n] - 1)) >= 1
                        \/ round[n] = 1
    BY <1>1 DEF NoStandstill
  <2>1. CASE created = {}
    BY <2>1 DEF HighestInv, Untried
  <2>2. CASE created # {}
    <3> DEFINE T == {v.round : v \in created}
    <3>1. T \in SUBSET Nat /\ T # {} /\ \A x \in T : x <= MaxRound
      BY <2>2, RoundsAssumption DEF TypeOK, VertexId
    <3>2. PICK m \in T : \A x \in T : x <= m
      <4> HIDE DEF T
      <4>. QED BY <3>1, RoundsAssumption, GreatestElement
    <3>3. PICK v \in created : Highest(v)
      BY <3>2 DEF Highest
    <3>4. v.author \in Nodes \cap Validators /\ v.round \in Nat
      BY DEF SigningInv, TypeOK, VertexId
    <3>5. v \in dag[v.author] /\ round[v.author] = v.round + 1
      BY <3>3, <3>4 DEF HighestInv, KeepsHighest
    <3> DEFINE R == InRound(dag[v.author], round[v.author] - 1)
    <3>6. v \in R /\ R \subseteq created
      <4>1. dag[v.author] \subseteq created
        BY <3>4 DEF TypeOK
      <4>2. round[v.author] - 1 = v.round
        BY ONLY <3>4, <3>5
      <4>. QED BY <3>5, <4>1, <4>2 DEF InRound
    <3>7. IsFiniteSet(R) /\ R # {}
      BY <3>6, FS_Subset DEF HighestInv
    <3> HIDE DEF R
    <3>8. Cardinality(R) \in Nat /\ Cardinality(R) # 0
      BY <3>7, FS_CardinalityType, FS_EmptySet
    <3>9. Cardinality(R) >= 1
      BY <3>8
    <3>. QED BY <3>4, <3>9 DEF R
  <2>. QED BY <2>1, <2>2
<1>. QED BY <1>2, <1>3, HighestNext, SigningInvariant, PTL DEF Spec

=============================================================================

----------------------------- MODULE DagConsensus -----------------------------
(****************************************************************************)
(* The DAG consensus of a cluster: consensus/consensus/src/dag.rs with the  *)
(* ordering engine of ordering.rs.  A node builds a vertex a round on the   *)
(* vertices it holds of the round before, gossips it, takes in the vertices *)
(* of others in any order, and commits an anchor with its history when the  *)
(* votes are there.  A node may crash between any two writes to its disk    *)
(* and starts again from what the disk holds.                               *)
(*                                                                          *)
(* DagConsensus is behind one write lock, so a handler is not interleaved   *)
(* with another of the same node.  It is cut into steps (phase) where other *)
(* nodes take part or the executor does; between other writes the process   *)
(* may die too, CutOff.                                                     *)
(****************************************************************************)
EXTENDS OrderingEngine, BftQuorum

CONSTANTS
  Nodes,             \* the nodes that run; one that is not a validator is an observer
  Peered,            \* the nodes whose peer list is not empty
  FirstCommitRound,  \* 4 in the code
  SequenceCap,       \* 10000: committed hashes kept on disk
  CheckpointPeriod,  \* 100
  PrunePeriod,       \* 10: blocks between prunings
  PruneAfter,        \* 50: no pruning up to this round
  PruneBuffer,       \* 10
  DowntimePeriod,    \* 10: rounds between downtime checks
  DowntimeThreshold, \* 100 missed rounds
  MaxRound,          \* bound: no vertex is signed above this round
  MaxCopies,         \* bound: vertices of one author in one round
  MaxCrashes         \* bound: crashes in a behaviour

Validators == {ValidatorList[i] : i \in 1..NValidators}

ASSUME ListAssumption == ValidatorList \in Seq(Validators) /\ NValidators >= 1
ASSUME DistinctAssumption ==
  \A i, j \in 1..NValidators : ValidatorList[i] = ValidatorList[j] => i = j
ASSUME RoundsAssumption == /\ MaxRound \in Nat /\ MaxCopies \in Nat /\ MaxCrashes \in Nat
                           /\ FirstCommitRound \in Nat /\ FirstCommitRound > 2
ASSUME PeriodsAssumption ==
  /\ {CheckpointPeriod, PrunePeriod, DowntimePeriod} \subseteq Nat \ {0}
  /\ {SequenceCap, PruneAfter, PruneBuffer, DowntimeThreshold} \subseteq Nat

\* The hash of a vertex: it covers round, author, parents, payload and time, so
\* signing twice for a round gives two hashes, told apart here by copy.
VertexId == [round : 1..MaxRound, author : Validators, copy : 1..MaxCopies]

VARIABLES
  created, par, sent,                  \* vertices signed, what they name, those broadcast
  phase, round, dag, cur, batch,       \* memory of each node
  crounds, cseq, beacon,               \* memory of its ordering engine
  dVertices, dProposed, dRounds, dSeq, \* RocksDB: vertex:, latest_proposed_round, consensus:committed_*
  dCheckpoint, dHeight,                \* RocksDB: dag:checkpoint:*, latest_height
  dLastSeen, dJailed, dPending,        \* RocksDB: validator:last_seen:, validator:jailed:, sys:pending_slash:
  executed,                            \* vertices whose payload the executor has run, in order
  anchors,                             \* history: the anchors each node has committed
  unseen,                              \* history: vertices put before a crash, their last_seen not
  crashes                              \* history: crashes so far

netVars  == <<created, par, sent>>
memVars  == <<phase, round, dag, cur, batch, crounds, cseq, beacon>>
slashVars == <<dLastSeen, dJailed, dPending>>
logVars  == <<dRounds, dSeq, dHeight>>
diskVars == <<dVertices, dProposed, dCheckpoint, logVars, slashVars>>
histVars == <<executed, anchors, unseen, crashes>>
vars == <<netVars, memVars, diskVars, histVars>>

Phases == {"idle", "commit", "save", "execute", "seal", "publish", "record", "down"}

NoCheckpoint == [round |-> 0, vertices |-> {}]
NoSlash == "none"

TypeOK ==
  /\ created \subseteq VertexId /\ sent \subseteq created
  /\ par \in [VertexId -> SUBSET created]
  /\ phase \in [Nodes -> Phases]
  /\ round \in [Nodes -> Nat]
  /\ dag \in [Nodes -> SUBSET created]
  /\ cur \in [Nodes -> created \cup {NoVertex}]
  /\ crounds \in [Nodes -> SUBSET (1..MaxRound)]
  /\ beacon \in [Nodes -> created \cup {NoVertex}]
  /\ dVertices \in [Nodes -> SUBSET created]
  /\ dProposed \in [Nodes -> Nat]
  /\ dRounds \in [Nodes -> SUBSET (1..MaxRound)]
  /\ dCheckpoint \in [Nodes -> [round : Nat, vertices : SUBSET created]]
  /\ dHeight \in [Nodes -> Nat]
  /\ dLastSeen \in [Nodes -> [Validators -> Nat]]
  /\ dJailed \in [Nodes -> SUBSET Validators]
  /\ dPending \in [Nodes -> [Validators -> {NoSlash, "double_sign", "downtime"}]]
  /\ anchors \in [Nodes -> SUBSET created] /\ unseen \in [Nodes -> SUBSET created]
  /\ crashes \in 0..MaxCrashes

NodesInit ==
  /\ phase = [n \in Nodes |-> "idle"]
  /\ round = [n \in Nodes |-> 1]
  /\ dag = [n \in Nodes |-> {}]
  /\ cur = [n \in Nodes |-> NoVertex]
  /\ batch = [n \in Nodes |-> <<>>]
  /\ crounds = [n \in Nodes |-> {}]
  /\ cseq = [n \in Nodes |-> <<>>]
  /\ beacon = [n \in Nodes |-> NoVertex]
  /\ dVertices = [n \in Nodes |-> {}]
  /\ dProposed = [n \in Nodes |-> 0]
  /\ dRounds = [n \in Nodes |-> {}]
  /\ dSeq = [n \in Nodes |-> <<>>]
  /\ dCheckpoint = [n \in Nodes |-> NoCheckpoint]
  /\ dHeight = [n \in Nodes |-> 0]
  /\ dLastSeen = [n \in Nodes |-> [v \in Validators |-> 0]]
  /\ dJailed = [n \in Nodes |-> {}]
  /\ dPending = [n \in Nodes |-> [v \in Validators |-> NoSlash]]
  /\ executed = [n \in Nodes |-> <<>>]
  /\ anchors = [n \in Nodes |-> {}]
  /\ unseen = [n \in Nodes |-> {}]
  /\ crashes = 0

Init ==
  /\ created = {} /\ sent = {}
  /\ par = [v \in VertexId |-> {}]
  /\ NodesInit

-----------------------------------------------------------------------------
(* try_create_vertex and add_vertex, up to the insertion in the DAG *)

SameSlot(v, w) == v.round = w.round /\ v.author = w.author

\* try_commit on the arrival of v: the anchors it considers, and whether one has
\* the votes.  Both look two rounds and one round below v, never at v itself.
Candidates(n, v) ==
  IF v.round >= FirstCommitRound /\ v.round - 2 \notin crounds[n]
  THEN AnchorsOf(dag[n], v.round - 2, beacon[n])
  ELSE {}

\* Seeded fault: every vertex of the next round counts as a vote.
SupportedByPresence(n, a) ==
  Cardinality(InRound(dag[n], a.round + 1)) >= CommitThreshold(NValidators)

Supported(n, a) == Cardinality(Votes(dag[n], par, a)) >= CommitThreshold(NValidators)

\* Where a handler goes on when nothing is committed: try_create_vertex has still
\* to broadcast its own vertex, the handler of a remote one is over.
Resume(n, v) ==
  /\ phase' = [phase EXCEPT ![n] = IF v.author = n THEN "publish" ELSE "idle"]
  /\ cur' = [cur EXCEPT ![n] = IF v.author = n THEN v ELSE NoVertex]

HasTwin(n, v) == \E w \in dag[n] : SameSlot(v, w) /\ w # v

\* A second vertex of a slot is reported and kept out of the DAG.
RejectTwin(n, v) ==
  /\ dPending' = [dPending EXCEPT ![n][v.author] = "double_sign"]
  /\ dJailed' = [dJailed EXCEPT ![n] = @ \cup {v.author}]
  /\ Resume(n, v)
  /\ UNCHANGED <<dag, dLastSeen, round, dProposed>>

\* Seeded fault: last_seen is recorded for the first vertex of a validator only.
AcceptFirstSighting(n, v) ==
  LET remote == v.author # n
      ahead  == remote /\ v.round >= round[n]
  IN
  /\ dag' = [dag EXCEPT ![n] = @ \cup {v}]
  /\ dLastSeen' = [dLastSeen EXCEPT ![n][v.author] = IF remote /\ @ = 0 THEN v.round ELSE @]
  /\ round' = [round EXCEPT ![n] = IF ahead THEN v.round + 1 ELSE @]
  /\ dProposed' = [dProposed EXCEPT ![n] = IF ahead THEN v.round + 1 ELSE @]
  /\ IF \E a \in Candidates(n, v) : Supported(n, a)
     THEN /\ phase' = [phase EXCEPT ![n] = "commit"]
          /\ cur' = [cur EXCEPT ![n] = v]
     ELSE Resume(n, v)
  /\ UNCHANGED <<dJailed, dPending>>

\* A remote vertex is put down as the last seen of its author.
SeenNow(n, v) ==
  dLastSeen' = [dLastSeen EXCEPT ![n][v.author] = IF v.author # n /\ v.round > @ THEN v.round ELSE @]

\* Any other vertex enters the DAG; a remote one at or above this node's round
\* moves the node past it, and the round skipped is saved as proposed.
Accept(n, v) ==
  LET remote == v.author # n
      ahead  == remote /\ v.round >= round[n]
  IN
  /\ dag' = [dag EXCEPT ![n] = @ \cup {v}]
  /\ SeenNow(n, v)
  /\ round' = [round EXCEPT ![n] = IF ahead THEN v.round + 1 ELSE @]
  /\ dProposed' = [dProposed EXCEPT ![n] = IF ahead THEN v.round + 1 ELSE @]
  /\ \/ /\ \E a \in Candidates(n, v) : Supported(n, a)
        /\ phase' = [phase EXCEPT ![n] = "commit"]
        /\ cur' = [cur EXCEPT ![n] = v]
     \/ /\ \/ Candidates(n, v) = {}
           \/ \E a \in Candidates(n, v) : ~Supported(n, a)
        /\ Resume(n, v)
  /\ UNCHANGED <<dJailed, dPending>>

\* Seeded fault: any earlier vertex of the author counts as a twin.
AddVertexOfNewAuthor(n, v) ==
  /\ dVertices' = [dVertices EXCEPT ![n] = @ \cup {v}]
  /\ IF \E w \in dag[n] : w.author = v.author THEN RejectTwin(n, v) ELSE Accept(n, v)
  /\ UNCHANGED <<batch, crounds, cseq, beacon, dCheckpoint, logVars, histVars>>

\* add_vertex of v at n: the vertex is on disk before the double-sign check.
AddVertex(n, v) ==
  /\ dVertices' = [dVertices EXCEPT ![n] = @ \cup {v}]
  /\ IF HasTwin(n, v) THEN RejectTwin(n, v) ELSE Accept(n, v)
  /\ UNCHANGED <<batch, crounds, cseq, beacon, dCheckpoint, logVars, histVars>>

Parents(n) == InRound(dag[n], round[n] - 1)

\* The 3-second tick of a validator that is connected, or alone in the set, and
\* holds a quorum of vertices of the round before.
MayPropose(n, v) ==
  /\ phase[n] = "idle"
  /\ v.round = round[n] /\ v.author = n
  /\ v.copy = Cardinality({w \in created : w.round = round[n] /\ w.author = n}) + 1
  /\ n \in Peered \/ Validators = {n}
  /\ round[n] > 1 => Cardinality(Parents(n)) >= ParentQuorum(NValidators)

Sign(n, v) ==
  /\ created' = created \cup {v}
  /\ par' = [par EXCEPT ![v] = Parents(n)]
  /\ UNCHANGED sent

Propose(n) == \E v \in VertexId : MayPropose(n, v) /\ Sign(n, v) /\ AddVertex(n, v)

\* A gossiped vertex arrives: late, out of order, again after a restart, or never.
MayReceive(n, v) == phase[n] = "idle" /\ v.author # n /\ v \notin dag[n]

Receive(n, v) == MayReceive(n, v) /\ AddVertex(n, v) /\ UNCHANGED netVars

-----------------------------------------------------------------------------
(* add_vertex, from try_commit to the checkpoint *)

\* try_commit succeeds: the committed rounds reach the disk first.
Commit(n) ==
  /\ phase[n] = "commit"
  /\ \E a \in Candidates(n, cur[n]) :
       /\ Supported(n, a)
       /\ batch' = [batch EXCEPT ![n] = Ordered(dag[n], par, ToSet(cseq[n]), a)]
       /\ beacon' = [beacon EXCEPT ![n] = a]
       /\ anchors' = [anchors EXCEPT ![n] = @ \cup {a}]
  /\ crounds' = [crounds EXCEPT ![n] = @ \cup {cur[n].round - 2}]
  /\ cseq' = [cseq EXCEPT ![n] = @ \o batch'[n]]
  /\ dRounds' = [dRounds EXCEPT ![n] = crounds'[n]]
  /\ phase' = [phase EXCEPT ![n] = "save"]
  /\ UNCHANGED <<netVars, round, dag, cur, dVertices, dProposed, dCheckpoint, dSeq, dHeight,
                 slashVars, executed, unseen, crashes>>

\* The last SequenceCap hashes are meant to be kept; they are written newest first.
SaveSequence(n) ==
  /\ phase[n] = "save"
  /\ dSeq' = [dSeq EXCEPT ![n] =
       SubSeq(Reverse(cseq[n]), 1, IF Len(cseq[n]) < SequenceCap THEN Len(cseq[n]) ELSE SequenceCap)]
  /\ phase' = [phase EXCEPT ![n] = "execute"]
  /\ UNCHANGED <<netVars, round, dag, cur, batch, crounds, cseq, beacon, dVertices, dProposed,
                 dCheckpoint, dRounds, dHeight, slashVars, histVars>>

SlashesPerBlock == 5

\* The place of a validator in the list, which is also its place in the order of the keys.
Place(v) == CHOOSE i \in 1..NValidators : ValidatorList[i] = v

\* The pending slashes that one block takes, in key order.
SlashesDue(n) ==
  LET pending == {v \in Validators : dPending[n][v] # NoSlash}
  IN  {v \in pending : Cardinality({w \in pending : Place(w) < Place(v)}) < SlashesPerBlock}

\* The executor runs the payloads of the batch and drains the slash queue.
Execute(n) ==
  /\ phase[n] = "execute"
  /\ executed' = [executed EXCEPT ![n] = @ \o batch[n]]
  /\ dPending' = [dPending EXCEPT ![n] =
       [v \in Validators |-> IF v \in SlashesDue(n) THEN NoSlash ELSE @[v]]]
  /\ phase' = [phase EXCEPT ![n] = "seal"]
  /\ UNCHANGED <<netVars, round, dag, cur, batch, crounds, cseq, beacon, dVertices, dProposed,
                 dCheckpoint, logVars, dLastSeen, dJailed, anchors, unseen, crashes>>

\* prune_dag: the rounds that Seal drops when the new height is h.
Pruned(n, h) ==
  LET oldest == CHOOSE r \in crounds[n] : \A s \in crounds[n] : r <= s
  IN  IF h % PrunePeriod = 0 /\ round[n] > PruneAfter /\ oldest > PruneBuffer
      THEN {v \in dag[n] : v.round < oldest - PruneBuffer}
      ELSE {}

\* The block is stored; then pruning and, in a checkpoint round, a checkpoint,
\* both skipped if the commit added no vertex.
Seal(n) ==
  LET h == dHeight[n] + 1
      gone == IF batch[n] = <<>> THEN {} ELSE Pruned(n, h)
      checkpoint == batch[n] # <<>> /\ round[n] % CheckpointPeriod = 0
  IN
  /\ phase[n] = "seal"
  /\ dHeight' = [dHeight EXCEPT ![n] = h]
  /\ dag' = [dag EXCEPT ![n] = @ \ gone]
  /\ dVertices' = [dVertices EXCEPT ![n] = @ \ gone]
  /\ dCheckpoint' = [dCheckpoint EXCEPT ![n] =
       IF checkpoint THEN [round |-> round[n], vertices |-> dag[n] \ gone] ELSE @]
  /\ batch' = [batch EXCEPT ![n] = <<>>]
  /\ Resume(n, cur[n])
  /\ UNCHANGED <<netVars, round, crounds, cseq, beacon, dProposed, dRounds, dSeq, slashVars,
                 histVars>>

-----------------------------------------------------------------------------
(* The end of try_create_vertex *)

Publish(n) ==
  /\ phase[n] = "publish"
  /\ sent' = sent \cup {cur[n]}
  /\ phase' = [phase EXCEPT ![n] = "record"]
  /\ UNCHANGED <<created, par, round, dag, cur, batch, crounds, cseq, beacon, diskVars, histVars>>

\* Validators that n has not heard of for DowntimeThreshold rounds and not jailed yet.
Missing(n) ==
  {v \in Validators \ (dJailed[n] \cup {n}) :
     /\ round[n] % DowntimePeriod = 0
     /\ dLastSeen[n][v] > 0
     /\ round[n] - dLastSeen[n][v] >= DowntimeThreshold}

\* latest_proposed_round is written after the broadcast; then the node's own last_seen.
PutsOfRecord(n) ==
  /\ dProposed' = [dProposed EXCEPT ![n] = round[n]]
  /\ dLastSeen' = [dLastSeen EXCEPT ![n][n] = round[n]]

\* The downtime check, and the round is over.
Record(n) ==
  /\ phase[n] = "record"
  /\ PutsOfRecord(n)
  /\ dJailed' = [dJailed EXCEPT ![n] = @ \cup Missing(n)]
  /\ dPending' = [dPending EXCEPT ![n] =
       [v \in Validators |-> IF v \in Missing(n) THEN "downtime" ELSE @[v]]]
  /\ round' = [round EXCEPT ![n] = @ + 1]
  /\ phase' = [phase EXCEPT ![n] = "idle"]
  /\ cur' = [cur EXCEPT ![n] = NoVertex]
  /\ UNCHANGED <<netVars, dag, batch, crounds, cseq, beacon, dVertices, dCheckpoint, logVars,
                 histVars>>

-----------------------------------------------------------------------------
(* Crash, and DagConsensus::new with OrderingEngine::new_with_storage *)

\* The process dies; what it holds in memory is gone.
Die(n) ==
  /\ crashes < MaxCrashes
  /\ crashes' = crashes + 1
  /\ phase' = [phase EXCEPT ![n] = "down"]
  /\ round' = [round EXCEPT ![n] = 0]
  /\ dag' = [dag EXCEPT ![n] = {}]
  /\ cur' = [cur EXCEPT ![n] = NoVertex]
  /\ batch' = [batch EXCEPT ![n] = <<>>]
  /\ crounds' = [crounds EXCEPT ![n] = {}]
  /\ cseq' = [cseq EXCEPT ![n] = <<>>]
  /\ beacon' = [beacon EXCEPT ![n] = NoVertex]
  /\ UNCHANGED <<executed, anchors>>

\* Between two steps,
Crash(n) ==
  /\ phase[n] # "down"
  /\ Die(n)
  /\ UNCHANGED <<netVars, diskVars, unseen>>

\* or inside add_vertex: the vertex is on disk, and will be in the DAG, but last_seen
\* is not written; or a twin is reported without a jail mark; or last_seen is written
\* and the round of a node that is behind is not.
CutOffAdd(n, v) ==
  /\ dVertices' = [dVertices EXCEPT ![n] = @ \cup {v}]
  /\ \/ /\ unseen' = [unseen EXCEPT ![n] = IF v.author = n THEN @ ELSE @ \cup {v}]
        /\ UNCHANGED slashVars
     \/ /\ HasTwin(n, v)
        /\ dPending' = [dPending EXCEPT ![n][v.author] = "double_sign"]
        /\ UNCHANGED <<unseen, dLastSeen, dJailed>>
     \/ /\ ~HasTwin(n, v)
        /\ SeenNow(n, v)
        /\ UNCHANGED <<unseen, dJailed, dPending>>
  /\ Die(n)
  /\ UNCHANGED <<dProposed, dCheckpoint, logVars>>

\* or in the downtime check: those before a are jailed and queued, a is jailed at most.
CutOffRecord(n, a) ==
  /\ phase[n] = "record" /\ a \in Missing(n)
  /\ PutsOfRecord(n)
  /\ LET done == {v \in Missing(n) : Place(v) < Place(a)}
     IN  /\ \E marked \in SUBSET {a} : dJailed' = [dJailed EXCEPT ![n] = @ \cup done \cup marked]
         /\ dPending' = [dPending EXCEPT ![n] =
              [v \in Validators |-> IF v \in done THEN "downtime" ELSE @[v]]]
  /\ Die(n)
  /\ UNCHANGED <<netVars, dVertices, dCheckpoint, logVars, unseen>>

CutOff(n) ==
  \/ \E v \in VertexId : MayPropose(n, v) /\ Sign(n, v) /\ CutOffAdd(n, v)
  \/ \E v \in sent : MayReceive(n, v) /\ CutOffAdd(n, v) /\ UNCHANGED netVars
  \/ \E a \in Validators : CutOffRecord(n, a)

\* What a restart puts in the DAG: once there is a checkpoint, the checkpoint only.
Recovered(n) ==
  IF dCheckpoint[n].round > 0 THEN dCheckpoint[n].vertices ELSE dVertices[n]

\* Seeded fault: the recovered vertices are not looked at.
StartAfterProposed(n) == dProposed[n] + 1

\* The round after every recovered vertex, or after latest_proposed_round if that is higher.
StartRound(n) ==
  CHOOSE r \in {v.round + 1 : v \in Recovered(n)} \cup {dProposed[n] + 1} :
    /\ r > dProposed[n]
    /\ \A v \in Recovered(n) : r > v.round

\* Seeded fault: the committed sequence is not loaded.
RestartWithoutSequence(n) ==
  /\ phase[n] = "down"
  /\ phase' = [phase EXCEPT ![n] = "idle"]
  /\ round' = [round EXCEPT ![n] = StartRound(n)]
  /\ dag' = [dag EXCEPT ![n] = Recovered(n)]
  /\ crounds' = [crounds EXCEPT ![n] = dRounds[n]]
  /\ UNCHANGED <<netVars, cur, batch, cseq, beacon, diskVars, histVars>>

Restart(n) ==
  /\ phase[n] = "down"
  /\ phase' = [phase EXCEPT ![n] = "idle"]
  /\ round' = [round EXCEPT ![n] = StartRound(n)]
  /\ dag' = [dag EXCEPT ![n] = Recovered(n)]
  /\ crounds' = [crounds EXCEPT ![n] = dRounds[n]]
  /\ cseq' = [cseq EXCEPT ![n] = dSeq[n]]
  /\ UNCHANGED <<netVars, cur, batch, beacon, diskVars, histVars>>

-----------------------------------------------------------------------------

Next == \E n \in Nodes :
  \/ Propose(n)
  \/ \E v \in sent : Receive(n, v)
  \/ Commit(n)
  \/ SaveSequence(n)
  \/ Execute(n)
  \/ Seal(n)
  \/ Publish(n)
  \/ Record(n)
  \/ Crash(n) \/ CutOff(n) \/ Restart(n)

Spec == Init /\ [][Next]_vars

\* The rest of a handler, once it has begun.
Continue(n) ==
  Commit(n) \/ SaveSequence(n) \/ Execute(n) \/ Seal(n) \/ Publish(n) \/ Record(n)

\* Handlers run to their end, the proposal timer keeps ticking, a process that
\* died is started again (restart: always in the compose files), and gossip
\* delivers sooner or later.
Fairness == \A n \in Nodes :
  /\ WF_vars(Propose(n))
  /\ WF_vars(Continue(n))
  /\ WF_vars(Restart(n))
  /\ WF_vars(\E v \in sent : Receive(n, v))

FairSpec == Spec /\ Fairness

-----------------------------------------------------------------------------
(* Properties *)

\* The cluster-wide promise that this module implements.
Promise == INSTANCE AnchoredDag WITH anchors <- UNION {anchors[n] : n \in Nodes}

\* No node, seen from outside, breaks the cluster-wide rules: one vertex per
\* validator and round over a quorum of parents (try_create_vertex), and no
\* anchor without its votes (try_commit).
ImplementsPromise == Promise!Spec

\* No validator ever signs two vertices for one round, although it may crash
\* between any two writes of try_create_vertex (dag.rs:221, "to prevent
\* Double-Sign on restart").  Recovery has to scan every vertex for this.
NoDoubleSign == \A v, w \in created : SameSlot(v, w) => v = w

\* Until its first checkpoint a validator signs once a round, whenever it crashes:
\* every vertex it signed is on disk, or is outlived there by a later one, or is
\* covered by latest_proposed_round.
SignsOnceBeforeCheckpoint ==
  \A v, w \in created : SameSlot(v, w) /\ v # w => dCheckpoint[v.author].round > 0

\* Why: the round of a running node is above all that it signed but the vertex in
\* hand, and what the disk holds of a node reaches as high as all that it signed.
RoundIsAhead(n) ==
  /\ phase[n] # "down" => round[n] >= dProposed[n] /\ round[n] >= 1
  /\ phase[n] # "down" /\ dCheckpoint[n].round = 0 =>
       \A h \in created : h.author = n =>
         h.round < round[n] \/ (phase[n] # "idle" /\ h = cur[n])

InHand(n) ==
  /\ phase[n] \notin {"idle", "down"} =>
       cur[n] \in created /\ (cur[n].author = n => cur[n].round = round[n])
  /\ phase[n] \in {"publish", "record"} => cur[n].author = n
  /\ phase[n] \in {"commit", "save", "execute", "seal"} => cur[n] \in dVertices[n]
  /\ phase[n] \in {"save", "execute", "seal"} => cur[n].round - 2 \in crounds[n]

OnDisk(n) ==
  dCheckpoint[n].round = 0 =>
    \A h \in created : h.author = n =>
      h.round <= dProposed[n] \/ \E v \in dVertices[n] : v.round >= h.round

SigningInv ==
  /\ \A v \in created : v.author \in Nodes
  /\ SignsOnceBeforeCheckpoint
  /\ \A n \in Nodes : RoundIsAhead(n) /\ InHand(n) /\ OnDisk(n)

\* No node runs the payload of a vertex twice, restarts included: the committed
\* sequence is saved before execution and loaded again (ordering.rs:186).
ExecutedOnce == \A n \in Nodes : IsInjective(executed[n])

\* A slash for double-signing is queued only against a validator that signed two
\* vertices of one round (add_vertex, the equivocation branch).
AccusedSignedTwice ==
  \A n \in Nodes : \A a \in Validators :
    dPending[n][a] = "double_sign" =>
      \E v, w \in created : SameSlot(v, w) /\ v # w /\ v.author = a

\* A validator is slashed for downtime only if the node that accuses it holds no
\* vertex of it within the last DowntimeThreshold rounds, restarts of the accuser
\* included (dag.rs:405, the false-positive slashes that last_seen is to prevent), but
\* for slots of which a crash has kept last_seen from the disk.
Slashes(n, a) == dPending[n][a] # "downtime" /\ dPending'[n][a] = "downtime"

LongAgo(n, v) == round[n] - v.round >= DowntimeThreshold

SlashedForAbsence ==
  [][\A n \in Nodes : \A a \in Validators : Slashes(n, a) =>
       \A v \in dag[n] : v.author = a =>
         LongAgo(n, v) \/ \E u \in unseen[n] : SameSlot(u, v)]_vars

\* The same without exception.  The code breaks it: the vertex is put before last_seen,
\* and skipped as known when it is delivered again.
HeardOfIsNotSlashed ==
  [][\A n \in Nodes : \A a \in Validators : Slashes(n, a) =>
       \A v \in dag[n] : v.author = a => LongAgo(n, v)]_vars

\* When all is delivered and every node waits for its next tick, some validator
\* has a quorum of parents, or the bound on rounds is reached.
Delivered == \A n \in Nodes : \A v \in sent : v.author = n \/ v \in dag[n]

NoStandstill ==
  Delivered /\ (\A n \in Nodes : phase[n] = "idle") =>
    \E n \in Nodes \cap Validators :
      \/ round[n] > MaxRound
      \/ Cardinality(InRound(dag[n], round[n] - 1)) >= ParentQuorum(NValidators)
      \/ round[n] = 1

\* Every validator gets past every round, whoever crashes and restarts.
RoundsAdvance == \A n \in Nodes \cap Validators : <>(round[n] > MaxRound)

\* A node at rest has executed everything that its disk calls committed.
CommittedIsExecuted ==
  \A n \in Nodes : phase[n] = "idle" => ToSet(dSeq[n]) \subseteq ToSet(executed[n])

\* Two nodes execute the same vertices in the same order, one perhaps further
\* than the other (docs/CONSENSUS_DEEP_DIVE.md, the linear order all nodes agree on).
SameOrder ==
  \A m, n \in Nodes :
    IsPrefix(executed[m], executed[n]) \/ IsPrefix(executed[n], executed[m])
=============================================================================

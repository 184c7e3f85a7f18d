-------------------------- MODULE DataAvailability --------------------------
(****************************************************************************)
(* The data availability layer of a node (da/src): create_batch, which the   *)
(* consensus calls for every committed batch, the messages by which shards   *)
(* are announced, asked for and delivered, and the sampling of a light       *)
(* client over aincore_sampleDA.  A batch is its proposer and a number;      *)
(* compressing it and cutting it into shards give the shards <<batch, id>>,  *)
(* of which any DataShards decode to it.                                     *)
(*                                                                          *)
(* Puts are single steps, and a process may end between any two; da_data and *)
(* da_root, which nothing here reads again, go with the two before them.     *)
(* The DA_COMMIT that follows is left out: handle_incoming_batch wants the   *)
(* name of the proposer, which comes from the key of the node, to be the     *)
(* beginning of the key of the sequencer, which is another, so that a node   *)
(* takes in no batch of any other.                                           *)
(****************************************************************************)
EXTENDS MerkleTree, FiniteSets, SequencesExt

CONSTANTS
  Keepers,
  Proposers,    \* the nodes whose consensus makes batches
  NumShards,    \* 32 in the code, half of them for data
  DataShards,
  SampleSize,   \* 30 in the code
  Nearest,      \* for each shard the nodes in the order of their hashes with it
  Replication,  \* 3 in the code
  MaxBatches,   \* bound
  MaxCrashes,   \* bound
  Fetched       \* bound: the shards that are asked for

Ids == 0..NumShards - 1

ASSUME DAAssumption ==
  /\ Proposers \subseteq Keepers
  /\ NumShards \in Nat /\ DataShards \in 1..NumShards /\ SampleSize \in Nat
  /\ Nearest \in [Ids -> Seq(Keepers)] /\ Replication \in Nat
  /\ MaxBatches \in Nat /\ MaxCrashes \in Nat /\ Fetched \subseteq Ids

\* Three quarters of the samples of the code are more than it takes to decode.
ASSUME SamplingAssumption == 3 * SampleSize > 4 * (DataShards - 1)

VARIABLES
  disk,      \* da_shard, da_commitment and da_meta of each node
  epoch,     \* memory: the last epoch each node has used
  assigned,  \* memory: the shards that each node is to keep
  writing,   \* the batch each node is creating and what it has still to put
  responses, \* the shard responses on their way
  made,      \* history: the batches, each with the epoch it was made in
  crashes,   \* history
  sampling   \* one light client: the node and epoch it looks at, what it has found

daVars == <<disk, epoch, assigned, writing, responses, made, crashes, sampling>>

Epochs  == 1..MaxBatches
Absent  == <<>>
Zeros   == [of |-> <<>>, id |-> 0]
Shards(b) == [i \in 1..NumShards |-> [of |-> b, id |-> i - 1]]

Empty == [shard      |-> [e \in Epochs |-> [i \in Ids |-> Absent]],
          commitment |-> [e \in Epochs |-> Absent],
          meta       |-> {}]

Idle      == [batch |-> Absent, left |-> <<>>]
NoClient  == [node |-> Absent, epoch |-> 0, sampled |-> {}, drawn |-> 0, found |-> 0, verdict |-> "none"]

----------------------------------------------------------------------------
(* Creating a batch. *)

\* ShardManager::update_validators: each shard goes to the first nodes of its order.
\* No code of the node calls it, so that a node has no shards to keep unless a
\* caller outside does.
UpdateValidators(n) ==
  /\ assigned' = [assigned EXCEPT ![n] =
       {i \in Ids : \E k \in 1..Len(Nearest[i]) : k <= Replication /\ Nearest[i][k] = n}]
  /\ UNCHANGED <<disk, epoch, writing, responses, made, crashes, sampling>>

\* create_batch takes the next epoch of its node, which starts at one in every process.
CreateBatch(n) ==
  /\ writing[n] = Idle /\ Cardinality(made) < MaxBatches
  /\ epoch' = [epoch EXCEPT ![n] = @ + 1]
  /\ LET b == <<n, Cardinality(made)>> IN
       /\ made' = made \cup {[batch |-> b, epoch |-> epoch[n] + 1]}
       /\ writing' = [writing EXCEPT ![n] =
            [batch |-> b,
             left  |-> SetToSeq({<<"shard", i>> : i \in assigned[n]})
                         \o <<<<"commitment", 0>>, <<"meta", 0>>>>]]
  /\ UNCHANGED <<disk, assigned, responses, crashes, sampling>>

Put(n) ==
  LET w == writing[n]
      b == w.batch
      e == epoch[n]
      k == Head(w.left)
      d == disk[n] IN
  /\ w # Idle
  /\ disk' = [disk EXCEPT ![n] =
       CASE k[1] = "shard"      -> [d EXCEPT !.shard[e][k[2]] = Shards(b)[k[2] + 1]]
         [] k[1] = "commitment" -> [d EXCEPT !.commitment[e] = MerkleRoot(Shards(b))]
         [] k[1] = "meta"       -> [d EXCEPT !.meta = @ \cup {e}]]
  /\ writing' = [writing EXCEPT ![n] =
       IF Len(w.left) = 1 THEN Idle ELSE [w EXCEPT !.left = Tail(@)]]
  /\ UNCHANGED <<epoch, assigned, responses, made, crashes, sampling>>

\* A new process counts its epochs from the start and knows of no assignment.
Crash(n) ==
  /\ crashes < MaxCrashes /\ crashes' = crashes + 1
  /\ epoch' = [epoch EXCEPT ![n] = 0]
  /\ assigned' = [assigned EXCEPT ![n] = {}]
  /\ writing' = [writing EXCEPT ![n] = Idle]
  /\ UNCHANGED <<disk, responses, made, sampling>>

----------------------------------------------------------------------------
(* Shards between nodes: handle_p2p_message.  Announcements and requests are *)
(* made by code outside, which may repeat and delay them.                    *)

\* BatchAnnouncement: the root is stored over whatever root the epoch had.
HearAnnouncement(n, m) ==
  /\ n # m.batch[1]
  /\ disk' = [disk EXCEPT ![n].commitment[m.epoch] = MerkleRoot(Shards(m.batch))]
  /\ UNCHANGED <<epoch, assigned, writing, responses, made, crashes, sampling>>

\* The shards of an epoch as get_shard_proof finds them: zeros for those it lacks.
Found(n, e) ==
  [i \in 1..NumShards |->
     IF disk[n].shard[e][i - 1] = Absent THEN Zeros ELSE disk[n].shard[e][i - 1]]

\* ShardRequest: get_shard_proof and handle_shard_request.
AnswerRequest(n, e, i) ==
  /\ e \in disk[n].meta
  /\ responses' = responses \cup {[from |-> n, epoch |-> e, id |-> i, data |-> Found(n, e)[i + 1],
                         proof |-> get_proof(Found(n, e), i)]}
  /\ UNCHANGED <<disk, epoch, assigned, writing, made, crashes, sampling>>

\* Seeded fault: the shard is taken before its proof is looked at.
TakesUnverified(n, r) == disk[n].commitment[r.epoch] # Absent

Takes(n, r) ==
  /\ disk[n].commitment[r.epoch] # Absent
  /\ verify_proof(r.data, r.proof, disk[n].commitment[r.epoch], r.id)

\* ShardResponse: a shard that belongs under the root is stored.
HearResponse(n, r) ==
  /\ n # r.from /\ Takes(n, r)
  /\ disk' = [disk EXCEPT ![n].shard[r.epoch][r.id] = r.data]
  /\ UNCHANGED <<epoch, assigned, writing, responses, made, crashes, sampling>>

----------------------------------------------------------------------------
(* Sampling: DASampler::sample over aincore_sampleDA, one shard a step. *)

StartSampling(n, e) ==
  /\ sampling = NoClient /\ SampleSize <= NumShards
  /\ sampling' = [NoClient EXCEPT !.node = n, !.epoch = e]
  /\ UNCHANGED <<disk, epoch, assigned, writing, responses, made, crashes>>

\* Seeded fault: a shard may be drawn twice.
DrawAny(i) == TRUE
Draw(i) == i \notin sampling.sampled

SampleShard(i) ==
  LET there == disk[sampling.node].shard[sampling.epoch][i] # Absent
      found == sampling.found + IF there THEN 1 ELSE 0
      drawn == sampling.drawn + 1 IN
  /\ sampling.node # Absent /\ sampling.verdict = "none" /\ Draw(i)
  /\ sampling' = [sampling EXCEPT !.sampled = @ \cup {i}, !.drawn = drawn, !.found = found,
       !.verdict = IF drawn < SampleSize THEN "none" ELSE IF 4 * found >= 3 * SampleSize THEN "pass" ELSE "fail"]
  /\ UNCHANGED <<disk, epoch, assigned, writing, responses, made, crashes>>

----------------------------------------------------------------------------
DAInit ==
  /\ disk = [n \in Keepers |-> Empty]
  /\ epoch = [n \in Keepers |-> 0] /\ assigned = [n \in Keepers |-> {}]
  /\ writing = [n \in Keepers |-> Idle]
  /\ responses = {} /\ made = {} /\ crashes = 0 /\ sampling = NoClient

DANext ==
  \/ \E n \in Proposers : UpdateValidators(n) \/ CreateBatch(n) \/ Put(n) \/ Crash(n)
  \/ \E n \in Keepers :
       \/ \E m \in made : HearAnnouncement(n, m)
       \/ \E e \in Epochs, i \in Fetched : AnswerRequest(n, e, i)
       \/ \E r \in responses : HearResponse(n, r)
       \/ \E e \in Epochs : StartSampling(n, e)
  \/ \E i \in Ids : SampleShard(i)

DASpec == DAInit /\ [][DANext]_daVars

----------------------------------------------------------------------------
(* Properties. *)

\* A shard that a node keeps under an epoch and an index is that shard of a batch made
\* in that epoch: never zeros for a missing one, a shard of another place, or one of a
\* batch of another epoch, whatever processes end and messages come late or again.
ShardsAreCommitted ==
  \A n \in Keepers, e \in Epochs, i \in Ids :
    disk[n].shard[e][i] # Absent =>
      \E m \in made : m.epoch = e /\ disk[n].shard[e][i] = [of |-> m.batch, id |-> i]

\* The shards of batch b that node n keeps under epoch e; reconstruct takes DataShards of
\* one batch.
KeptOf(n, e, b) == {i \in Ids : disk[n].shard[e][i] = [of |-> b, id |-> i]}
Decodable(n, e) ==
  \E m \in made : m.epoch = e /\ Cardinality(KeptOf(n, e, m.batch)) >= DataShards

OneBatch(e) == \A m1, m2 \in made : m1.epoch = e /\ m2.epoch = e => m1 = m2

\* Once the sampling of an epoch that one batch was made in has passed, the node sampled
\* holds as many shards of that batch as it takes to decode it, whatever processes end and
\* messages come late or again.
PassedIsDecodable ==
  sampling.verdict = "pass" /\ OneBatch(sampling.epoch) =>
    Decodable(sampling.node, sampling.epoch)

\* What sampling.rs promises, "true if data is available": so of every epoch.  The code
\* breaks it: two batches that share an epoch leave a mixture that decodes to neither.
EveryPassDecodes ==
  sampling.verdict = "pass" => Decodable(sampling.node, sampling.epoch)

\* What a node answers for a shard it keeps, of the batch whose root it has, is taken by
\* whoever has that root.  The code breaks it: a node that keeps some of the shards only
\* proves them under a tree with zeros for the others.
KeptShardsAreServed ==
  \A r \in responses : \A n \in Keepers :
    r.data # Zeros /\ disk[n].commitment[r.epoch] = MerkleRoot(Shards(r.data.of)) =>
      verify_proof(r.data, r.proof, disk[n].commitment[r.epoch], r.id)

=============================================================================

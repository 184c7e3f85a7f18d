--------------------------- MODULE SimpleConsensus ---------------------------
(****************************************************************************)
(* The older engine of the consensus crate (consensus/consensus/src/lib.rs): *)
(* any validator proposes a block, whoever hears of it votes, and a node     *)
(* commits a block once votes of two thirds of the stake and one more are    *)
(* with it.  Messages arrive late, in any order, twice or never.  The round  *)
(* is never advanced, so that the hash of a block is its parent, its height  *)
(* and its proposer; its transactions are no part of it.                     *)
(****************************************************************************)
EXTENDS Integers, Sequences, FiniteSets, Functions

CONSTANTS
  SessionKeys,         \* by their session keys
  Validators,    \* the nodes whose keys sys:validators lists
  Weight,        \* their stake
  MaxProposals   \* bound

ASSUME SimpleAssumption ==
  /\ Validators \subseteq SessionKeys /\ IsFiniteSet(Validators)
  /\ Weight \in [Validators -> Nat]
  /\ MaxProposals \in Nat

VARIABLES
  pending_proposals,  \* the blocks each node holds, one for a hash
  votes,              \* the pairs of a hash and a voter it has counted
  committed_blocks,   \* its chain
  broadcast,          \* the messages sent so far
  proposed            \* history, and the payload of the next block

simpleVars == <<pending_proposals, votes, committed_blocks, broadcast, proposed>>

Quorum == (SumFunctionOnSet(Weight, Validators) * 2) \div 3 + 1

Hashes(blocks) == {blocks[i].hash : i \in DOMAIN blocks}

StakeOf(counted, hash) ==
  SumFunctionOnSet(Weight, {v \in Validators : <<hash, v>> \in counted})

\* The votes n has once it has handled one; those of strangers do not count.
Counted(n, hash, voter) ==
  IF voter \in Validators THEN votes[n] \cup {<<hash, voter>>} ELSE votes[n]

\* Seeded fault: the quorum is looked for when it is passed, not whenever a vote is new.
CommitsAtThreshold(n, hash, voter, held) ==
  {b \in held :
     /\ b.hash = hash /\ hash \notin Hashes(committed_blocks[n])
     /\ StakeOf(Counted(n, hash, voter), hash) >= Quorum
     /\ StakeOf(votes[n], hash) < Quorum}

\* handle_vote and commit_block: a vote that is new and finds the stake at the quorum
\* commits the block, when the node holds it.
Commits(n, hash, voter, held) ==
  {b \in held :
     /\ b.hash = hash /\ Counted(n, hash, voter) # votes[n]
     /\ hash \notin Hashes(committed_blocks[n])
     /\ StakeOf(Counted(n, hash, voter), hash) >= Quorum}

HandleVote(n, hash, voter, held) ==
  /\ votes' = [votes EXCEPT ![n] = Counted(n, hash, voter)]
  /\ LET commits == Commits(n, hash, voter, held) IN
       committed_blocks' = IF commits = {} THEN committed_blocks
                           ELSE [committed_blocks EXCEPT ![n] = Append(@, CHOOSE b \in commits : TRUE)]

\* A proposal replaces one of the same hash, whatever its transactions.
Cache(n, block) == {b \in pending_proposals[n] : b.hash # block.hash} \cup {block}

Voted(n, hash) == [kind |-> "VOTE", hash |-> hash, from |-> n, block |-> {}]

\* propose_block: on the last block of its own chain, with what the mempool holds; then
\* vote_on_proposal, on its own vote first.
ProposeBlock(n) ==
  LET chain == committed_blocks[n]
      hash  == [parent   |-> IF chain = <<>> THEN <<>> ELSE <<chain[Len(chain)].hash>>,
                height   |-> Len(chain), proposer |-> n]
      block == [hash |-> hash, payload |-> proposed] IN
  /\ proposed < MaxProposals /\ proposed' = proposed + 1
  /\ pending_proposals' = [pending_proposals EXCEPT ![n] = Cache(n, block)]
  /\ HandleVote(n, hash, n, Cache(n, block))
  /\ broadcast' = broadcast \cup {[kind |-> "PROPOSAL", hash |-> hash, from |-> n, block |-> {block}], Voted(n, hash)}

\* handle_proposal: from a validator, it is cached and voted for; neither its height
\* nor its parent is looked at.
HandleProposal(n, m) ==
  \E block \in m.block :
    /\ m.from \in Validators
    /\ pending_proposals' = [pending_proposals EXCEPT ![n] = Cache(n, block)]
    /\ HandleVote(n, m.hash, n, Cache(n, block))
    /\ broadcast' = broadcast \cup {Voted(n, m.hash)}
    /\ UNCHANGED proposed

Receive(n, m) ==
  /\ m.from # n
  /\ \/ m.kind = "PROPOSAL" /\ HandleProposal(n, m)
     \/ /\ m.kind = "VOTE"
        /\ HandleVote(n, m.hash, m.from, pending_proposals[n])
        /\ UNCHANGED <<pending_proposals, broadcast, proposed>>

SimpleInit ==
  /\ pending_proposals = [n \in SessionKeys |-> {}]
  /\ votes = [n \in SessionKeys |-> {}]
  /\ committed_blocks = [n \in SessionKeys |-> <<>>]
  /\ broadcast = {} /\ proposed = 0

SimpleNext == \E n \in SessionKeys : ProposeBlock(n) \/ \E m \in broadcast : Receive(n, m)

SimpleSpec == SimpleInit /\ [][SimpleNext]_simpleVars

----------------------------------------------------------------------------
(* Properties. *)

\* A validator that holds a block and enough votes for it has committed it, in whatever
\* order the block and the votes came: a quorum that is there before the block is not
\* forgotten.
CommitsWhenComplete ==
  \A n \in Validators : \A b \in pending_proposals[n] :
    b.hash \in Hashes(committed_blocks[n]) \/ StakeOf(votes[n], b.hash) < Quorum

\* Validators that have both committed a height have committed the same block at it.
\* The code breaks it: a node votes for every proposal it hears.
SameBlockAtHeight ==
  \A n, m \in Validators :
    \A i \in DOMAIN committed_blocks[n] \cap DOMAIN committed_blocks[m] :
      committed_blocks[n][i] = committed_blocks[m][i]
=============================================================================

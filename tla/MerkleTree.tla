----------------------------- MODULE MerkleTree -----------------------------
(****************************************************************************)
(* The Merkle trees of the data availability crate (da/src/merkle.rs).  The  *)
(* hash of a shard is the shard in brackets and the hash of two hashes is    *)
(* the pair of them: no two inputs collide.  Indices count from 0, as in     *)
(* the code.                                                                 *)
(****************************************************************************)
EXTENDS Integers, Sequences

hash_pair(left, right) == <<left, right>>

\* The level above: pairs, and the last one with itself where one is left over.
NextLevel(level) ==
  [i \in 1..(Len(level) + 1) \div 2 |->
     hash_pair(level[2 * i - 1], level[IF 2 * i <= Len(level) THEN 2 * i ELSE 2 * i - 1])]

\* How many nodes the levels over n leaves have.
Lengths(n) ==
  LET len[k \in 0..n] == IF k = 0 THEN n ELSE (len[k - 1] + 1) \div 2 IN len

\* Levels are added until one has no more than a node.
Height(n) == CHOOSE h \in 0..n : Lengths(n)[h] <= 1 /\ \A k \in 0..h - 1 : Lengths(n)[k] > 1

\* The levels, from the leaves at 0 up to the root.
Levels(shards) ==
  LET level[k \in 0..Height(Len(shards))] ==
        IF k = 0 THEN [i \in DOMAIN shards |-> <<shards[i]>>] ELSE NextLevel(level[k - 1])
  IN  level

MerkleRoot(shards) == Levels(shards)[Height(Len(shards))][1]

\* Where the way up from a leaf passes the levels: the loops halve the index.
WayUp(index, height) ==
  LET at[k \in 0..height] == IF k = 0 THEN index ELSE at[k - 1] \div 2 IN at

\* The sibling on each level below the root; a node without one is its own.
get_proof(shards, index) ==
  LET level == Levels(shards)
      at    == WayUp(index, Height(Len(shards))) IN
  [k \in 1..Height(Len(shards)) |->
     LET sibling == IF at[k - 1] % 2 = 0 THEN at[k - 1] + 1 ELSE at[k - 1] - 1
     IN  level[k - 1][IF sibling < Len(level[k - 1]) THEN sibling + 1 ELSE at[k - 1] + 1]]

\* The hashes on the way up that a proof leads to.
Upwards(shard, proof, index) ==
  LET at == WayUp(index, Len(proof))
      up[k \in 0..Len(proof)] ==
        IF k = 0 THEN <<shard>>
        ELSE IF at[k - 1] % 2 = 0 THEN hash_pair(up[k - 1], proof[k])
        ELSE hash_pair(proof[k], up[k - 1])
  IN  up

verify_proof(shard, proof, root, index) == Upwards(shard, proof, index)[Len(proof)] = root
=============================================================================

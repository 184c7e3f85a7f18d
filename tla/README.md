# A verification project for AINCORE

TLA+ models of the AINCORE node, TLC runs over small instances of them, and theorems about them
that TLAPS proves for every instance. Every definition is translated from the code (Rust and Move),
never from the documentation; where the two disagree the disagreement is a finding (section 7).

Paths are relative to the root of the repository. `dag.rs` and `ordering.rs` are those of
`consensus/consensus/src/`, `sync/lib.rs` is `sync/src/lib.rs`, `main.rs` and `genesis.rs` those of
`core/node/src/`, `api_local.rs` is `core/node/src/api_local.rs`, and files in `.move` are those of
`core/vm_move/stdlib/sources/`.

`PROJECT.json` is the index: for every definition the source lines it stands for, the runs, the
seeded faults that show that a property can fail, the findings, the hazards and the theorems.

Contents: 1 inventory, 2 modules and code, 3 runs, 4 fairness, 5 proofs, 6 what is not modelled,
7 findings, 8 plan, 9 how to run.

## 1. Inventory

### 1.1 How the parts interact

```
  HTTP API ──► mempool ──────────────┐                       ┌── peers (gossip) ──┐
                                     ▼                       ▼                    │
  3 s timer (main.rs) ──► DagConsensus (dag.rs, one write lock per node) ─────────┘
                              │ try_commit        │ batch of vertices, block
                              ▼                   ▼
                    OrderingEngine          Executor ──► Move VM (staking, coin, ...)
                     (ordering.rs)              │
                              └──────► RocksDB (storage) ◄──────┘
                                            ▲   ▲
  at start, every 30 s ──► import of blocks ┘   └ answers to the imports of peers (sync/lib.rs)
```

A node is one process. Its consensus is behind one write lock, which `try_create_vertex` and
`handle_message` hold from their first line to their last; the import tasks do not take it. All state
that outlives the process is in RocksDB, written key by key: nothing puts two keys in one batch on
the paths modelled here. There is no view change and no retransmission of vertices: what gossip does
not deliver is not asked for again.

### 1.2 Components

**DAG consensus** (`dag.rs`, `lib.rs` types). State: the vertices held, by hash and by round; the
current round; the height and hash of the tip; on disk the vertices, `latest_proposed_round`,
checkpoints, `last_seen`, jail marks and pending slashes. Operations: build, add, broadcast and record
a vertex; take in a remote one; commit, execute, store a block; prune; checkpoint; check for
downtime; recover. Hard: a crash between any two writes; vertices that arrive late, out of order,
again, or never; the jump of a node past rounds it has not signed in. Correct if: nobody signs a round
twice; rounds go on; only who signed twice or is absent is accused; anchors are seen by what is built
on them.

**Ordering engine** (`ordering.rs`). State: committed rounds, the committed sequence, the beacon, the
first two also on disk. Operation: `try_commit`. Hard: every choice in it (leader fallback, votes,
history) is made over the vertices *this* node holds. Correct if all nodes execute one order, and
nothing twice or never.

**Executor** (`core/executor/src/lib.rs`). State: accounts, objects, coins, `sys:validators`, the slash
queue and its tombstones; one lock over a whole block. Operations: cut a block into batches of
transactions that lock no name in common, run a batch on the state before it, merge the writes, pay the
fees, carry out five slashes. Hard: what the locks do not see; a queue that is filled while it is
drained; puts that a crash separates. Correct if no write is lost, every number takes effect once, and
every accusation is carried out once.

**Chain sync and tip** (`sync/lib.rs`, parts of `main.rs`, `dag.rs`, `common/storage/src/lib.rs`). State:
`block:<h>`, `latest_height`, `latest_block_hash`, the tip the consensus has in memory, the state of two
import tasks. Operations: ask peers for their height and blocks, validate, execute and save them, answer
peers, reload the tip. Hard: import tasks, consensus and crashes write the same three keys with no common
lock; an answer that breaks off ends the task that waits for it. Correct if a node holds one linked chain
without gaps, has executed exactly that chain, and catches up with its peers.

**Mempool** (`core/mempool/src/lib.rs`). State, in memory only: a queue of pending transactions and a
bounded record of those seen. Operations: admit (chain id, signature, size, not seen, room), take the
next fifty for a vertex. Texts reach it from the API, from gossip and over TCP, each with prefixes of its
own. Hard: both bounds, and what is taken is gone from memory before its vertex is on disk. Correct if
no transaction is handed out again that is still on record.

**P2P network** (`common/network/src/lib.rs`, the loops of `main.rs`). State: the peer table in memory,
the ports and addresses of peers on disk. Operations: the handshake from both ends, the dials at the
start, the task that dials again every 15 seconds. Hard: nodes that come and go in any order; a
handshake that breaks half-way; an entry that another handshake overwrites. Correct if nodes
that are both up come to know each other's true port and address.

**Locks of the node** (`main.rs`, `api_local.rs`, `dag.rs`). Peer list, consensus (a read-write lock), DAG,
round index, ordering engine, sequencer, mempool, block execution. Hard: the ticker, two readers of messages,
the sync task and every request of the API nest them in orders of their own. Correct if no set of tasks waits
for itself.

**Data availability** (`da/src`). State: shards, commitments and metadata on disk; the epoch and the
shards a node is to keep, in memory. Operations: make a batch, announce, request, answer, take in a
shard, sample. Hard: the epoch starts again in a new process; messages come late and again. Correct if
every kept shard belongs under the root of its batch, and sampling that passes means that the batch
can be decoded; the second is so only where no two batches share an epoch (section 7).

**Move VM adapter and payloads** (`core/vm_move/src/lib.rs`, the payloads of `core/executor/src/lib.rs`).
Which function a payload calls with which arguments; a registration writes two lists of validators.
Correct if every call fits its function, and who is counted by the consensus is staked in the contract.

**Storage** (`common/storage/src/lib.rs`). RocksDB behind `put`, `get`, `delete`, prefix scans, and
the three puts of a block. External but for the order of its writes, and for its log, which is never
flushed.

**Legacy consensus** (`consensus/consensus/src/lib.rs`). State: proposals held, votes, the chain.
Operations: propose, hear a proposal and vote, hear a vote and commit. The node does not start it, its tests do.
Hard: votes may come before their block. Correct if a complete vote commits.

**Staking and epochs, native coin, treasury** (Move). State: coin stores, the validator vector, the
unbonding queue, the supply counter, the epoch, the reserve. Operations: register, transfer, join,
add, leave, slash, withdraw, clean up, reward, sell, burn gas, pay fees. Hard: coins are burnt and
minted again on the way through unbonding; long sequences of legal calls; deadlines. Correct if no
call makes or loses coins, a due claim can be claimed, and the cap holds.

**Delegation** (`delegation.move`). The pool of a validator: delegations with their debts, rewards per
share, a queue of unbonding, an escrow. Hard: integer shares under any order of deposits, rewards and
withdrawals. Correct if the escrow covers what it owes and rewards are paid once.

**Vote escrow** (`governance.move`). Proposals, votes weighted by coins that are burnt until the proposal is
executed, the record of what an account has locked. Hard: two proposals, one record. Correct if locked coins
come back, and not before their proposal is done.

**Governance crate** (`governance/governance/src/lib.rs`). Proposals and receipts in the database of a node,
reached over its API. Hard: receipt and proposal are two puts; coins move while a vote is open; a
proposal may be created again; a voter is any text, and several texts are padded to one account. Correct if
nobody counts twice: no text does, an account with two spellings does (section 7).

**Indexer** (`indexer/src/main.rs`) and **Bitcoin bridge** (`depin/btc-bridge`). Each polls, works, and then
records how far it is. Hard: a stop, a failed write or a lost answer between any two of these. Correct
if the record never runs ahead of the work, and no deposit is minted twice.

**Tokens, dex, mining, multisig, wbtc** (Move). Pool products, mint rights, approvals. Correct if each
pays out no more than it took in.

**Slash queue.** `sys:pending_slash:<validator>`, written by the consensus, drained by the executor.

**Fraud proofs and the optimiser of the DA layer, libp2p transport, CLI, wallet, monitor, cryptography, EVM
bridge, IoT SDK and oracles, configuration, JavaScript SDK.** See section 6.

### 1.3 Hazards

`PROJECT.json` lists what is hard to test, each at its line, with the properties that would catch it or the
reason there is none. In short: recovery after a crash between two puts (`dag.rs:222`, `ordering.rs:187`,
`sync/lib.rs:201`, `storage/lib.rs:235`, `governance/lib.rs:205`, `indexer/main.rs:125`,
`btc-bridge/main.rs:39`); decisions taken on what has arrived so far (`ordering.rs:114`, `dag.rs:361`,
`:245`); standstill (`dag.rs:421`, `:150`); quorums that have to meet (`dag.rs:149`); tasks without a common
lock (`sync/lib.rs:173`, `:93`, `main.rs:503`) and tasks with too many (`api_local.rs:1212`); queues, caps and
deadlines of the contracts (`staking.move:159`, `:192`, `:256`, `:325`), shares and escrows
(`delegation.move:373`, `governance.move:116`); batches and the slash queue (`executor/lib.rs:120`, `:364`,
`:472`, `:475`, `:497`, `:1151`); bounded records (`mempool/lib.rs:92`); messages that come late, twice or too
early (`da/lib.rs:120`, `consensus/lib.rs:287`); peers that are not there when they are dialled
(`main.rs:418`).

## 2. Modules and code

| module | what it is | code |
|---|---|---|
| `BftQuorum` | the two quorum sizes as functions of the number of validators | `dag.rs:142–155`, `ordering.rs:163–167` |
| `AnchoredDag` | abstract: what the consensus promises of a cluster, no nodes, messages or disks | what `DagConsensus` implements |
| `OrderingEngine` | pure part of `try_commit`: leader, fallback, votes, history, order | `ordering.rs` |
| `DagConsensus` | a cluster of nodes with memory and disk, gossip, crashes | `dag.rs`, `ordering.rs`, the slash queue of the executor |
| `ChainSync` | the chain of each node with its three writers | `sync/lib.rs`, `main.rs:495–548`, the block writes of `dag.rs` and storage |
| `BlockExecutor` | one node's executor and slash queue, at the grain of its puts | `core/executor/src/lib.rs`, the accusations of `dag.rs` |
| `CoinLedger` | the coin stores of AIN | `coin.move` |
| `Staking` | validator set, unbonding, slashing, rewards, epochs; EXTENDS `CoinLedger` | `staking.move`, `epoch.move` |
| `AinSupply` | composition: staking, coin stores, treasury and the executor's fee calls | `treasury.move`, `genesis.rs` |
| `NodeLocks` | the locks of a node process and the tasks that take several of them | `main.rs`, `api_local.rs`, `dag.rs`, `sync/lib.rs` |
| `Mempool` | the queue and the record of a node's transactions, and how texts reach it | `core/mempool/src/lib.rs`, `main.rs`, `api_local.rs` |
| `PeerNetwork` | handshakes, the peer table, dialling again | `common/network/src/lib.rs`, `main.rs`, `common/storage/src/lib.rs` |
| `MerkleTree` | pure: roots, proofs, verification | `da/src/merkle.rs` |
| `DataAvailability` | epochs, shards, messages, sampling; EXTENDS `MerkleTree` | `da/src/*.rs` |
| `Payloads` | what each payload calls, and the two lists of validators | `core/executor/src/lib.rs`, `core/vm_move/src/lib.rs` |
| `SimpleConsensus` | the older engine | `consensus/consensus/src/lib.rs` |
| `NodeServices` | composition of the seven above | |
| `Delegation` | the pool of a validator; EXTENDS `CoinLedger` | `delegation.move` |
| `VoteEscrow` | proposals and locked votes; EXTENDS `CoinLedger` | `governance.move` |
| `CoinContracts` | composition: both over one ledger, with transfers | `coin.move` |
| `GovernanceStore` | proposals and receipts in a node's database | `governance/governance/src/lib.rs` |
| `ChainFollowers` | the indexer and the bridge | `indexer/src/main.rs`, `depin/btc-bridge/src/*.rs` |
| `AroundTheChain` | composition of the three above | |
| `MC*` | instances for TLC: validator lists, the beacon, peers, a recorded execution | |
| `*Proofs` | theorems | |
| `SumTheorems` | theorems about sums and loops | |

Three compositions join state: `DagConsensus` the DAG with the ordering engine (EXTENDS `OrderingEngine`; it
shares `BftQuorum` with its abstraction `AnchoredDag`), `AinSupply` the contracts that hold AIN,
`CoinContracts` the pool and the vote escrow over one ledger. `NodeServices` and `AroundTheChain` put parts
side by side that share a process or a database but no state: no variable of one is read by another, so one
part is awake in a behaviour and the rest stand still, and the states of a run are the sum of those of the
parts and not their product. Nothing is claimed of the parts together but the conjunction of what holds of
each. The definitions marked *Seeded fault* are not used by any specification: each is a plausible bug of the
definition below it, with which the property of a run must fail.

### 2.1 DagConsensus

A vertex is its hash: round, author and a copy number, so that signing twice gives two names. What a
vertex says of its parents (`par`) never changes; payload, signature and time are left out, because
no branch that the properties depend on reads them (the rejections of malformed vertices keep a vertex
out, which is the same as its not arriving).

| variable | code |
|---|---|
| `created`, `par`, `sent` | vertices signed by anyone, their parents, those broadcast |
| `round`, `dag` | `current_round`, `vertices`/`rounds` |
| `phase`, `cur`, `batch` | where the running handler is, with its vertex and the committed batch |
| `crounds`, `cseq`, `beacon` | `committed_rounds`, `committed_sequence`, last anchor fed to the VDF |
| `dVertices`, `dProposed`, `dCheckpoint` | `vertex:*`, `latest_proposed_round`, `dag:checkpoint:*` |
| `dRounds`, `dSeq`, `dHeight` | `consensus:committed_rounds`, `consensus:committed_sequence`, `latest_height` |
| `dLastSeen`, `dJailed`, `dPending` | `validator:last_seen:*`, `validator:jailed:*`, `sys:pending_slash:*` |
| `executed`, `anchors`, `unseen`, `crashes` | history, and a bound; `unseen`: vertices that a crash left on disk without their `last_seen` |

| action | code |
|---|---|
| `Propose` | `try_create_vertex` up to and with `add_vertex`'s insertion (guards: peers or sole validator, parent quorum) |
| `Receive` | `handle_message`: `add_vertex` of a remote vertex, the twin check, the jump past its round |
| `Commit`, `SaveSequence` | `try_commit` and its two puts |
| `Execute` | `execute_batch` with `execute_pending_slashes` |
| `Seal` | the block, `prune_dag`, the checkpoint |
| `Publish`, `Record` | `broadcast_vertex`; `latest_proposed_round`, `last_seen`, the downtime check |
| `Crash`, `CutOff` | the process dies between two steps, or between two puts of one |
| `Restart` | `DagConsensus::new`, `OrderingEngine::new_with_storage` |

A handler holds the lock of its node to the end, so one node runs one handler at a time. It is cut into phases
where other nodes or the executor take part. `add_vertex` (vertex, slash and jail mark of a twin, or
`last_seen` and `latest_proposed_round` on a jump) and `Record` (the round, own `last_seen`, jail marks and
slashes) are one step each when they run to their end, since nobody else reads the disk of a node; `CutOff` is
each of them with a crash between two of its puts: `CutOffAdd` after the vertex (which `unseen` remembers
unless it is the node's own), after the slash of a twin without its jail mark, or after `last_seen` before the
round; `CutOffRecord` in the downtime check, with some validators done, the next one jailed and not queued, or
neither.

### 2.2 OrderingEngine

The operators take one node's DAG as an argument. `AnchorsOf` is a set since after a restart a DAG
may hold two vertices of one slot, of which the code takes whichever its map yields first; `Commit`
takes any of them. `CausalHistory` skips parents that are not held, as the code does. The sort
by round and hash is given by ranks: each place has the vertex with as many before it (`Sorted`). String
comparison of hashes is a fixed total order; the VDF is `VdfSeed`, a constant function of the last
anchor (a node that restarts has no anchor and starts from `NoVertex`).

### 2.3 ChainSync

A block is its place in `made`, which stands for its hash: height, previous hash and batch. The hash
covers the local clock, so two nodes that build a block of the same batch may or may not build the
same block: `Build` takes either.

| action | code |
|---|---|
| `Build` | `add_vertex` from the committed batch to the block: executes, raises the tip in memory |
| `Put` | the three puts (`dag.rs` and `save_block_json`): block, height, hash |
| `StartSync` | `sync_from_peers` begins, local height read once (`sync/lib.rs:93`) |
| `AskHeight`, `Pull`, `LosePeer` | `GET_HEIGHT`, `SYNC_REQ`, and the failures that are answered by an error: a connection refused, a send that fails, a timeout |
| `TaskDies` | the peer hangs up while an answer is awaited: `read_encrypted_msg` drops the error and slices an empty buffer, the panic ends the task until the next start (`network/lib.rs:371–389`) |
| `Import`, `EndAnswer` | the loop of `process_blocks` and what `sync_from_peers` makes of its result |
| `Reload` | `reload_chain_tip` under the lock, only upwards |
| `Crash`, `Restart` | the process dies; the tip as `DagConsensus::new` reads it |

`apart` is a history variable: the actors of the node were never at work at once and no save was cut off, and
no task died with blocks imported that the tip in memory does not know of: nothing reloads it then. It is the
premise under which linkage can hold at all; the cases it excludes are findings.

### 2.4 Staking, AinSupply

An abort in Move undoes the transaction, so an abort is a disabled action. The vector of unbonding
requests is a set of numbered requests: the contract only appends, looks for the first match, and
removes. Amounts are u128 and bounded by the supply, far from overflow, and are natural numbers here;
where the contract guards a subtraction against going below 0 so does the model. `cleanup` and
`distribute_rewards` are part of `AdvanceEpoch` in the order of `epoch.move`.

### 2.5 BlockExecutor

What the properties tell apart of a balance is which charges it includes, so `store[k]` is a set of
marks: transaction t is in the balance of k, with its gas or with its payload. A payload runs on the
committed state, so its write of the sender's coin stands for the balance without the gas; `Mark` says
which of the two a transaction leaves. Whether the Move VM lets a call through is left open (`passed`,
`done` in `RunBatch`), so every mixture of success and failure of a batch is checked.

| action | code |
|---|---|
| `StartBlock` | a thread (consensus or import) takes `BLOCK_EXECUTION_LOCK`, with a block or with none |
| `RunBatch` | dependencies, the parallel map, the merged write batch |
| `PayFees` | burnt part, reward or sweep queue |
| `Scan`, `TakeEvent`, `CutWeight`, `MarkSlashed`, `ClearSlash` | `execute_pending_slashes`, put by put |
| `Downtime`, `DoubleSign`, `PutSlash`, `PutJail` | the two puts of each accusation of `dag.rs`, in their order |
| `Crash` | the process dies; nothing here is read at start |

`DagConsensus` has the queue too, as one step of `Execute`: there it matters who is accused, here what
becomes of it. Limits of objects per block and transactions that do not parse cut a block before it is
executed; they are in the choice of `Blocks`.

### 2.6 NodeLocks

An operation is the list of what it takes and drops, nested as the code nests it; `todo` of a thread is
what is left of it. The lists are written per function (`PublishBatch`, `AddVertex`, `TryCreateVertex`, ...)
with one path for each way the function can end. A lock under which nothing else is taken is passed in
one step, since nobody waits long for its holder. `consensus` is the only read-write lock; a reader also waits
behind a writer that waits, as in the standard library. `KeepsFrom` is who waits for whom,
`CircularWaits` the sets in which everyone does.

### 2.7 Mempool, Payloads

A transaction is its text with what the code reads in it: prefix, whether it parses, chain,
scheme and validity of the signature, size. `Restart` forgets queue and record, as both are in memory;
`taken` and `forgotten` count what this process did.

`Payloads` says of every kind of payload where it goes: dropped, charged only, or a call with the types
of its arguments, which is compared with the parameters that the Move source declares (`Fits`).
`ExecuteBatch` runs two transactions of different senders on the committed state; what the VM answers to a
call that fits is open. `number`, `joined` and `weight` are the account's sequence number, the contract's
ValidatorSet and `sys:validators`.

### 2.8 PeerNetwork

| action | code |
|---|---|
| `Start`, `InitialDial` | the bootnodes dialled when a node starts, with the port that hides the node's own (`main.rs:208`) |
| `Handshake`, `HalfHandshake` | `network::handshake` and `start_server`, to the end or cut off after HELLO |
| `Redial`, `RedialBreaks` | the reconnect task (`main.rs:409–470`) with whom it leaves out (`Dials`) |
| `Stop` | the process ends: the table is gone, and of what is on disk any part that was not flushed |

### 2.9 DataAvailability, MerkleTree

A batch is its proposer and a number, its shards `<<batch, index>>`, any `DataShards` of which decode to it.
`MerkleTree` builds the levels as the code does, odd nodes paired with themselves, with a hash that never
collides; the loops of the code, upwards from a leaf with the index halved, are functions of the turn. `Put`
is one put of `create_batch`; `AnswerRequest` gives the proof that `get_shard_proof` computes, zeros included;
responses stay on their way for ever, so they may be heard late, again or never. The `DA_COMMIT` message is
left out: a receiver compares the name of the node with the key of the sequencer, which differ, and takes
nothing in.

### 2.10 SimpleConsensus

A block's hash is its parent, height and proposer: the round is never advanced and the transactions are
not part of it. `broadcast` keeps every message, so that each may be heard in any order, again or never.
Weights and votes count as in `handle_vote`; `commit_block` looks for the block when a vote is new.

### 2.11 Delegation, VoteEscrow, CoinContracts

As in `Staking`, an abort is a disabled action. One abort is due to width: products of `delegation.move`
that exceed 128 bits (`Computes`, `MaxValue`). A delegation of 0 is none; requests of an
account with one unlock time are summed. `Pay` mints the pending reward or nothing, since the minting
helper stops at the hard cap. `now` is `epoch::now_seconds`. Rounding is that of the code: all divisions are
integer divisions. The record of `VoteEscrow` is an amount and the number of the last proposal voted on.
Both start from the state that genesis means (section 7, 25 and 31).

### 2.12 GovernanceStore

Each put of `create_proposal`, `vote`, `save_proposal`, `tally` and `execute_proposal` is a step; the API
holds one mutex over a call, so one call runs at a time. `durable` is the database that a new process would
find: after each put it may or may not have caught up, because the log is not flushed. The sums of votes are
kept by voter, which is how a voter that counts twice shows; `cast` is the history of weights. A voter is a
name (`Names`), the text that the caller gives; `PaddedTo` is the account whose coin store
`query_move_vm_balance` reads for it, so that two names may have one store and a receipt each. `Transfer`
moves the coins that votes are weighed with.

`GovernanceStore` and `PeerNetwork` let a new process find an older database; the other modules keep every
put, as the comment of `storage/lib.rs:49` has it. That these differ from the configuration is a finding.

### 2.13 ChainFollowers

`Poll` is one answer of `aincore_getBlocks` with what is left of it after the filter, `InsertBlock` and
`SetLastHeight` the two writes, whose errors are logged only. `MintWbtc` has three ends: refused, minted,
minted but not heard of. `MarkProcessed` keeps the set in memory first and writes the file next; `StopBridge`
may empty the file, which `fs::write` truncates before it fills it.

## 3. Runs

Twelve runs. The ten that pass check 40 properties, each of which fails when one definition of the
model is replaced by a seeded fault. The two that do not pass each refute one statement that the
repository makes (section 7). Times are rough, of two workers.

### 3.1 Consensus

| run | instance | shows |
|---|---|---|
| `anchored_four` | `AnchoredDag`, 4 validators, 3 rounds, 1 copy; 38,820 states, 43 s | `DagInv` (which includes the types), `AnchorVisible` |
| `dag_two` | 2 validators, 3 rounds, 2 copies, 2 crashes; 606,459 states, 60 s | `SigningInv`, `NoStandstill`, `SlashedForAbsence` |
| `dag_live` | 2 validators, 3 rounds, 1 crash, fair; 92,878 states, 40 s | `RoundsAdvance`, `ImplementsPromise` |
| `dag_observer` | 1 validator and an observer, 6 rounds, 2 copies, 2 crashes; 393,112 states, 35 s | `SignsOnceBeforeCheckpoint`, `ExecutedOnce`, `AccusedSignedTwice` |
| `dag_same_order` | two nodes take in the vertices of four validators (`ReplaySpec`) | refutes `SameOrder` |

*anchored_four.* Four is the smallest set with a fault to tolerate; three rounds are an anchor, its
votes, and what has to see it. `AnchorVisible` relates one anchor to one vertex, so at most two
vertices in the top round and two anchors (constraint `Few`) show every pair. The validators are
interchangeable in this module, so their symmetry is sound (no liveness is checked). The statement for
any number of validators is a theorem. Two and three validators are left out because there the sizes of
the code do not intersect: with three, one parent is enough and two votes commit.

*dag_two.* `FirstCommitRound = 3` instead of the code's 4 makes commits happen within three rounds, so all
phases occur, and two crashes can fall between any two writes, those of `add_vertex` and the downtime check
included. `MaxCopies = 2` gives a validator the room to sign twice, which `SigningInv` says it does not take.
Downtime is due after two missed rounds instead of 100, with the check every round instead of every ten, so
that it happens in round 3. With one crash TLC has also searched four rounds and the code's 4 (1,740,343
states). `SlashedForAbsence` leaves out the slots whose vertex a crash has cut off from `last_seen`; without
that it fails (`HeardOfIsNotSlashed`, section 9). Two validators is the smallest set in which a validator
depends on another for downtime; with the quorum of one it has, `NoStandstill` must hold, and with four it
does not (section 9).

*dag_live.* The same `FirstCommitRound` and one crash keep the graph small
enough for temporal checking. A node gets past `MaxRound` in whatever order vertices come and
wherever a crash falls. `ImplementsPromise` is the refinement of `AnchoredDag` under
`anchors <- UNION {anchors[n]}`: every step of the cluster signs by the rules, commits an anchor that
has its votes, or changes nothing that can be seen.

*dag_observer.* Checkpoints every 4 rounds instead of 100 and pruning at every block from round 4 on
(instead of every ten blocks from round 51 on), so that a commit, a checkpoint, pruning and a restart
from a checkpoint all occur in six rounds. The validator does sign twice here (the
first finding); the observer accuses nobody else, and neither runs a payload twice.

*dag_same_order.* Searching four validators from the start is out of reach, so the run starts after four
rounds that respect the parent quorum (three of four) and lets two nodes take in the gossiped vertices in any
order. The rounds are ones that the code makes: `ReplayParents` gives each vertex all that its author holds of
the round below (`dag.rs:125–130`), its own vertex among them and three at least, and `RoundOneSeen` says in
which order the first round reached whom. TLC reaches the state of `ReplayInit` from `Init`, steered along its
68 steps of `Propose`, `Publish`, `Record` and `Receive`.

*Bounds.* `MaxRound`, `MaxCopies`, `MaxCrashes` are in the guards. At `MaxRound` nodes stop proposing,
so these runs have no deadlock check: the bound, not the code, ends them; standstill is a
property of its own.

### 3.2 Staking and the supply

`supply_two`: two accounts, one genesis validator with a stake of 40, amounts 10 and 20, minimum stake
20, cap 60, reserve 10, rewards of 8 halved after two epochs, unbonding and grace of one epoch each,
three epochs, two requests; 429,337 states, 50 s. It holds `TypeOK`, `CoinsAccountedFor`,
`DueIsWithdrawable`, `StakingInv`, `LockedIsNotLost`.

The cap is so low that rewards reach it, stop being paid in the middle of the vector, and are paid again after
the clean-up lowers the counter; `CoinsAccountedFor` includes that the counter stays within the cap, and
`LockedIsNotLost` states the claim period for itself, so that an early clean-up fails it. Two requests let an
account leave, rejoin and leave again before the first is due. A period of one epoch and a grace of one let a
request be claimed in time, late and never. Two accounts are enough for transfers and for the order of two
validators in the vector. Fees that the executor credits are bounded by `MaxCredited`, epochs by `MaxEpoch`.

### 3.3 Chain sync

| run | instance | shows |
|---|---|---|
| `chain_sync` | p builds two batches, f one and imports from p; both may crash, 1 crash, 3 heights; 2,284,965 states, 115 s | `TypeOK`, `NoGaps`, `ApartKeepsChain`, `StateIsOfChain` |
| `chain_live` | p builds two batches, f imports, 1 crash, fair; 70,590 states, 90 s | `CatchesUp` |

An answer holds one block instead of 500, so that a chain of two takes two answers and the peer's chain grows
between them. One peer and one importer show every overlap of the three writers of one node; with a second
peer `StateIsOfChain` fails (section 7). In `chain_live` only p builds: a node that has built a block of its
own cannot take in another chain (`CatchesUp` excludes it, section 7). `CatchesUp` also leaves out a node
whose periodic import has died for good: the code does not start it again (`PeriodicGoesOn`, section 9). The
premise `PeersOf[p] = {}` of `CatchesUp` says that p is itself nobody's importer.

### 3.4 Executor

| run | instance | shows |
|---|---|---|
| `block_two` | 3 accounts, 4 spellings, 4 blocks, 2 rounds, 1 slash a block, 1 crash, fair; 908,605 states, 70 s | `TypeOK`, `EffectOnce`, `EffectsStay`, `FeesFromGas`, `SlashedOnce`, `QueueKept`, `QueueDrains` |
| `block_parallel` | one of these blocks, no crash | refutes `ParallelIsSerial` |

The blocks of `MCBlockExecutor` hold what can collide: two payments of one account out of order, two
transactions with one number, a recipient spelt otherwise, a payment of the locked account, two
registrations. A block may be executed twice, as an import does after a crash. One slash is taken per
block instead of five, so that with two validators one waits; a weight starts at 2 instead of 100, so
that it reaches 0 after two cuts (2 → 1 → 0). Blocks with transactions and accusations are three
together (`MaxEvents`), at most two of them blocks; empty blocks are not bounded.

`EffectsStay` is what the scheduler does achieve: a write is lost only where somebody wrote a key it
had not locked. `SlashedOnce` leaves out a validator whose slash a crash cut off between weight and
tombstone, `QueueKept` an accusation that replaces one being carried out: both are findings.

### 3.5 Services of a node

`node_services`: 263,680 states, about 135 s.

| part | instance | shows |
|---|---|---|
| locks | ticker, sync, one reader of messages, one request | `WaitsOnlyForNetworkInfo` |
| mempool | five texts, two may wait, two are remembered, five arrivals, one restart | `TakenAgainOnlyIfForgotten` |
| network | `n2` and `n3` dial `n1`; `n3` listens on the same port as `n1`, `n2` on another; two stops; fair | `FindsBootnodes` |
| availability | two keepers of three shards, any two decode; one proposer, two batches, one crash | `ShardsAreCommitted`, `PassedIsDecodable` |
| payloads | three accounts, one founder, every kind of payload, three batches of two, two slashes | `CountedAreStaked` |
| engine | three validators of stakes 2, 1, 1; two proposals | `CommitsWhenComplete` |

Four threads are one of each kind: a circle of waiting needs two of them, and a third to queue behind a
writer. The path lists hold every way an operation can end, so the search covers every mixture. With both
bounds of the mempool at two, a text is forgotten while a later one waits, and may come back. An odd number of
shards makes the tree pair a leaf with itself; two keepers hold some of the shards each; a crash makes the
second batch share the epoch of the first; `Fetched` restricts requests to one shard. A proposer that samples
two of three shards passes with two found; after the crash these may be of two batches, which
`PassedIsDecodable` leaves out (`EveryPassDecodes`, section 9). An initial weight of 2 is cut to 1 and to 0,
so that two slashes take a validator off the list of the consensus. The quorum of 3 is reached by the first
validator with either of the others, so that two blocks can have it. `FindsBootnodes` leaves out bootnodes of
the same port and `Plain` nodes, for which it is false.

### 3.6 Around the chain

`around_the_chain`: 1,302,704 states, about 115 s.

| part | instance | shows |
|---|---|---|
| contracts | one pool, two delegators, one voter, two proposals, two distributions, three changes of delegations, unbonding of one unit of time | `EscrowCovers`, `RewardsWithinRounding`, `LockedCoinsReturn` |
| proposals | two accounts, one of them under two spellings, one identifier created twice, a timelock of 1, two units of time, one crash | `BallotsCountedOnce` |
| followers | a window of two on three blocks, one deposit, two failures, two stops | `RecordedIsIndexed`, `MintedAgainOnlyIfForgotten` |

A scale of 2 instead of 10^18 makes every division leave a remainder; a commission of half of a reward of 1
rounds; `MaxValue = 8` makes products overflow, so that aborts happen. One voter who is also a delegator
spends the same coins on both, and a gift gives it a weight for a second vote while the first is open.
`MaxOperations` bounds what the contracts do altogether, since the pool and the escrow multiply. A proposal
that is created twice meets its old receipts; a crash finds any database back to the last flush. A window
smaller than the chain lets blocks leave it.

## 4. Fairness

Liveness is claimed under the following, and nothing else.

- `WF(Propose)`: `main.rs:290–302` calls `try_create_vertex` every three seconds, for ever.
- `WF(Continue)`: a handler that has begun runs to its end unless the process dies.
- `WF(Restart)`: the compose files say `restart: always` (or `unless-stopped`).
- `WF(Receive)`: gossip delivers, some vertex at a time, to a node that is idle. This is an
  assumption on the network, which is external: the code has no retransmission, and what is never
  delivered is never asked for. Vertices already held cannot be taken in again before a restart, so
  weak fairness of the whole choice is enough for each of them.
- Chain sync: `WF` of the puts, of the steps inside a task, of starting a task (the 30 s timer,
  `main.rs:534–548`) and of restarts; `SF` of `AskHeight` and `Pull`, since a peer may be down between two
  attempts, so a connection that is tried for ever is made for ever. `LosePeer`, `TaskDies` and `Build` have
  no fairness: connections need not break and the consensus need not commit. A task that has died is started
  again by nothing but a restart of its node.
- Executor: `WF` of empty blocks by the consensus (rounds go on committing, and
  a block is executed "even if empty", `dag.rs:470`), of the steps inside a block, and of the second put
  of an accusation. Blocks with transactions, imports and accusations have none.
- Peer network: `WF` of the dials of a node that starts, and of each dial of the reconnect task
  (`main.rs:409–411`, every 15 seconds, for ever): between nodes that stay up, one of its handshakes gets
  through. Starts, stops and handshakes that break have none: a node that is down may stay down, which
  `FindsBootnodes` allows for.
- `AdvanceEpoch` has none, because no code of the node calls it: no liveness of withdrawals is claimed.

Crashes are never fair, and bounded by `MaxCrashes`.

## 5. Proofs

TLAPS proves the following for every value of the constants that the named assumptions of the modules
allow: a duplicate-free list of validators, natural bounds, positive periods, `FirstCommitRound > 2`,
genesis stakes of distinct accounts above the minimum, a positive batch limit, distinct keys in the slash
queue, a burnt part of at most 100 per cent, no more room for what waits in the mempool than for what is
remembered, finitely many accounts and validators, threads that are not two things at once. TLC
evaluates each assumption in the runs of the module that declares it. Two say more.
`SamplingAssumption`: three quarters of the samples are more than one shard too few to decode (30 samples
and 16 data shards in the code). `PowersAssumption`, `2^h` is a positive natural number, is a fact of
arithmetic that the provers lack.

Every invariant and action property of the runs has a theorem; below, by module.

**SumTheorems.** Sums are folds, whose definition chooses a recursive function on sets, and the
library's induction principles take an operator, which the provers cannot instantiate. So both are done by
hand: the chosen function exists because a minimal finite set without one cannot exist (`SumIsIter` and
what follows), and from its equation come the laws used elsewhere: a sum over two parts, of a changed
function, of a smaller one, over the places of a sequence. In the same way a function defined by its turns
(`f[0]`, and `f[k + 1]` from `f[k]`) exists and has its equation for every number (`TurnsForever`). Induction is
everywhere a least element of a set of naturals (`LeastNatural`).

**AnchoredDagProofs.** `DagInvariant`: `DagInv` is inductive as it stands. `AnchorsAreVisible`:
`DagInv` implies `AnchorVisible` by quorum intersection. Let n be the number of validators, n not 2 or
3. All parents of a vertex two rounds above an anchor, and all voters of the anchor, are in the round
between, which has at most one vertex per validator (`RoundIsSmall`). 2*((n-1) div 3)+1 parents and
ceil(2n/3) votes are more than n together (`QuorumsExceed`), so one of the parents voted.

**DagConsensusProofs, signing.** `NoDoubleSignBeforeCheckpoint`. That a validator signs once a round until its
first checkpoint is not inductive: it says nothing of what a restart will read. `SigningInv` adds

- `RoundIsAhead`: the round of a running node is above all it has signed, but the vertex in hand;
- `InHand`: in each phase, which vertex the handler works on, whose it is, and that it is on disk;
- `OnDisk`: of every vertex a node has signed, the disk holds a trace that reaches as high:
  `latest_proposed_round`, or a stored vertex of that round or a later one.

`OnDisk` is what recovery needs (`RestartRound`: the start round is above everything on disk), and
pruning must keep it: it drops only vertices below the oldest committed round, while the vertex in
hand, higher up, stays (`PruningKeepsTop`; this is where `InHand`'s committed round is used). The
premise of no checkpoint cannot be dropped: the first finding is the counterexample. `TypesCorrect`
proves `TypeOK`.

**DagConsensusProofs, refinement.** `DagImplementsPromise`: initial states map to initial states; `Propose`
maps to `Sign` (here `NoDoubleSignBeforeCheckpoint` gives the free slot), `Commit` to `CommitAnchor`, every
other step to a stutter. It holds while no node has taken a checkpoint, for the reason above.
`ClusterAnchorsAreVisible` carries `AnchorVisible` over to the cluster.

**DagConsensusProofs, slashing.** `OnlyDoubleSignersAccused` (`AccusedSignedTwice`): an accusation compares
two vertices that are held, and only vertices that were sent are ever held, over restarts too.
`DowntimeIsAbsence` (`SlashedForAbsence`) needs `LastSeenInv`: of every vertex of another author that a node
holds, or would hold after a restart, `last_seen` on disk is at least the round, or a crash has cut off a
vertex of its slot (`unseen`). A twin that is kept on disk although it is not taken in is covered by the
vertex it is a twin of.

**DagConsensusProofs, execution.** `ExecutesOnce` (`ExecutedOnce`) holds as long as no node has committed more
than `SequenceCap` vertices (`SequenceKept`). `OnceInv`: what a node has executed is in the sequence on its
disk, and that in the sequence in memory; a batch is new and without repetition from its commit until it is
executed, and on disk before it is. A restart takes the sequence from disk, so what was executed stays known,
and a commit filters by it. Beyond the cap the premise is needed: the disk keeps the newest hashes in reverse,
a reload does not turn them round, and the next cut drops recent hashes first (`ordering.rs:191`). The proof
needs of the sort only that it lists each vertex of a finite set once (`SortedListsOnce`), which follows from
the order being total (`OrderIsTotal`).

**DagConsensusProofs, standstill.** `FewGoOn` (`NoStandstill`) is for three validators and fewer, which need
one parent, and until the first checkpoint; with four the property fails (section 9). `HighestInv`: whoever
signed the highest vertex there is still has it, in memory and on disk, and is in the next round or about to
be. A remote vertex moves nobody past that round; pruning takes nothing as high; and a restart starts right
above it, since `latest_proposed_round` of that node is not higher. A node that did jump past a round may well
restart without a vertex below its own, so the invariant cannot be about every node.

**StakingProofs.** `DueWithdrawable`. The contract aborts at the first request of an account, so a due request
must never be behind one that is not. That rests on `DueInOrder`, requests fall due in the order they were
made, which needs that a new one falls due last: `RequestsCurrent`, nothing is due later than one unbonding
period from now. `StakingInvariant` proves both, with no validator twice and no stake below the minimum, over
every action of the composition. `SupplyCovered` (`CoinsAccountedFor`) is inductive with the types and the
finiteness of the queue of requests (`SupplyInv`), one action at a time: which sum each changes and by how
much. `SupplyTypes` follows. Its part about the cap (`WithinCap`) turns on the loop over the validators: those
paid are the first ones, and the last of them still fits, so as many rewards as there are validators paid fit
together (`RewardsStopAtCap`). `LockedKept` (`LockedIsNotLost`): no step takes from what is locked for an
account more than it gives to its balance, but for the part that a slash burns and for requests that the
clean-up removes. It is a property of steps, so the proof compares stake and requests of the account before
and after each.

**ChainSyncProofs.** `TypeCorrect` includes that no hash dangles. `ChainHasNoGaps`: `NoGaps` speaks
of `latestHeight` only, which may go down when a slow actor writes its height after a faster one; so
the invariant `GapInv` speaks of everything that will be written:

- `BelowHeld`: below a height that is held, every height is;
- `LatestHeld`, `TipHeld`: so is the saved height, and the tip in memory, unless it is the block the
  consensus is about to put;
- `SaveHeld`: what an actor is about to put goes on top of a height that is held.

Blocks are overwritten, never removed, so what is held stays held, and the proof does not need that
the writers exclude each other: they do not.

`ChainKeptApart` (`ApartKeepsChain`) is about a node that has kept its actors apart, and rests on two more
invariants. `ImportInv`: every block is at its height, nothing is at work on a node that is down, and what is
left of an answer is one block for each height above the last (`Ascending`). `ApartInv`: on such a node at
most one actor is at work; below what it saves the chain is linked; and the tip in memory is the one on disk,
or a running task that has made it stale will raise it (`TaskTip`: it has a block to report, or will have at
the end of the answer). A task that dies before it could ends the premise. `StateOfOnePeerIsOfChain`
(`StateIsOfChain`) adds `RanInv`, the state is the batches of the chain on disk and of what is being saved,
each once, and assumes that each node imports from one peer at most. With two it does not hold: a task asks
the second from the height it had before the first, and executes the same blocks again (section 9).

**BlockExecutorProofs.** `AccountsInOrder` (`EffectOnce`): the replay protection compares with the number
before the batch, so that two transactions of one account in one batch would both pass. They never share one,
because each locks its sender (`LocksAreDisjoint`), and so a batch adds at most one number to an account, the
next one. `LockedEffectsStay` (`EffectsStay`): if the mark of a payload is not put, a later transaction of the
batch wrote the same key; their locks are disjoint, so one of the two had not locked it. `FeesAreCharged` adds
`IsFiniteSet(applied)` and counts: a batch adds as many occurrences as it charges (`BatchAdds`, by an
injection), and `AccountsInOrder` says that none of them was there before. `QueueIsKept` needs that what is
about to be deleted has its tombstone (`Cleared`). `SlashesCutOnce` (`SlashedOnce`) counts the tombstones of a
validator, and the cut in hand between the put of the weight and that of the tombstone (`Cuts`): the weight is
the first one cut as often, or the validator is gone from the list. A cut is in hand only while its accusation
has no tombstone yet (`SlashInv`).

**NodeServicesProofs.** The node's services side by side behave each as it would alone (`ServicesBehave`), so
each part has its own invariant.

- *Mempool.* `NotTakenTwice` (`TakenAgainOnlyIfForgotten`) is arithmetic once `RecordAddsUp` is known: of each
  text, what was handed out and what waits are together as many as were forgotten and remembered. That is kept
  only if the text that leaves the record at its bound is not one that waits, for then a waiting text could be
  admitted again. Hence `PendingIsRemembered`, which is proved as `WaitingIsRemembered`: the queue is the
  newest part of the record, each text once. Admission appends to both; what a full record loses is at its old
  end, and in the queue too only if the whole record waits, which the room for what waits excludes since it is
  not larger.
- *Payloads.* `CountedHaveStake` (`CountedAreStaked`) is inductive: a registration puts an account on the list
  of weights only if the transaction succeeded, and then the contract has its stake, whichever of two parallel
  registrations is written last.
- *The older engine.* `EngineCommitsInTime` (`CommitsWhenComplete`): a vote commits when it completes the
  stake and the block is held. A block that comes last needs `OwnVoteHeld`: an engine has its own vote for
  whatever it holds, so that a block and its own vote come together, and a vote counted twice adds no stake.
- *Merkle trees.* `MerkleBinds`: with hashes that do not collide, a proof of the height of the tree that
  verifies at an index proves the shard of that index, for any number of shards. Going up, the node computed
  at each level is the one of the tree at half the index; going down again from the root, equal hashes have
  equal parts.
- *Data availability.* `KeptShardsAreOfTheBatch` (`ShardsAreCommitted`): what is on disk, in memory and on its
  way is of a batch that was made in that epoch (`DisksInv`), and a response is stored only if its proof
  verifies, which `MerkleBinds` makes exact. `SamplingSuffices` (`PassedIsDecodable`): samples are distinct,
  each found shard is on the disk then and stays there (`SampleInv`), and in an epoch of one batch whatever is
  on the disk is a shard of that batch (`DisksInv`, `EnoughIsThere`).
- *Locks.* `WaitsForNetworkInfo` (`WaitsOnlyForNetworkInfo`), for any number of threads. All operations but
  that request take their locks upwards in one order (`LockRank`: consensus; ordering, sequencer, mempool,
  execution; DAG, batches, peers; round index), and give back what they take (`OperationsClimb`, by composing
  paths). `LocksInv`: what a thread holds it has still to drop, and what it takes before that ranks above. So
  in a set of threads that wait for each other there is for each one that wants a higher lock: who holds what
  it wants, or, where it waits behind a writer that waits, who holds that writer up (`WaitsClimb`).

**AroundTheChainProofs.** Here too each part behaves as alone (`PartsBehave`).

- `EscrowExact` (`EscrowCovers`), `RewardsAreCovered` (`RewardsWithinRounding`), `CoinsComeBack`
  (`LockedCoinsReturn`): `ContractsInv`. Rewards need two strengthenings: no debt is above what the shares are
  worth (`DebtsCovered`), and the gaps between the two, in parts of `Scale`, with what was paid, are covered
  by what was distributed and one unit for each settlement (`GapsCovered`), since a settlement rounds down
  once.
- `NoNameCountsTwice` (`BallotsCountedOnce`), of names, not of the accounts they stand for. Inductive with
  `SavesCounted`, what a call has still to save counts the same, and by speaking of `durable` as well as of
  `disk`: a receipt is put before the weight, so every database that a crash can leave has the receipt of
  whatever it counts. A new proposal counts nothing, and keeps the receipts, so it can only lose voters.
- `IndexedUpToRecord` (`RecordedIsIndexed`): what is left of a poll is consecutive, and all below it is in the
  table or was out of reach (`TodoFollows`).
- `MintedOnceEach` (`MintedAgainOnlyIfForgotten`): a deposit that the bridge does not know of was minted at
  most as often as it was forgotten or went unanswered; one that it knows of, once more (`MintsAddUp`).

### Model-checked only

- Liveness (`RoundsAdvance`, `CatchesUp`, `QueueDrains`, `FindsBootnodes`) and everything with ENABLED, which
  the prover does not do.
- What `ExecutedOnce` promises beyond the cap on the saved sequence: nothing, as said above; no instance is long
  enough to show it.
- `StateIsOfChain` for nodes that import from several peers, `NoStandstill` for more than three validators or
  after a checkpoint, `SignsOnceBeforeCheckpoint` and the refinement after one: they do not hold (sections 7
  and 9), and the theorems say so by their premises.

## 6. What is not modelled

- **Token factory, dex, mining, multisig, wbtc** (Move): planned, section 8. No payload reaches dex, mining or
  multisig; the calls of the token factory never fit (section 7), and `wbtc::mint` finds no BridgeConfig, which
  no code writes.
- **Amounts of the executor**: a balance is the set of charges in it; amounts are in `AinSupply` and
  `CoinContracts`. The state root is a hash over the batches.
- **Changes of the validator set**: the consensus reads `sys:validators` afresh each round; the models of the
  consensus keep the set fixed; `BlockExecutor` and `Payloads` change it (registrations, slashes) without a
  consensus that reads it. Their composition is planned.
- **Byzantine validators**: the models follow the code of correct nodes, whose faults here are crashes.
- **Signatures, hashes, VDF, STARK, threshold encryption, accumulator**: algebra over large fields. Hashes are
  identities, the VDF is a function. Of these crates the node calls signatures, hashes and the VDF only.
- **libp2p**: external. Vertices and texts arrive late, in any order, again, or never.
- **TCP handshakes**: challenges and signatures, the relay and hole punching. Keys are not forged, so that
  an identity is the node itself.
- **Data availability**: erasure code and compression are modelled by what they promise. No code of the node
  makes or verifies fraud proofs, or calls the optimiser; their own tests do.
- **Move VM**: the interpreter and its gas schedule are external; a contract is modelled by what its source
  does.
- **`epoch::now_seconds` and the duration of an epoch**: `staking.move` takes every epoch for 60 seconds
  (`:126`, `:147`, `:184`), whatever the duration is. `Delegation` has the clock as a number that goes up; that
  governance may move it back by shortening the duration is only an observation below.
- **Storage**: state rent, the object store and scans that no other part reads.
- **API**: queries that read what other components keep. What changes state, takes locks or feeds a
  modelled part is in `Mempool`, `NodeLocks`, `GovernanceStore`, `DataAvailability`, `ChainFollowers`.
- **CLI, wallet, monitor**: one request and one answer at a time, over state kept elsewhere. **EVM bridge, IoT
  SDK and oracles**: prototypes that print, sign and send. **Configuration, keystore, scripts, SDK**: no state
  an order of events could harm.

## 7. Findings

Each quotes the line that promises otherwise in `PROJECT.json`. Two have a run of their own; section 9 says
how to repeat the others.

1. **Double sign after a checkpoint** (`dag.rs:49`; no run). Recovery loads the checkpoint
   and nothing stored since; `latest_proposed_round` is written after the broadcast. A crash in
   between, and the validator signs its round again. `NoDoubleSign` finds it.
2. **Committed, never executed** (`ordering.rs:187`; no run, section 9). The commit is on disk
   before its batch is executed; after a crash in between nothing executes it.
3. **Two orders** (`dag_same_order`, `ordering.rs:114`). The anchor is chosen among the vertices held,
   and history skips what has not arrived, so two correct nodes execute different sequences.
4. **Standstill** (`dag.rs:421`; no run). A node that receives a vertex of its round or
   above jumps past that round without having signed it. Four correct validators can all do so, and
   wait for a quorum of parents nobody will sign. `NoStandstill` finds it.
5. **Imported twice** (`sync/lib.rs:93`; no run, section 9). The local height is read once for all
   peers, so the blocks of the second peer go to the executor again, which turns their
   transactions away by sequence number but drains the slash queue once more.
6. **Fork of a node's own chain** (`sync/lib.rs:173`; no run). A block that the consensus commits during
   an import is built on the old tip. `ApartKeepsChain` without its premise finds it.
7. **Three puts for a tip** (`storage/lib.rs:236`; no run). They are called atomic; after a crash
   between the last two, a node builds on the hash of one block and the height of the next.
8. **Reserve outside the cap** (`genesis.rs:237`; no run). The counter that the hard cap is compared with
   does not include the treasury's reserve.

9. **Lost writes in a batch** (`block_parallel`, `executor/lib.rs:497`). Recipients are locked as spelt,
   and the VM reads several spellings as one address; the ValidatorSet and `sys:validators` are not
   locked at all. Of two such writes in a batch one is lost.
10. **Gas not paid** (`executor/lib.rs:704`; no run). The write of a payload that succeeds replaces the
    one that took the gas; the proposer is credited nevertheless.
11. **Accusation deleted unread** (`executor/lib.rs:475`; no run). One that arrives while an earlier one of
    the same validator is carried out is deleted with it. `QueueKept` without its third case finds it.
12. **Cut twice** (`executor/lib.rs:472`; no run). Weight and tombstone are two puts. `SlashedOnce` without
    `interrupted` finds it.
13. **Paymasters** (`executor/lib.rs:612`; no run) are always turned away: their key is no address.
14. **Slashing in the VM** (`executor/lib.rs:419`; no run) always fails: `slash_validator` is no entry function.
15. **A request that stops a node** (`api_local.rs:1212`; no run). `/get_network_info` keeps the peer list
    while it waits for the consensus; the ticker holds the consensus while it waits for the peer list.
    `NoCircularWait` finds it.
16. **Bootnodes never found** (`main.rs:420`; no run). The reconnect task leaves out every peer whose port
    equals the node's own, which is the default, and bootnodes given as `host:port`. `FindsAnyBootnode` finds
    it.
17. **A log that is never flushed** (`storage/lib.rs:69`; no run). Puts may be lost, the latest first,
    although the comment promises durability.
18. **Post-quantum signatures** (`mempool/lib.rs:60`; no run) are passed on unchecked to an executor that
    drops them.
19. **`TX:`** (`main.rs:312`; no run). What comes with this prefix is handed on with it, and is no JSON, so it
    is refused; over TCP no transaction arrives at all.
20. **Calls that do not fit** (`executor/lib.rs:1215`; no run). Those of delegation and token factory lack the
    signer, the refund two of its arguments. `EveryCallFits` finds it.
21. **Open votes unlocked** (`governance.move:116`; no run). Who votes twice has one record for both
    proposals, and takes the coins of both back when the second is done. `OpenVotesAreLocked` finds it.
22. **Shares that overflow** (`delegation.move:367`; no run). Amounts and shares are both in parts of 10^18;
    their product exceeds 128 bits at a few hundred AIN, and every call of that delegator aborts from then on.
23. **Blocks passed over** (`indexer/main.rs:125`; no run). A poll reaches 20 blocks back, the record moves to
    the tip. `NothingPassedOver` finds it.
24. **Shards that are never taken** (`da/lib.rs:407`; no run). A node that keeps some shards proves them under
    a tree with zeros for the rest. `KeptShardsAreServed` finds it.
25. **Genesis under other keys** (`genesis.rs:242`; no run). It writes resources under an address of 64 hex
    digits, the VM reads them under one of 32.
26. **Two blocks of one height** (`consensus/lib.rs:268`; no run; the older engine). A node votes for every
    proposal. `SameBlockAtHeight` finds it.
27. **Slashed although heard of** (`dag.rs:412`; no run). A vertex is put before `last_seen`; after a crash in
    between it is skipped as known when it comes again, and its author is taken for absent.
    `HeardOfIsNotSlashed` finds it.
28. **Imports that stop** (`network/lib.rs:388`; no run). A peer that hangs up while an answer is awaited
    makes the reader slice an empty buffer: the task panics, the periodic import never runs again in that
    process, and the tip is not reloaded, so that the next block of the node may fork its own chain.
    `PeriodicGoesOn` finds the first, `ApartKeepsChain` without its premise the second.
29. **Mixtures that pass for available** (`da/lib.rs:120`; no run). Batches of two lives share an epoch and
    overwrite each other's shards; sampling counts them together. `EveryPassDecodes` finds a pass on what
    decodes to neither.
30. **One account, two ballots** (`governance/lib.rs:188`; no run). The balance is looked up under the padded
    address, the receipt kept under the text; two spellings of one address vote with one store.
    `AccountsCountOnce` finds it.
31. **Genesis without an unbonding queue** (`genesis.rs:126`; no run). The structure it writes lacks a field
    of the contract's (`staking.move:49–54`), so that its bytes would not decode as that resource under the
    right key either. `Staking` starts from what genesis means: the validators it names and an empty queue.

Observations, without a statement of the repository to compare with:

- The committed sequence is saved newest first and reloaded without turning it round
  (`ordering.rs:191–192`), so after a restart the cap of 10,000 keeps the wrong end.
- The prune boundary is the *oldest* committed round (`dag.rs:534`), which never grows.
- For two and three validators the sizes of quorum and threshold do not intersect.
- A rejected twin that is delivered again is reported again.
- The jail mark is put before the pending slash (`dag.rs:262`, `:275`): a crash in between leaves a validator
  jailed and never slashed (`CutOffRecord`). For a twin the slash is put first (`:388`) and the jail mark second
  (`:392`): a crash in between leaves its author to be slashed and not jailed (`CutOffAdd`).
- The consensus queues `double_sign`; the executor looks for `equivocation` (`executor/lib.rs:397`,
  `:449`).
- Block hashes cover the local clock, so chains of honest nodes differ by hash, and a node that has
  built a block of its own can import no more from its peers.
- An import does not tell the consensus which batches it executed.
- Genesis sets an epoch of 10 seconds (`genesis.json:11`, `genesis.rs:261`), while staking counts 60 for
  each: its 21 days would be three and a half. Governance can change the duration
  (`governance.move:185`), and since `now_seconds` is the epoch number times the duration, shortening
  it moves that clock back.
- `epoch::advance_epoch` and `coin::register` for AIN have no caller in the node, and `deduct_gas` and
  `deposit` require a coin store: from the genesis of the repository no transaction pays its gas.
  `BlockExecutor` leaves open whether it does.
- Account objects are made by genesis only: a transaction of any other account is dropped.
- A transaction that comes over the API is not sent to other nodes; it waits for a vertex of that node.
- A node is named by one key and its sequencer by another, so `handle_incoming_batch` takes in no batch of any
  other node.
- The bridge asks the node for a method that its API does not have.

## 8. Plan

The most important behaviour came first: the agreement of the cluster, then the money it guards, the chain
each node keeps, the executor, and last the services of a node and what is around it. What is left:

1. **Changes of the validator set**: `ValidatorList` of `DagConsensus` becomes a variable read from
   disk, changed by slashes and registrations: the composition with `BlockExecutor`.
2. **Contracts** on `CoinLedger`: `TokenFactory`, `MultiSig`, `Mining`, `Dex`, each with its conservation
   statement, and `CoinContracts` in one composition with `AinSupply` (`mint_reward` and the cap are shared).
3. **Chain sync**: malformed blocks and the peer list of `PeerNetwork`; a bound on the saved sequence.
4. **Storage**: the older database after a crash, which `GovernanceStore` has, in `DagConsensus` and
   `ChainSync`.

Theorems still worth proving: that the cluster of the code, whose validator set changes, keeps what is proved
for a fixed one, once item 1 is modelled; `ApartKeepsChain` and `ChainHasNoGaps` over an older database (item
4); and the conservation of coins over `AinSupply` and `CoinContracts` together (item 2).

## 9. How to run

In this directory, with the community modules in the path:

    tlc -workers 2 -config DagTwo.cfg MCDagConsensus.tla
    tlapm DagConsensusProofs.tla

`PROJECT.json` gives the module and configuration of each run.

Refutations that are findings without a run. Each names the configuration to start from, what to change in it,
and the one property to check instead of those listed:

| property | configuration | changes |
|---|---|---|
| `NoDoubleSign` | `DagObserver.cfg` | `Nodes = {n1}`, `MaxCrashes = 1`, and the code's `PrunePeriod = 10`, `PruneAfter = 50`, `PruneBuffer = 10`, `DowntimePeriod = 10`, `DowntimeThreshold = 100` |
| `CommittedIsExecuted` | the same | those, with `CheckpointPeriod = 100` and `MaxRound = 4` |
| `NoStandstill` | the same | those, with `Nodes = {n1, n2, n3, n4}`, `Peered` likewise, `ValidatorList <- Four`, `CheckpointPeriod = 100`, `MaxRound = 2`, `MaxCopies = 1`, no crash |
| `StateIsOfChain` | `ChainSync.cfg` | `Nodes = {p, q, f}`, `PeersOf <- TwoPeers`, `Batches <- OnlyP`, `MaxHeight = 1`, no crash |
| `HeardOfIsNotSlashed` (as a PROPERTY) | `DagTwo.cfg` | none |
| `PeriodicGoesOn` | `ChainSync.cfg` | none |
| `NoCircularWait`, `EveryCallFits`, `KeptShardsAreServed`, `SameBlockAtHeight`, `EveryPassDecodes` | `NodeServices.cfg` | none |
| `FindsAnyBootnode` (as a PROPERTY) | `NodeServices.cfg` | none |
| `OpenVotesAreLocked`, `NothingPassedOver`, `AccountsCountOnce` | `AroundTheChain.cfg` | none |

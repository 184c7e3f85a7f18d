------------------------------ MODULE ChainSync ------------------------------
(***************************************************************************)
(* The chain of blocks of each node, written by three actors that share no *)
(* lock: the consensus, which appends a block for every batch it commits   *)
(* (consensus/src/dag.rs), and two tasks that import the blocks of peers   *)
(* (sync/src/lib.rs), one at start and one every 30 seconds                *)
(* (node/src/main.rs).  A block reaches the disk in three puts, and the    *)
(* node may stop between any two.                                          *)
(*                                                                         *)
(* A block is its place in made, which stands for its hash.  Which batches *)
(* the consensus commits, and in which order, is the subject of            *)
(* DagConsensus: here every node commits 1, 2, ... in turn.                *)
(***************************************************************************)
EXTENDS Integers, Sequences, FiniteSets

CONSTANTS
  Nodes,
  PeersOf,      \* the peers each node imports from
  Crashing,     \* the nodes that may stop
  BatchLimit,   \* blocks in one answer, 500 in the code
  Batches,      \* bound: the batches the consensus of each node commits
  MaxHeight,    \* bound: height of a chain
  MaxCrashes    \* bound: crashes in all

ASSUME NodesAssumption ==
  /\ PeersOf \in [Nodes -> SUBSET Nodes]
  /\ Crashing \subseteq Nodes

ASSUME BoundsAssumption ==
  /\ BatchLimit \in Nat \ {0}
  /\ Batches \in [Nodes -> Nat] /\ MaxHeight \in Nat /\ MaxCrashes \in Nat

Tasks  == {"initial", "periodic"}
Actors == Tasks \cup {"consensus"}

Genesis == 0        \* the hash "genesis", and no block on disk
Unknown == -1       \* what stands for the hash of a block that is not held

VARIABLES
  made,          \* every block made so far: height, previous hash, batch
  blocks,        \* disk: the block at each height, 0 for none
  latestHeight,  \* disk: latest_height
  latestHash,    \* disk: latest_block_hash
  ran,           \* disk: the batches whose effects are in the state, in order
  taken,         \* disk: the batches the consensus has committed
  up,
  tip,           \* memory: latest_block_height and latest_block_hash of the consensus
  saving,        \* the block each actor is writing and its next put
  sync,          \* where each import task is
  apart,         \* history: no two actors of the node were at work at once, and none was cut off
  crashes

disk == <<blocks, latestHeight, latestHash>>
vars == <<made, disk, ran, taken, up, tip, saving, sync, apart, crashes>>

Heights == 1..MaxHeight
Hash    == Nat

NoSave  == [block |-> Genesis, put |-> "none"]
Stopped == [at |-> "idle", base |-> 0, final |-> 0, todo |-> {}, peer |-> {},
            goal |-> 0, current |-> 0, last |-> 0, got |-> {}]

Init ==
  /\ made = <<>>
  /\ blocks = [n \in Nodes |-> [h \in Heights |-> Genesis]]
  /\ latestHeight = [n \in Nodes |-> 0]
  /\ latestHash = [n \in Nodes |-> Genesis]
  /\ ran = [n \in Nodes |-> <<>>]
  /\ taken = [n \in Nodes |-> 0]
  /\ up = [n \in Nodes |-> TRUE]
  /\ tip = [n \in Nodes |-> [height |-> 0, hash |-> Genesis]]
  /\ saving = [n \in Nodes |-> [a \in Actors |-> NoSave]]
  /\ sync = [n \in Nodes |-> [t \in Tasks |-> Stopped]]
  /\ apart = [n \in Nodes |-> TRUE]
  /\ crashes = 0

-----------------------------------------------------------------------------
(* Who is at work on a node's chain. *)

IsSaving(n, a) == saving[n][a] # NoSave
Running(n, t)  == sync[n][t].at \notin {"idle", "done"}
AtWork(n)      == {a \in Actors : IsSaving(n, a)} \cup {t \in Tasks : Running(n, t)}

\* Begins(n): an actor of n sets to work; apart is lost when another one is.
Begins(n) == apart' = [apart EXCEPT ![n] = @ /\ AtWork(n) = {}]

SetTask(n, t, s) == sync' = [sync EXCEPT ![n][t] = s]

\* WriteBlock(n, a, b): the actor is about to put block b, its height and its hash.
WriteBlock(n, a, b) == saving' = [saving EXCEPT ![n][a] = [block |-> b, put |-> "block"]]

-----------------------------------------------------------------------------
(* The consensus. *)

\* Build(n): add_vertex executes the batch it has committed and makes a block of it on
\* the tip it has in memory.  The hash covers the clock, the round and the leader, so
\* that two nodes may or may not make the same block of one batch.
Build(n) ==
  /\ up[n] /\ ~IsSaving(n, "consensus")
  /\ taken[n] < Batches[n] /\ tip[n].height < MaxHeight
  /\ LET new == [height |-> tip[n].height + 1, prev |-> tip[n].hash, batch |-> taken[n] + 1]
     IN  \E b \in 1..Len(made) + 1 :
           /\ IF b \in DOMAIN made THEN made[b] = new /\ UNCHANGED made
                                   ELSE made' = Append(made, new)
           /\ tip' = [tip EXCEPT ![n] = [height |-> new.height, hash |-> b]]
           /\ WriteBlock(n, "consensus", b)
  /\ ran' = [ran EXCEPT ![n] = Append(@, taken[n] + 1)]
  /\ taken' = [taken EXCEPT ![n] = @ + 1]
  /\ Begins(n)
  /\ UNCHANGED <<disk, up, sync, crashes>>

\* The three puts of a block, by the consensus and by save_block_json alike.
PutBlock(n, a) ==
  /\ saving[n][a].put = "block"
  /\ blocks' = [blocks EXCEPT ![n][made[saving[n][a].block].height] = saving[n][a].block]
  /\ saving' = [saving EXCEPT ![n][a].put = "height"]
  /\ UNCHANGED <<made, latestHeight, latestHash, ran, taken, up, tip, sync, apart, crashes>>

\* Seeded fault: the height written is that of the next block.
PutNextHeight(n, a) ==
  /\ saving[n][a].put = "height"
  /\ latestHeight' = [latestHeight EXCEPT ![n] = made[saving[n][a].block].height + 1]
  /\ saving' = [saving EXCEPT ![n][a].put = "hash"]
  /\ UNCHANGED <<made, blocks, latestHash, ran, taken, up, tip, sync, apart, crashes>>

PutHeight(n, a) ==
  /\ saving[n][a].put = "height"
  /\ latestHeight' = [latestHeight EXCEPT ![n] = made[saving[n][a].block].height]
  /\ saving' = [saving EXCEPT ![n][a].put = "hash"]
  /\ UNCHANGED <<made, blocks, latestHash, ran, taken, up, tip, sync, apart, crashes>>

\* After the last put an import task counts the block as processed.
PutHash(n, a) ==
  /\ saving[n][a].put = "hash"
  /\ latestHash' = [latestHash EXCEPT ![n] = saving[n][a].block]
  /\ saving' = [saving EXCEPT ![n][a] = NoSave]
  /\ sync' = IF a \in Tasks
               THEN [sync EXCEPT ![n][a].last = made[saving[n][a].block].height]
               ELSE sync
  /\ UNCHANGED <<made, blocks, latestHeight, ran, taken, up, tip, apart, crashes>>

Put(n, a) == PutBlock(n, a) \/ PutHeight(n, a) \/ PutHash(n, a)

-----------------------------------------------------------------------------
(* The import tasks. *)

\* Leave(s): task s is done with a peer; all it keeps is where it started and how far it got.
Leave(s) == [Stopped EXCEPT !.at = "peers", !.base = s.base, !.final = s.final, !.todo = s.todo]

\* Seeded fault: every import starts over from the first block.
StartFromGenesis(n, t) ==
  /\ up[n] /\ sync[n][t].at = "idle" /\ PeersOf[n] # {}
  /\ SetTask(n, t, [Stopped EXCEPT !.at = "peers", !.todo = PeersOf[n]])
  /\ Begins(n)
  /\ UNCHANGED <<made, disk, ran, taken, up, tip, saving, crashes>>

\* StartSync(n, t): the local height is read here, once for all the peers.
StartSync(n, t) ==
  /\ up[n] /\ sync[n][t].at = "idle" /\ PeersOf[n] # {}
  /\ SetTask(n, t, [Stopped EXCEPT !.at = "peers", !.base = latestHeight[n],
                                   !.final = latestHeight[n], !.todo = PeersOf[n]])
  /\ Begins(n)
  /\ UNCHANGED <<made, disk, ran, taken, up, tip, saving, crashes>>

\* Without(s, p): peer p is done with; Pulling(s, p): it has more blocks than there were
\* here when the task started, and its blocks are asked for from there.
Without(s, p) == [s EXCEPT !.todo = @ \ {p}]
Pulling(s, p) == [Without(s, p) EXCEPT !.at = "pull", !.peer = {p}, !.goal = latestHeight[p],
                                       !.current = s.base, !.last = s.base]

\* AskHeight(n, t): connect to the next peer and ask for its height (GET_HEIGHT).
AskHeight(n, t) ==
  /\ sync[n][t].at = "peers"
  /\ \E p \in sync[n][t].todo :
       /\ up[p]
       /\ \/ latestHeight[p] > sync[n][t].base /\ SetTask(n, t, Pulling(sync[n][t], p))
          \/ latestHeight[p] <= sync[n][t].base /\ SetTask(n, t, Without(sync[n][t], p))
  /\ UNCHANGED <<made, disk, ran, taken, up, tip, saving, apart, crashes>>

\* Answer(p, from): handle_sync_request; heights without a block are passed over.
Answer(p, from) ==
  {blocks[p][h] : h \in {g \in Heights : from < g /\ g <= from + BatchLimit
                                              /\ g <= latestHeight[p]}} \ {Genesis}

Importing(s, got) == [s EXCEPT !.got = got, !.at = "import"]

\* Pull(n, t): the next blocks of the peer (SYNC_REQ); an empty answer ends with it.
Pull(n, t) ==
  /\ sync[n][t].at = "pull"
  /\ \E p \in sync[n][t].peer :
       LET got == Answer(p, sync[n][t].current)
       IN  /\ up[p]
           /\ \/ got = {} /\ SetTask(n, t, Leave(sync[n][t]))
              \/ got # {} /\ SetTask(n, t, Importing(sync[n][t], got))
  /\ UNCHANGED <<made, disk, ran, taken, up, tip, saving, apart, crashes>>

\* LosePeer(n, t): no connection, a request that cannot be sent, an answer that is late
\* or cannot be read; the task goes on with the next peer.
LosePeer(n, t) ==
  /\ \/ /\ sync[n][t].at = "peers"
        /\ \E p \in sync[n][t].todo : SetTask(n, t, Without(sync[n][t], p))
     \/ /\ sync[n][t].at = "pull"
        /\ SetTask(n, t, Leave(sync[n][t]))
  /\ UNCHANGED <<made, disk, ran, taken, up, tip, saving, apart, crashes>>

\* AwaitsAnswer(s): task s is with a peer it may have asked something of.
AwaitsAnswer(s) == (s.at = "peers" /\ s.todo # {}) \/ s.at = "pull"

\* TaskDies(n, t): the peer hangs up while its answer is awaited.  read_encrypted_msg
\* drops the error of read_exact and slices an empty buffer: the task panics, and with it
\* its loop, until the node is started again.  The tip of the consensus is not reloaded.
TaskDies(n, t) ==
  /\ AwaitsAnswer(sync[n][t])
  /\ SetTask(n, t, [Stopped EXCEPT !.at = "done"])
  /\ apart' = [apart EXCEPT ![n] = @ /\ latestHeight[n] = tip[n].height]
  /\ UNCHANGED <<made, disk, ran, taken, up, tip, saving, crashes>>

LocalHash(n, h) == IF blocks[n][h] = Genesis THEN Unknown ELSE blocks[n][h]

\* Seeded fault: the block is checked against the saved tip.
FitsTip(n, b) == made[b].height > 1 => made[b].prev = latestHash[n]

\* Seeded fault: the block below is not looked at.
FitsAnywhere(n, b) == made[b].height \in Heights

\* Fits(n, b): validate_block, against the block held below.
Fits(n, b) == LET new == made[b]
              IN  new.height > 1 => new.prev = LocalHash(n, new.height - 1)

\* Import(n, t): one block of process_blocks, in the order of their heights.  It is executed and then saved; the first
\* that does not fit ends the answer.  The answer holds no block at or below current.
Import(n, t) ==
  /\ sync[n][t].at = "import" /\ ~IsSaving(n, t)
  /\ \E b \in sync[n][t].got :
       /\ \A c \in sync[n][t].got : made[b].height <= made[c].height
       /\ \/ /\ Fits(n, b)
             /\ ran' = [ran EXCEPT ![n] = Append(@, made[b].batch)]
             /\ WriteBlock(n, t, b)
             /\ SetTask(n, t, [sync[n][t] EXCEPT !.got = @ \ {b}])
          \/ /\ ~Fits(n, b)
             /\ SetTask(n, t, [sync[n][t] EXCEPT !.got = {}])
             /\ UNCHANGED <<ran, saving>>
  /\ UNCHANGED <<made, disk, taken, up, tip, apart, crashes>>

\* EndAnswer(n, t): no progress ends with the peer, and so does its height reached.
EndAnswer(n, t) ==
  /\ sync[n][t].at = "import" /\ ~IsSaving(n, t) /\ sync[n][t].got = {}
  /\ LET s    == sync[n][t]
         more == [s EXCEPT !.at = "pull", !.current = s.last, !.final = s.last]
     IN  SetTask(n, t, CASE s.last <= s.current -> Leave(s)
                         [] s.last > s.current /\ s.last < s.goal -> more
                         [] OTHER -> Leave(more))
  /\ UNCHANGED <<made, disk, ran, taken, up, tip, saving, apart, crashes>>

\* Reload(n, t): all peers asked.  The task takes the lock of the consensus, which holds
\* it while it builds a block, and raises its tip to what the disk says.
Reload(n, t) ==
  /\ sync[n][t].at = "peers" /\ sync[n][t].todo = {}
  /\ sync[n][t].final > 0 => ~IsSaving(n, "consensus")
  /\ tip' = IF sync[n][t].final > 0 /\ latestHeight[n] > tip[n].height
              THEN [tip EXCEPT ![n] = [height |-> latestHeight[n], hash |-> latestHash[n]]]
              ELSE tip
  /\ SetTask(n, t, [Stopped EXCEPT !.at = IF t = "initial" THEN "done" ELSE "idle"])
  /\ UNCHANGED <<made, disk, ran, taken, up, saving, apart, crashes>>

-----------------------------------------------------------------------------
(* Stopping and starting again (DagConsensus::new). *)

Crash(n) ==
  /\ n \in Crashing /\ up[n] /\ crashes < MaxCrashes
  /\ up' = [up EXCEPT ![n] = FALSE]
  /\ tip' = [tip EXCEPT ![n] = [height |-> 0, hash |-> Genesis]]
  /\ saving' = [saving EXCEPT ![n] = [a \in Actors |-> NoSave]]
  /\ sync' = [sync EXCEPT ![n] = [t \in Tasks |-> Stopped]]
  /\ apart' = [apart EXCEPT ![n] = @ /\ \A a \in Actors : ~IsSaving(n, a)]
  /\ crashes' = crashes + 1
  /\ UNCHANGED <<made, disk, ran, taken>>

\* Seeded fault: latest_height is taken for the height of the next block.
RestartAbove(n) ==
  /\ ~up[n]
  /\ up' = [up EXCEPT ![n] = TRUE]
  /\ tip' = [tip EXCEPT ![n] = [height |-> latestHeight[n] + 1, hash |-> latestHash[n]]]
  /\ UNCHANGED <<made, disk, ran, taken, saving, sync, apart, crashes>>

Restart(n) ==
  /\ ~up[n]
  /\ up' = [up EXCEPT ![n] = TRUE]
  /\ tip' = [tip EXCEPT ![n] = [height |-> latestHeight[n], hash |-> latestHash[n]]]
  /\ UNCHANGED <<made, disk, ran, taken, saving, sync, apart, crashes>>

Next ==
  \E n \in Nodes :
    \/ Build(n) \/ Crash(n) \/ Restart(n)
    \/ \E a \in Actors : Put(n, a)
    \/ \E t \in Tasks :
         StartSync(n, t) \/ AskHeight(n, t) \/ Pull(n, t)
         \/ LosePeer(n, t) \/ TaskDies(n, t)
         \/ Import(n, t) \/ EndAnswer(n, t) \/ Reload(n, t)

Spec == Init /\ [][Next]_vars

\* The timers fire, tasks run, the node is restarted; a connection that is tried for ever
\* is made, and answers, for ever, to a task that lives.  Nothing is assumed of the
\* consensus.
Fairness ==
  \A n \in Nodes :
    /\ WF_vars(Restart(n))
    /\ \A a \in Actors : WF_vars(Put(n, a))
    /\ \A t \in Tasks :
         /\ WF_vars(StartSync(n, t)) /\ WF_vars(Import(n, t))
         /\ WF_vars(EndAnswer(n, t)) /\ WF_vars(Reload(n, t))
         /\ SF_vars(AskHeight(n, t)) /\ SF_vars(Pull(n, t))

FairSpec == Spec /\ Fairness

-----------------------------------------------------------------------------
(* Properties. *)

Block == [height : Heights, prev : Hash, batch : Nat]
Save  == [block : Hash, put : {"none", "block", "height", "hash"}]
Task  == [at : {"idle", "peers", "pull", "import", "done"}, base : 0..MaxHeight,
          final : 0..MaxHeight, todo : SUBSET Nodes, peer : SUBSET Nodes,
          goal : 0..MaxHeight, current : 0..MaxHeight, last : 0..MaxHeight,
          got : SUBSET Hash]

\* The types of the variables, and that no hash dangles: whatever is on disk, in memory,
\* in an answer or about to be put names a block that has been made, over imports and
\* crashes.
TypeOK ==
  /\ made \in Seq(Block)
  /\ blocks \in [Nodes -> [Heights -> 0..Len(made)]]
  /\ latestHeight \in [Nodes -> 0..MaxHeight]
  /\ latestHash \in [Nodes -> 0..Len(made)]
  /\ ran \in [Nodes -> Seq(Nat)]
  /\ taken \in [Nodes -> Nat]
  /\ up \in [Nodes -> BOOLEAN] /\ apart \in [Nodes -> BOOLEAN]
  /\ tip \in [Nodes -> [height : 0..MaxHeight, hash : 0..Len(made)]]
  /\ saving \in [Nodes -> [Actors -> Save]]
  /\ sync \in [Nodes -> [Tasks -> Task]]
  /\ crashes \in 0..MaxCrashes
  /\ \A n \in Nodes, a \in Actors : IsSaving(n, a) => saving[n][a].block \in DOMAIN made
  /\ \A n \in Nodes, t \in Tasks : sync[n][t].got \subseteq DOMAIN made

\* However import tasks, the consensus and crashes interleave, a node holds every block
\* up to its latest_height: handle_sync_request answers with no gap, and process_blocks
\* finds the block below the first one it takes in.
NoGaps ==
  \A n \in Nodes : \A h \in 1..latestHeight[n] : blocks[n][h] # Genesis

Chain(n) == [h \in 1..latestHeight[n] |-> blocks[n][h]]

\* A node whose actors have never been at work at once, and of which no crash cut a save
\* short and no hang-up an import before its tip was reloaded, holds a chain in which every
\* block names the one below, and whose tip its disk and, between imports, its consensus
\* agree on: reload_chain_tip and validate_block are
\* then enough, whatever the peers hold.
ApartKeepsChain ==
  \A n \in Nodes : apart[n] /\ (\A a \in Actors : ~IsSaving(n, a)) =>
    /\ \A h \in 1..latestHeight[n] :
         /\ made[blocks[n][h]].height = h
         /\ made[blocks[n][h]].prev = IF h = 1 THEN Genesis ELSE blocks[n][h - 1]
    /\ latestHash[n] = IF latestHeight[n] = 0 THEN Genesis ELSE blocks[n][latestHeight[n]]
    /\ up[n] /\ AtWork(n) = {} => tip[n] = [height |-> latestHeight[n], hash |-> latestHash[n]]

\* The state of such a node is that of its chain executed once, block by block:
\* process_blocks skips "blocks we already have".
StateIsOfChain ==
  \A n \in Nodes : apart[n] /\ (\A a \in Actors : ~IsSaving(n, a)) =>
    ran[n] = [h \in 1..latestHeight[n] |-> made[blocks[n][h]].batch]

SameChain(f, p) == latestHeight[f] = latestHeight[p] /\ Chain(f) = Chain(p)

\* A node that imports from one peer comes to hold the chain of that peer, although both
\* crash and its tasks overlap and one of them may die, unless its periodic import is dead
\* for good, or it builds a block itself, which no import undoes, or the peer's chain is
\* broken.
CatchesUp ==
  \A f \in Nodes, p \in Nodes :
    PeersOf[f] = {p} /\ PeersOf[p] = {} =>
      \/ <>(taken[f] > 0 \/ ~apart[p])
      \/ <>[](sync[f]["periodic"].at = "done")
      \/ <>[]SameChain(f, p)

\* Not so (TaskDies), although main.rs spawns it as a loop: the background import goes on
\* for as long as its node is up.
PeriodicGoesOn == \A n \in Nodes : sync[n]["periodic"].at # "done"
=============================================================================

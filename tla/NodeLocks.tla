------------------------------ MODULE NodeLocks ------------------------------
(****************************************************************************)
(* The locks of one node process (core/node/src/main.rs) and the tasks that *)
(* take several of them: the consensus ticker, the readers of libp2p and     *)
(* TCP messages, the sync task and the requests of the HTTP API.  A task     *)
(* runs one operation after another; an operation is the list of what it     *)
(* takes and drops, written as the code nests it.  Operations that take one  *)
(* lock and nothing under it (a handshake, the metrics loop, the requests on *)
(* the mempool or the governance) cannot be part of a wait and are left out. *)
(*                                                                          *)
(* `consensus' is the only RwLock.  As in the standard library on Linux, a   *)
(* reader also waits behind a writer that is waiting.                        *)
(****************************************************************************)
EXTENDS Sequences

CONSTANTS
  Readers,  \* tasks that read messages: the libp2p loop, a TCP connection
  Workers   \* threads of the HTTP server

Threads == {"ticker", "sync"} \cup Readers \cup Workers

ASSUME ThreadsAssumption ==
  /\ Readers \cap Workers = {}
  /\ {"ticker", "sync"} \cap (Readers \cup Workers) = {}

VARIABLES
  op,     \* the operation each thread runs, "idle" between two
  todo,   \* what it has still to take and drop
  held    \* the locks it holds, each with its mode

lockVars == <<op, todo, held>>

----------------------------------------------------------------------------
(* The operations. *)

Step(do, lock, mode) == [do |-> do, lock |-> lock, mode |-> mode]
Within(lock, mode, body) == <<Step("take", lock, mode)>> \o body \o <<Step("drop", lock, mode)>>
Hold(lock, body) == Within(lock, "write", body)

\* A lock under which nothing else is taken: nobody waits for its holder for long, so
\* that taking and dropping it are one step.
Lock(lock) == <<Step("pass", lock, "write")>>

DagAndIndex == Hold("dag", Lock("round_index"))

\* DASequencer::create_batch: the cache of batches, then a copy of the peer list.
PublishBatch == Hold("da_sequencer", Lock("batches") \o Lock("peers"))

\* The committing half of DagConsensus::add_vertex: fetch payloads, execute, publish
\* the batch, and every tenth block look for what to prune.
ExecuteCommitted == Lock("dag") \o Lock("block_execution") \o PublishBatch
Maintain         == Lock("ordering") \o DagAndIndex \o Lock("dag")

\* DagConsensus::add_vertex, by how far it gets: the vertex is known or slashed,
\* it is stored, it commits, it commits and the DAG is pruned and checkpointed.
AddVertex ==
  LET stored    == DagAndIndex \o Hold("ordering", DagAndIndex)
      committed == stored \o ExecuteCommitted
  IN  {DagAndIndex, stored, committed, committed \o Maintain}

\* DagConsensus::try_create_vertex: too few parents, or a vertex of its own that is
\* filled, added and sent to every peer.
TryCreateVertex ==
  LET look == Lock("round_index") \o Lock("peers") IN
  {look} \cup {look \o Lock("mempool") \o v \o Lock("peers") : v \in AddVertex}

Named(name, paths) == {<<name, p>> : p \in paths}

\* What the two loops of main.rs do with a message, by its prefix.
HandleMessage ==
  Named("tx", {Within("consensus", "read", Lock("mempool"))})
    \cup Named("vertex", {Hold("consensus", v) : v \in AddVertex})
    \cup Named("da_commit", {Hold("da_sequencer", Lock("batches"))})

\* The requests of the API that take two locks: get_network_info takes the peer list
\* before the consensus, aincore_getStatus after it.
Requests ==
  Named("getStatus", {Within("consensus", "read", Lock("peers"))})
    \cup Named("getDag", {Within("consensus", "read", Lock("dag"))})
    \cup Named("get_network_info", {Hold("peers", Within("consensus", "read", <<>>))})

\* Seeded fault: sync_from_peers walks the peer list itself and not a copy of it.
SyncUnderPeers ==
  Named("sync", {Hold("peers", Lock("block_execution") \o reload) : reload \in {<<>>, Lock("consensus")}})

\* The sync tasks: sync_from_peers on a copy of the peer list, then reload_chain_tip
\* when a block was imported.
SyncFromPeers ==
  Named("sync", {Lock("peers") \o Lock("block_execution") \o reload : reload \in {<<>>, Lock("consensus")}})

Operations(t) ==
  CASE t = "ticker"   -> Named("tick", {Hold("consensus", v) : v \in TryCreateVertex})
    [] t = "sync"     -> SyncFromPeers
    [] t \in Readers  -> HandleMessage
    [] t \in Workers  -> Requests

----------------------------------------------------------------------------
(* The behaviour. *)

Holds(t, lock) == \E mode \in {"read", "write"} : <<lock, mode>> \in held[t]

\* u keeps t from the lock t wants: it holds it, or waits to write what t wants to read.
KeepsFrom(u, t) ==
  /\ todo[t] # <<>> /\ Head(todo[t]).do # "drop"
  /\ LET want == Head(todo[t]) IN
       \/ <<want.lock, "write">> \in held[u]
       \/ want.mode = "write" /\ Holds(u, want.lock)
       \/ /\ want.mode = "read"
          /\ todo[u] # <<>> /\ Head(todo[u]) = Step("take", want.lock, "write")
          /\ \E v \in Threads \ {u} : Holds(v, want.lock)

LockInit ==
  /\ op = [t \in Threads |-> "idle"]
  /\ todo = [t \in Threads |-> <<>>]
  /\ held = [t \in Threads |-> {}]

Begin(t) ==
  /\ op[t] = "idle"
  /\ \E o \in Operations(t) :
       /\ op' = [op EXCEPT ![t] = o[1]]
       /\ todo' = [todo EXCEPT ![t] = o[2]]
  /\ UNCHANGED held

Advance(t) ==
  /\ todo' = [todo EXCEPT ![t] = Tail(@)]
  /\ op' = [op EXCEPT ![t] = IF Tail(todo[t]) = <<>> THEN "idle" ELSE @]

Acquire(t) ==
  /\ todo[t] # <<>> /\ Head(todo[t]).do # "drop"
  /\ \A u \in Threads : ~KeepsFrom(u, t)
  /\ held' = [held EXCEPT ![t] = IF Head(todo[t]).do = "pass" THEN @
                                 ELSE @ \cup {<<Head(todo[t]).lock, Head(todo[t]).mode>>}]
  /\ Advance(t)

Release(t) ==
  /\ todo[t] # <<>> /\ Head(todo[t]).do = "drop"
  /\ held' = [held EXCEPT ![t] = @ \ {<<Head(todo[t]).lock, Head(todo[t]).mode>>}]
  /\ Advance(t)

LockNext == \E t \in Threads : Begin(t) \/ Acquire(t) \/ Release(t)

LockSpec == LockInit /\ [][LockNext]_lockVars

----------------------------------------------------------------------------
(* Properties. *)

\* Sets of threads none of which can go on: each is kept from its lock by one of them.
CircularWaits ==
  LET waits == {p \in Threads \X Threads : KeepsFrom(p[2], p[1])} IN
  {S \in SUBSET {p[1] : p \in waits} : S # {} /\ \A t \in S : \E u \in S : <<t, u>> \in waits}

\* No set of tasks and requests waits for itself.  The code breaks it: a request for
\* /get_network_info holds the peer list while it waits for the consensus, which the
\* ticker holds while it waits for the peer list.
NoCircularWait == CircularWaits = {}

\* That request is the only cause: whatever else runs side by side, tasks and requests
\* that wait for each other for ever have a /get_network_info among them.
WaitsOnlyForNetworkInfo ==
  \A S \in CircularWaits : \E t \in S : op[t] = "get_network_info"
=============================================================================

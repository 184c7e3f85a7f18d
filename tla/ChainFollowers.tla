---------------------------- MODULE ChainFollowers ----------------------------
(****************************************************************************)
(* Two programs that follow a chain by polling: the indexer, which copies    *)
(* the blocks of a node into SQLite (indexer/src/main.rs), and the bridge    *)
(* that mints wrapped coins for deposits in Bitcoin (depin/btc-bridge).      *)
(* Each keeps on disk how far it has come, in a step of its own after the    *)
(* work, and may crash between any two of its writes.                        *)
(*                                                                           *)
(* The bridge asks for a method the node does not have; what a node that had *)
(* it would do, and the Bitcoin chain, are external.                         *)
(****************************************************************************)
EXTENDS Integers, Sequences, FiniteSets

CONSTANTS
  Window,        \* blocks asked for: 20 in the code
  Deposits,      \* hashes of deposits in Bitcoin
  MaxHeight,     \* bound: blocks of the node
  MaxFailures,   \* bound: writes that fail and answers that are lost
  MaxStops       \* bound: crashes of the two programs

ASSUME FollowersAssumption ==
  Window \in Nat \ {0} /\ MaxHeight \in Nat /\ MaxFailures \in Nat /\ MaxStops \in Nat

VARIABLES
  height,       \* the node: latest_height
  rows,         \* SQLite: the blocks whose transactions are in the table
  last_height,  \* SQLite: the row of that name
  todo,         \* the indexer: blocks it has fetched and not done yet, oldest first
  inserted,     \* the indexer: it has inserted the first of them
  missed,       \* history: blocks that a poll did not reach any more
  confirmed,    \* Bitcoin: the deposits with six confirmations
  mints,        \* the contract: how often each deposit has been minted
  processed,    \* the bridge: its set of processed deposits
  file,         \* disk: processed_txs.json, read as the empty set when it cannot be parsed
  polled,       \* the bridge: those of the poll it has still to look at
  unsaved,      \* the bridge: the deposit it has minted and not saved yet, a set
  forgotten,    \* history: how often a restart read a file without a processed deposit
  unanswered,   \* history: how often a mint was carried out but not answered
  failures,     \* history
  stops         \* history

indexerVars == <<rows, last_height, todo, inserted, missed>>
bridgeVars  == <<mints, processed, file, polled, unsaved, forgotten, unanswered>>
followerVars == <<height, indexerVars, confirmed, bridgeVars, failures, stops>>

Fails == failures < MaxFailures /\ failures' = failures + 1

-----------------------------------------------------------------------------
(* The indexer. *)

\* Seeded fault: the blocks are taken in the order of the answer, the newest first.
NewestFirst ==
  LET found == {h \in 1..height : h > height - Window /\ h > last_height} IN
  [i \in 1..Cardinality(found) |-> height - i + 1]

\* Blocks: the answer of aincore_getBlocks turned round, without what is done.
Blocks ==
  LET found == {h \in 1..height : h > height - Window /\ h > last_height} IN
  [i \in 1..Cardinality(found) |-> height - Cardinality(found) + i]

\* Poll: every two seconds, the newest Window blocks; older ones are out of reach.
Poll ==
  /\ todo = <<>> /\ Blocks # <<>>
  /\ todo' = Blocks
  /\ missed' = missed \cup {h \in 1..height : h > last_height /\ h <= height - Window}
  /\ UNCHANGED <<height, rows, last_height, inserted, confirmed, bridgeVars, failures, stops>>

\* InsertBlock: INSERT OR IGNORE of its transactions; an error is ignored too.
InsertBlock ==
  /\ todo # <<>> /\ ~inserted
  /\ inserted' = TRUE
  /\ \/ rows' = rows \cup {Head(todo)} /\ UNCHANGED <<missed, failures>>
     \/ Fails /\ missed' = missed \cup ({Head(todo)} \ rows) /\ UNCHANGED rows
  /\ UNCHANGED <<height, last_height, todo, confirmed, bridgeVars, stops>>

\* SetLastHeight: an error is logged only.
SetLastHeight ==
  /\ inserted
  /\ \/ last_height' = Head(todo) /\ UNCHANGED failures
     \/ Fails /\ UNCHANGED last_height
  /\ todo' = Tail(todo) /\ inserted' = FALSE
  /\ UNCHANGED <<height, rows, missed, confirmed, bridgeVars, stops>>

StopIndexer ==
  /\ stops < MaxStops /\ todo # <<>>
  /\ todo' = <<>> /\ inserted' = FALSE /\ stops' = stops + 1
  /\ UNCHANGED <<height, rows, last_height, missed, confirmed, bridgeVars, failures>>

-----------------------------------------------------------------------------
(* The bridge. *)

\* GetDeposits: once a minute.
GetDeposits ==
  /\ polled = {} /\ unsaved = {} /\ polled' = confirmed /\ polled' # {}
  /\ UNCHANGED <<height, indexerVars, confirmed, mints, processed, file, unsaved, forgotten,
                 unanswered, failures, stops>>

\* Skip(d): one that is processed.
Skip(d) ==
  /\ unsaved = {} /\ d \in polled \cap processed
  /\ polled' = polled \ {d}
  /\ UNCHANGED <<height, indexerVars, confirmed, mints, processed, file, unsaved, forgotten,
                 unanswered, failures, stops>>

\* MintWbtc(d): asks the node, which refuses, mints and answers, or mints and is not heard.
MintWbtc(d) ==
  /\ unsaved = {} /\ d \in polled \ processed
  /\ polled' = polled \ {d}
  /\ \/ Fails /\ UNCHANGED <<mints, unsaved, unanswered>>
     \/ /\ mints' = [mints EXCEPT ![d] = @ + 1] /\ unsaved' = {d}
        /\ UNCHANGED <<unanswered, failures>>
     \/ /\ Fails /\ mints' = [mints EXCEPT ![d] = @ + 1]
        /\ unanswered' = [unanswered EXCEPT ![d] = @ + 1] /\ UNCHANGED unsaved
  /\ UNCHANGED <<height, indexerVars, confirmed, processed, file, forgotten, stops>>

\* Seeded fault: only a set that could be saved is kept in memory.
MarkSaved ==
  /\ unsaved # {}
  /\ \/ processed' = processed \cup unsaved /\ file' = processed' /\ UNCHANGED failures
     \/ Fails /\ UNCHANGED <<processed, file>>
  /\ unsaved' = {}
  /\ UNCHANGED <<height, indexerVars, confirmed, mints, polled, forgotten, unanswered, stops>>

\* MarkProcessed: the set in memory first, then the file; an error is logged only.
MarkProcessed ==
  /\ unsaved # {}
  /\ processed' = processed \cup unsaved
  /\ \/ file' = processed' /\ UNCHANGED failures
     \/ Fails /\ UNCHANGED file
  /\ unsaved' = {}
  /\ UNCHANGED <<height, indexerVars, confirmed, mints, polled, forgotten, unanswered, stops>>

\* StopBridge: fs::write empties the file before it fills it, so a crash while the bridge
\* saves can leave one that cannot be parsed; the restart reads what there is.
StopBridge ==
  /\ stops < MaxStops /\ stops' = stops + 1
  /\ \/ UNCHANGED file
     \/ unsaved # {} /\ file' = {}
  /\ processed' = file'
  /\ forgotten' = [d \in Deposits |->
                     forgotten[d] + IF d \in (processed \cup unsaved) \ file' THEN 1 ELSE 0]
  /\ polled' = {} /\ unsaved' = {}
  /\ UNCHANGED <<height, indexerVars, confirmed, mints, unanswered, failures>>

-----------------------------------------------------------------------------
(* The chains that are followed. *)

Grow ==
  /\ height < MaxHeight /\ height' = height + 1
  /\ UNCHANGED <<indexerVars, confirmed, bridgeVars, failures, stops>>

Confirm ==
  /\ \E d \in Deposits \ confirmed : confirmed' = confirmed \cup {d}
  /\ UNCHANGED <<height, indexerVars, bridgeVars, failures, stops>>

FollowersInit ==
  /\ height = 0
  /\ rows = {} /\ last_height = 0 /\ todo = <<>> /\ inserted = FALSE /\ missed = {}
  /\ confirmed = {} /\ processed = {} /\ file = {} /\ polled = {} /\ unsaved = {}
  /\ mints = [d \in Deposits |-> 0] /\ forgotten = [d \in Deposits |-> 0]
  /\ unanswered = [d \in Deposits |-> 0]
  /\ failures = 0 /\ stops = 0

FollowersNext ==
  \/ Grow \/ Poll \/ InsertBlock \/ SetLastHeight \/ StopIndexer
  \/ Confirm \/ GetDeposits \/ MarkProcessed \/ StopBridge
  \/ \E d \in Deposits : Skip(d) \/ MintWbtc(d)

FollowersSpec == FollowersInit /\ [][FollowersNext]_followerVars

\* Whatever crashes and whichever writes fail, a block at or below the height the indexer has
\* recorded is in its table, unless it had fallen out of the window of a poll or its own
\* insertion failed: the record never runs ahead of the work.
RecordedIsIndexed == \A h \in 1..last_height : h \in rows \cup missed

\* A deposit is minted more than once only as often as an answer was lost or a restart did
\* not find it in the file: a failed save alone never makes the running bridge mint again.
MintedAgainOnlyIfForgotten ==
  \A d \in Deposits : mints[d] <= 1 + forgotten[d] + unanswered[d]

\* No block is passed over.  Violated: a poll reaches Window blocks back, and an indexer that
\* was off for longer records a height above blocks it has never seen.
NothingPassedOver == \A h \in 1..last_height : h \in rows
=============================================================================

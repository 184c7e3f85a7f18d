------------------------------- MODULE Mempool -------------------------------
(****************************************************************************)
(* The mempool of a node (core/mempool/src/lib.rs) and what the node lets    *)
(* reach it: aincore_sendTransaction of its API, gossip over libp2p, and the *)
(* messages of the TCP transport (core/node/src/main.rs).  Transactions are  *)
(* told apart by their text.  What was seen is remembered up to a bound and  *)
(* in memory only; the ticker takes the oldest ones for a vertex.            *)
(****************************************************************************)
EXTENDS Integers, Sequences

CONSTANTS
  Texts,            \* the messages that may arrive, each with what the code reads in it
  MAX_PENDING_TXS,  \* 5000 in the code
  MAX_SEEN_TXS,     \* 50000 in the code
  PayloadLimit,     \* 50 in the code: transactions of one vertex
  MaxArrivals,      \* bound: messages
  MaxRestarts       \* bound

\* A signature of 128 hexadecimal digits is Ed25519, one of 9254 is post-quantum and
\* left to the executor, every other length is refused.
Text == [id : Nat, prefix : {"{", "TX:"}, parses : BOOLEAN, chain : BOOLEAN,
         scheme : {"ed25519", "pqc", "unknown"}, valid : BOOLEAN, large : BOOLEAN]

ASSUME TextsAssumption == Texts \subseteq Text /\ \A x \in Texts : x.prefix = "TX:" => ~x.parses
ASSUME LimitsAssumption ==
  /\ MAX_PENDING_TXS \in Nat /\ MAX_SEEN_TXS \in Nat \ {0}
  /\ MAX_PENDING_TXS <= MAX_SEEN_TXS
  /\ PayloadLimit \in Nat /\ MaxArrivals \in Nat /\ MaxRestarts \in Nat

VARIABLES
  pending,     \* pending_txs, oldest first
  seen,        \* seen_order, oldest first; seen_txs holds the same
  taken,       \* history: how often this process has handed each text to a vertex
  forgotten,   \* history: how often it has dropped it from the record
  arrivals,    \* history
  restarts     \* history

poolVars == <<pending, seen, taken, forgotten, arrivals, restarts>>

Elems(s) == {s[i] : i \in DOMAIN s}

\* The checks that need no state: a transaction of this chain, rightly signed.
WellFormed(x) == x.parses /\ x.chain /\ (x.scheme = "pqc" \/ (x.scheme = "ed25519" /\ x.valid))

\* A text enters the record; at the bound the oldest leaves it.
Remember(x) ==
  LET full == Len(seen) >= MAX_SEEN_TXS IN
  /\ seen' = Append(IF full THEN Tail(seen) ELSE seen, x)
  /\ forgotten' = [y \in Texts |-> forgotten[y] + IF full /\ y = Head(seen) THEN 1 ELSE 0]

\* Seeded fault: a text that was seen is admitted again.
AdmitsSeen(x) == WellFormed(x) /\ ~x.large /\ Len(pending) < MAX_PENDING_TXS

\* A text that was seen, is too large, or finds the queue full is refused; only the
\* admitted one is recorded as seen.
Admits(x) == WellFormed(x) /\ x \notin Elems(seen) /\ ~x.large /\ Len(pending) < MAX_PENDING_TXS

add_transaction(x) ==
  /\ IF Admits(x) THEN Remember(x) /\ pending' = Append(pending, x)
                  ELSE UNCHANGED <<seen, forgotten, pending>>
  /\ UNCHANGED taken

Arrive == arrivals < MaxArrivals /\ arrivals' = arrivals + 1 /\ UNCHANGED restarts

\* aincore_sendTransaction: the answer is "sent" whether or not the mempool admits it,
\* and nothing is sent to another node.
SendTransaction(x) == Arrive /\ add_transaction(x)

\* The libp2p loop hands on what starts with either prefix, the prefix included.
GossipMessage(x) == Arrive /\ add_transaction(x)

\* The handler of TCP messages knows the prefix TX: alone.
TcpMessage(x) == Arrive /\ x.prefix = "TX:" /\ add_transaction(x)

\* try_create_vertex takes up to PayloadLimit transactions; they are gone from the
\* queue whatever becomes of the vertex.
TakePayload ==
  LET n == IF Len(pending) < PayloadLimit THEN Len(pending) ELSE PayloadLimit IN
  /\ taken' = [x \in Texts |-> taken[x] + IF \E i \in 1..n : pending[i] = x THEN 1 ELSE 0]
  /\ pending' = SubSeq(pending, n + 1, Len(pending))
  /\ UNCHANGED <<seen, forgotten, arrivals, restarts>>

\* The pool is in memory: a new process starts with none, and counts from nothing.
Restart ==
  /\ restarts < MaxRestarts /\ restarts' = restarts + 1
  /\ pending' = <<>> /\ seen' = <<>>
  /\ taken' = [x \in Texts |-> 0] /\ forgotten' = [x \in Texts |-> 0]
  /\ UNCHANGED arrivals

PoolInit ==
  /\ pending = <<>> /\ seen = <<>>
  /\ taken = [x \in Texts |-> 0] /\ forgotten = [x \in Texts |-> 0]
  /\ arrivals = 0 /\ restarts = 0

PoolNext ==
  \/ \E x \in Texts : SendTransaction(x) \/ GossipMessage(x) \/ TcpMessage(x)
  \/ TakePayload
  \/ Restart

PoolSpec == PoolInit /\ [][PoolNext]_poolVars

----------------------------------------------------------------------------
(* Properties. *)

PoolTypeOK ==
  /\ pending \in Seq(Texts) /\ seen \in Seq(Texts)
  /\ taken \in [Texts -> Nat] /\ forgotten \in [Texts -> Nat]
  /\ arrivals \in Nat /\ restarts \in Nat

\* What waits is the newest part of what is remembered, each text once: the record
\* never drops a transaction that still waits, whatever order things happen in.
PendingIsRemembered ==
  /\ Len(pending) <= Len(seen) /\ Len(seen) <= MAX_SEEN_TXS
  /\ \A i \in 1..Len(pending) : pending[i] = seen[Len(seen) - Len(pending) + i]
  /\ \A i, j \in 1..Len(seen) : seen[i] = seen[j] => i = j

\* Every text was handed out, or waits, as often as it was dropped from the record, or is in it.
RecordAddsUp ==
  \A x \in Texts : taken[x] + (IF x \in Elems(pending) THEN 1 ELSE 0)
                     = forgotten[x] + (IF x \in Elems(seen) THEN 1 ELSE 0)

\* A process hands a transaction to a vertex again only after it has dropped it from
\* its record in between.
TakenAgainOnlyIfForgotten == \A x \in Texts : taken[x] <= forgotten[x] + 1

PoolInv == PoolTypeOK /\ PendingIsRemembered /\ RecordAddsUp
=============================================================================

----------------------------- MODULE BlockExecutor -----------------------------
(***************************************************************************)
(* Executor::execute_block_parallel (core/executor/src/lib.rs): a block is *)
(* cut into batches, the transactions of a batch run side by side on the   *)
(* committed state, their writes are merged and put at once, then the fees *)
(* are paid and up to five pending slashes carried out.                    *)
(*                                                                         *)
(* One block runs at a time (BLOCK_EXECUTION_LOCK), on the thread of the   *)
(* consensus or on that of an import.  While an import runs one, the       *)
(* consensus goes on and queues slashes.  A stored coin balance stands for *)
(* the charges it includes.  Whether the Move VM lets a charge, a transfer *)
(* or a registration through is its affair and left open here.             *)
(***************************************************************************)
EXTENDS Integers, Sequences, FiniteSets

CONSTANTS
  Accounts,         \* addresses, spelt as the executor derives them
  Names,            \* every spelling of an address in a payload
  AddressOf,        \* the address the Move VM reads from a spelling
  ValidatorSet,     \* the key of the resource staking::ValidatorSet
  Txs,              \* the signed transactions there are
  Blocks,           \* the blocks that are executed, after parsing
  Federation,       \* the account that must not transfer
  Founders,         \* validators of the genesis
  Rank,             \* the order of the keys sys:pending_slash:<address>
  InitialWeight,    \* 100 in the code
  SlashesPerBlock,  \* 5 in the code
  BurnPercent,      \* 10 in the code
  GasCost,          \* what one transaction pays
  Rounds,           \* rounds that validators are accused for
  MaxBlocks,        \* bound: blocks with transactions
  MaxEvents,        \* bound: blocks with transactions and accusations, together
  MaxCrashes        \* bound: crashes

\* "other": the payloads that write no coin of the chain, or that the VM always refuses.
Kinds == {"transfer", "register_validator", "submit_proof", "other"}
Keys  == Accounts \cup {ValidatorSet}

ASSUME AccountsAssumption ==
  /\ Accounts \subseteq Names /\ ValidatorSet \notin Names
  /\ AddressOf \in [Names -> Accounts] /\ \A a \in Accounts : AddressOf[a] = a
  /\ Founders \subseteq Accounts
  /\ Rank \in [Accounts -> Nat] /\ \A a, b \in Accounts : Rank[a] = Rank[b] => a = b

ASSUME TxsAssumption ==
  /\ Txs \subseteq [sender : Accounts, number : Nat, kind : Kinds, to : Names, inputs : SUBSET Names]
  /\ Blocks \subseteq Seq(Txs) /\ <<>> \in Blocks

ASSUME BoundsAssumption ==
  /\ InitialWeight \in Nat \ {0} /\ SlashesPerBlock \in Nat \ {0}
  /\ BurnPercent \in 0..100 /\ GasCost \in Nat
  /\ Rounds \subseteq Nat \ {0}
  /\ MaxBlocks \in Nat /\ MaxEvents \in Nat /\ MaxCrashes \in Nat

VARIABLES
  nonce,        \* disk: AccountData.sequence_number
  store,        \* disk: the charges each stored balance, or the ValidatorSet, includes
  weights,      \* disk: sys:validators
  pending,      \* disk: the round of sys:pending_slash:<address>, 0 for none
  jailed,       \* disk: validator:jailed:<address>
  slashed,      \* disk: tombstones sys:slashed:<address>:<round>
  rewards,      \* disk: fees credited to proposers, or queued for the sweep
  owner,        \* the thread that executes a block
  at,           \* where it is
  block,        \* its block
  next,         \* the first transaction of it not executed yet
  fees,         \* total_fees
  due,          \* the slashes it has taken from the queue
  event,        \* the one it is carrying out
  accusing,     \* what the consensus has still to put of an accusation
  applied,      \* history: the transactions that took effect, and where
  started,      \* history: blocks with transactions so far
  accused,      \* history: accusations so far
  interrupted,  \* history: validators whose slash a crash cut off after the weight was put
  crashes       \* history

accounts  == <<nonce, store, applied>>
slashVars == <<pending, jailed, slashed, interrupted>>
memory    == <<owner, at, block, next, fees, due, event>>
vars      == <<accounts, weights, slashVars, rewards, memory, accusing, started, accused, crashes>>

NoEvent == [validator |-> "none", round |-> 0]
Event   == [validator : Accounts, round : Rounds]
Idle    == [validator |-> "none", round |-> 0, put |-> "none"]

Init ==
  /\ nonce = [a \in Accounts |-> 0] /\ store = [k \in Keys |-> {}]
  /\ weights = [v \in Founders |-> InitialWeight]
  /\ pending = [a \in Accounts |-> 0] /\ jailed = {} /\ slashed = {} /\ rewards = 0
  /\ owner = "nobody" /\ at = "idle" /\ block = <<>> /\ next = 1 /\ fees = 0
  /\ due = {} /\ event = NoEvent /\ accusing = Idle
  /\ applied = {} /\ started = 0 /\ accused = 0 /\ interrupted = {} /\ crashes = 0

-----------------------------------------------------------------------------
(* Batches. *)

\* Seeded fault: the sender is not among the dependencies.
DepsOfObjects(t) == t.inputs \cup IF t.kind = "transfer" THEN {t.to} ELSE {}

\* Deps(t): the names t locks: its sender, its input objects and the recipient as spelt.
Deps(t) == {t.sender} \cup t.inputs \cup IF t.kind = "transfer" THEN {t.to} ELSE {}

\* Seeded fault: only the senders are compared.
ApartSenders(m) == \A i, j \in next..m : i # j => block[i].sender # block[j].sender

\* Apart(m): no two of the transactions from next to m lock the same name.
Apart(m) == \A i, j \in next..m : i # j => Deps(block[i]) \cap Deps(block[j]) = {}

\* EndsBatch(m): the scheduler closes the batch after m, because the block ends or the
\* transaction behind it conflicts with one inside.
EndsBatch(m) == m \in next..Len(block) /\ Apart(m) /\ (m < Len(block) => ~Apart(m + 1))

\* Touched(t): the keys a payload writes when the VM lets it through.
Touched(t) ==
  CASE t.kind = "transfer"           -> {t.sender, AddressOf[t.to]}
    [] t.kind = "register_validator" -> {t.sender, ValidatorSet}
    [] OTHER                         -> {t.sender}

\* MayPass(t): the checks of execute_transaction, of the state before the batch.  The
\* genesis lock returns after the gas was deducted in the list of updates only.
MayPass(t) ==
  /\ t.number = nonce[t.sender]
  /\ ~(t.kind = "transfer" /\ t.sender = Federation)

Latest(S) == {i \in S : \A j \in S : j <= i}

\* Writers(k, passed, done): the transactions of a batch that write key k: those whose
\* payload ran, and, to their sender's balance only, those that were charged for it.
Writers(k, passed, done) ==
  {i \in passed : k = block[i].sender \/ (i \in done /\ k \in Touched(block[i]))}

\* Mark(i, done): what a write of i adds.  The payload runs on the committed balance, and
\* its write replaces the one that deducts the gas.
Mark(i, done) == [tx |-> block[i], part |-> IF i \in done THEN "payload" ELSE "gas"]

\* Merge(passed, done): the write batch; the last writer of a key wins.
Merge(passed, done) ==
  store' = [k \in Keys |-> store[k] \cup {Mark(i, done) : i \in Latest(Writers(k, passed, done))}]

\* Joining(done): the registration whose copy of sys:validators is the last to be merged.
Joining(done) ==
  {block[i].sender : i \in Latest({j \in done : /\ block[j].kind = "register_validator"
                                                /\ block[j].sender \notin DOMAIN weights})}

\* RunBatch: the transactions in passed have their gas deducted, those in done run their
\* payload too; the others return None and leave nothing behind.
RunBatch ==
  /\ at = "batches"
  /\ \E m \in next..Len(block) :
       /\ EndsBatch(m)
       /\ next' = m + 1
       /\ \E passed \in SUBSET {i \in next..m : MayPass(block[i])} :
          \E done \in SUBSET {i \in passed : block[i].kind # "other"} :
            /\ nonce' = [a \in Accounts |-> IF \E i \in passed : block[i].sender = a
                                              THEN nonce[a] + 1 ELSE nonce[a]]
            /\ Merge(passed, done)
            /\ weights' = [v \in DOMAIN weights \cup Joining(done) |->
                             IF v \in DOMAIN weights THEN weights[v] ELSE InitialWeight]
            /\ fees' = fees + GasCost * Cardinality(passed)
            /\ applied' = applied \cup
                 {[tx |-> block[i], block |-> started, place |-> i] : i \in passed}
  /\ UNCHANGED <<slashVars, rewards, owner, at, block, due, event, accusing, started, accused, crashes>>

-----------------------------------------------------------------------------
(* A block, and its fees. *)

Threads == {"consensus", "import"}

\* StartBlock(o, b): thread o has the lock.  The consensus is then not accusing anybody.
\* It runs a block for every round it commits, with transactions or without.
StartBlock(o, b) ==
  /\ at = "idle" /\ (o = "consensus" => accusing = Idle)
  /\ b # <<>> => started < MaxBlocks /\ started + accused < MaxEvents
  /\ owner' = o /\ at' = "batches" /\ block' = b /\ next' = 1
  /\ started' = started + IF b = <<>> THEN 0 ELSE 1
  /\ UNCHANGED <<accounts, weights, slashVars, rewards, fees, due, event, accusing, accused, crashes>>

\* Seeded fault: the fees are handed out and kept.
KeepFees ==
  /\ at = "batches" /\ next > Len(block)
  /\ rewards' = rewards + (fees - (fees * BurnPercent) \div 100)
  /\ at' = "scan" /\ block' = <<>> /\ next' = 1
  /\ UNCHANGED <<accounts, weights, slashVars, owner, fees, due, event, accusing, started, accused,
                 crashes>>

\* PayFees: the fees that are not burnt go to the proposer, through the VM or, after three
\* attempts, to the sweep queue.  The block is done with.
PayFees ==
  /\ at = "batches" /\ next > Len(block)
  /\ rewards' = rewards + (fees - (fees * BurnPercent) \div 100)
  /\ at' = "scan" /\ block' = <<>> /\ next' = 1 /\ fees' = 0
  /\ UNCHANGED <<accounts, weights, slashVars, owner, due, event, accusing,
                 started, accused, crashes>>

-----------------------------------------------------------------------------
(* execute_pending_slashes. *)

Queued == {v \in Accounts : pending[v] # 0}

\* Scan: the first keys of the queue, with the events they hold now.
Scan ==
  /\ at = "scan"
  /\ due' = {[validator |-> v, round |-> pending[v]] : v \in
              {v \in Queued : Cardinality({w \in Queued : Rank[w] < Rank[v]}) < SlashesPerBlock}}
  /\ at' = "next"
  /\ UNCHANGED <<accounts, weights, slashVars, rewards, owner, block, next, fees, event, accusing,
                 started, accused, crashes>>

First(e) == \A d \in due : Rank[e.validator] <= Rank[d.validator]

\* Seeded fault: the tombstone is not looked at.
TakeAnyEvent(e) ==
  /\ at = "next" /\ e \in due /\ First(e)
  /\ event' = e /\ due' = due \ {e} /\ at' = "cut"
  /\ UNCHANGED <<accounts, weights, slashVars, rewards, owner, block, next, fees, accusing,
                 started, accused, crashes>>

\* TakeEvent(e): an event with a tombstone is only deleted.  The VM call that follows for
\* the others fails: staking::slash_validator is no entry function.
TakeEvent(e) ==
  /\ at = "next" /\ e \in due /\ First(e)
  /\ event' = e /\ due' = due \ {e}
  /\ at' = IF <<e.validator, e.round>> \in slashed THEN "clear" ELSE "cut"
  /\ UNCHANGED <<accounts, weights, slashVars, rewards, owner, block, next, fees, accusing,
                 started, accused, crashes>>

Reduced(w) == (w * 95) \div 100

\* Seeded fault: a validator without weight stays in the list.
CutToZero ==
  /\ at = "cut"
  /\ LET v == event.validator
     IN  weights' = [u \in DOMAIN weights |-> IF u = v THEN Reduced(weights[u]) ELSE weights[u]]
  /\ at' = "mark"
  /\ UNCHANGED <<accounts, slashVars, rewards, owner, block, next, fees, due, event, accusing,
                 started, accused, crashes>>

\* Seeded fault: no tombstone is put for a validator that is not in the list.
CutListedOnly ==
  /\ at = "cut"
  /\ LET v == event.validator
     IN  weights' = [u \in {u \in DOMAIN weights : u = v => Reduced(weights[u]) > 0} |->
                       IF u = v THEN Reduced(weights[u]) ELSE weights[u]]
  /\ at' = IF event.validator \in DOMAIN weights THEN "mark" ELSE "clear"
  /\ UNCHANGED <<accounts, slashVars, rewards, owner, block, next, fees, due, event, accusing,
                 started, accused, crashes>>

\* CutWeight: the weight in sys:validators, or the validator once nothing is left of it.  The
\* reason that would take all of it, "equivocation", is queued by nobody.
CutWeight ==
  /\ at = "cut"
  /\ LET v == event.validator
     IN  weights' = [u \in {u \in DOMAIN weights : u = v => Reduced(weights[u]) > 0} |->
                       IF u = v THEN Reduced(weights[u]) ELSE weights[u]]
  /\ at' = "mark"
  /\ UNCHANGED <<accounts, slashVars, rewards, owner, block, next, fees, due, event, accusing,
                 started, accused, crashes>>

MarkSlashed ==
  /\ at = "mark"
  /\ slashed' = slashed \cup {<<event.validator, event.round>>}
  /\ at' = "clear"
  /\ UNCHANGED <<accounts, weights, pending, jailed, interrupted, rewards, owner, block, next, fees,
                 due, event, accusing, started, accused, crashes>>

\* Seeded fault: the entry of the queue is not deleted.
ClearNothing ==
  /\ at = "clear"
  /\ at' = "next" /\ event' = NoEvent
  /\ UNCHANGED <<accounts, weights, slashVars, rewards, owner, block, next, fees, due, accusing,
                 started, accused, crashes>>

\* ClearSlash: the key is deleted, whatever it holds by now.
ClearSlash ==
  /\ at = "clear"
  /\ pending' = [pending EXCEPT ![event.validator] = 0]
  /\ at' = "next" /\ event' = NoEvent
  /\ UNCHANGED <<accounts, weights, jailed, slashed, interrupted, rewards, owner, block, next, fees,
                 due, accusing, started, accused, crashes>>

EndBlock ==
  /\ at = "next" /\ due = {}
  /\ at' = "idle" /\ owner' = "nobody"
  /\ UNCHANGED <<accounts, weights, slashVars, rewards, block, next, fees, due, event, accusing, started,
                 accused, crashes>>

-----------------------------------------------------------------------------
(* The consensus accuses (consensus/src/dag.rs). *)

Accusing(v) == owner # "consensus" /\ accusing = Idle /\ started + accused < MaxEvents /\ v \in DOMAIN weights

\* Downtime(v, r): a validator that has been silent is jailed first, and queued then.
Downtime(v, r) ==
  /\ Accusing(v) /\ v \notin jailed
  /\ jailed' = jailed \cup {v}
  /\ accusing' = [validator |-> v, round |-> r, put |-> "slash"]
  /\ accused' = accused + 1
  /\ UNCHANGED <<accounts, weights, pending, slashed, interrupted, rewards, memory, started, crashes>>

\* DoubleSign(v, r): a second vertex of a slot, again each time it arrives, is queued
\* first, and its author jailed then.
DoubleSign(v, r) ==
  /\ Accusing(v)
  /\ pending' = [pending EXCEPT ![v] = r]
  /\ accusing' = [validator |-> v, round |-> r, put |-> "jail"]
  /\ accused' = accused + 1
  /\ UNCHANGED <<accounts, weights, jailed, slashed, interrupted, rewards, memory, started, crashes>>

PutSlash ==
  /\ accusing.put = "slash"
  /\ pending' = [pending EXCEPT ![accusing.validator] = accusing.round]
  /\ accusing' = Idle
  /\ UNCHANGED <<accounts, weights, jailed, slashed, interrupted, rewards, memory, started, accused,
                 crashes>>

PutJail ==
  /\ accusing.put = "jail"
  /\ jailed' = jailed \cup {accusing.validator}
  /\ accusing' = Idle
  /\ UNCHANGED <<accounts, weights, pending, slashed, interrupted, rewards, memory, started, accused,
                 crashes>>

\* Crash: what is in memory is gone, what has been put stays.
Crash ==
  /\ crashes < MaxCrashes /\ (at # "idle" \/ accusing # Idle)
  /\ owner' = "nobody" /\ at' = "idle" /\ block' = <<>> /\ next' = 1 /\ fees' = 0
  /\ due' = {} /\ event' = NoEvent /\ accusing' = Idle
  /\ interrupted' = interrupted \cup IF at = "mark" THEN {event.validator} ELSE {}
  /\ crashes' = crashes + 1
  /\ UNCHANGED <<accounts, weights, pending, jailed, slashed, rewards, started, accused>>

Execute == \/ RunBatch \/ PayFees \/ Scan \/ (\E e \in due : TakeEvent(e))
           \/ CutWeight \/ MarkSlashed \/ ClearSlash \/ EndBlock
Accuse  == PutSlash \/ PutJail \/ \E v \in Accounts, r \in Rounds : Downtime(v, r) \/ DoubleSign(v, r)

Next == \/ \E o \in Threads, b \in Blocks : StartBlock(o, b)
        \/ Execute \/ Accuse \/ Crash

\* The consensus goes on committing rounds, and a block that has been started is executed
\* to its end unless the node stops.
Fairness == WF_vars(StartBlock("consensus", <<>>)) /\ WF_vars(Execute) /\ WF_vars(PutSlash \/ PutJail)

Spec     == Init /\ [][Next]_vars
FairSpec == Spec /\ Fairness

-----------------------------------------------------------------------------
(* Properties. *)

Occurrence == [tx : Txs, block : 0..MaxBlocks, place : Nat]
Marks      == [tx : Txs, part : {"gas", "payload"}]

TypeOK ==
  /\ nonce \in [Accounts -> Nat] /\ store \in [Keys -> SUBSET Marks] /\ applied \subseteq Occurrence
  /\ DOMAIN weights \subseteq Accounts /\ \A v \in DOMAIN weights : weights[v] \in 1..InitialWeight
  /\ pending \in [Accounts -> Rounds \cup {0}]
  /\ jailed \subseteq Accounts /\ slashed \subseteq Accounts \X Rounds /\ interrupted \subseteq Accounts
  /\ rewards \in Nat /\ fees \in Nat
  /\ owner \in Threads \cup {"nobody"} /\ (owner = "nobody" <=> at = "idle")
  /\ at \in {"idle", "batches", "scan", "next", "cut", "mark", "clear"}
  /\ block \in Blocks /\ next \in Nat \ {0} /\ (at = "batches" => next <= Len(block) + 1)
  /\ due \subseteq Event /\ (at \in {"cut", "mark", "clear"} => event \in Event)
  /\ event \in Event \cup {NoEvent}
  /\ accusing \in [validator : Accounts, round : Rounds, put : {"slash", "jail"}] \cup {Idle}
  /\ started \in 0..MaxBlocks /\ accused \in Nat /\ started + accused <= MaxEvents /\ crashes \in 0..MaxCrashes

\* EffectOnce: however a block is cut into batches, executed again after a crash or handed
\* over by a second thread, the transactions of an account take effect under the numbers
\* 0, 1, ..., each number once (execute_transaction's replay protection reads the state
\* before the batch, so it rests on the scheduler).
EffectOnce ==
  /\ \A o, p \in applied : o.tx.sender = p.tx.sender /\ o.tx.number = p.tx.number => o = p
  /\ \A o \in applied : o.tx.number < nonce[o.tx.sender]
  /\ \A a \in Accounts : \A k \in 0..nonce[a] - 1 :
       \E o \in applied : o.tx.sender = a /\ o.tx.number = k

\* Undeclared(t): the keys t may write without having locked them.
Undeclared(t) == Touched(t) \ Deps(t)

Ran(t) == {k \in Keys : [tx |-> t, part |-> "payload"] \in store[k]}

\* EffectsStay: a payload that took effect is in every balance it touches, except where a
\* transaction wrote a key that it had not locked: the batches of the scheduler lose no
\* other write, although their transactions run on the same state.
EffectsStay ==
  \A t \in Txs : Ran(t) # {} =>
    \A k \in Touched(t) : \/ k \in Ran(t)
                          \/ \E o \in applied : k \in Undeclared(o.tx)

\* ParallelIsSerial: a payload that took effect is in every balance it touches, as if the
\* transactions had run one after the other (executor/src/lib.rs:73, "group
\* non-conflicting transactions").
ParallelIsSerial == \A t \in Txs : Ran(t) # {} => Touched(t) \subseteq Ran(t)

\* FeesFromGas: proposers are paid, over all blocks and crashes, what transactions that
\* took effect were to pay and no more (executor/src/lib.rs:23).
FeesFromGas ==
  rewards + fees <= GasCost * Cardinality(applied)

\* WeightAfter[k]: what k slashes leave of the first weight.
WeightAfter[k \in Nat] == IF k = 0 THEN InitialWeight ELSE Reduced(WeightAfter[k - 1])

\* SlashedOnce: every weight has been cut once for each tombstone of its validator, however
\* often it was accused for the same round, unless a crash came between the weight and the
\* tombstone (executor/src/lib.rs:382, "Tombstone check for replay protection").  Said of
\* validators of the genesis that have not registered since.
Registered  == {o.tx.sender : o \in {p \in applied : p.tx.kind = "register_validator"}}
SlashedOnce ==
  \A v \in Founders \ (interrupted \cup Registered) :
    LET k == Cardinality({e \in slashed : e[1] = v})
                + IF at = "mark" /\ event.validator = v THEN 1 ELSE 0
    IN  IF WeightAfter[k] > 0 THEN v \in DOMAIN weights /\ weights[v] = WeightAfter[k]
                              ELSE v \notin DOMAIN weights

\* QueueKept: what is queued against a validator leaves the queue when it has been carried
\* out, replaced by another accusation, or queued while an earlier one of the same
\* validator was being carried out.
QueueKept ==
  [][\A v \in Accounts : pending[v] # 0 /\ pending'[v] # pending[v] =>
       \/ <<v, pending[v]>> \in slashed
       \/ pending'[v] # 0
       \/ event.validator = v /\ event.round # pending[v]]_vars

\* QueueDrains: no validator stays in the queue for ever, although a block takes only
\* SlashesPerBlock of them, in the order of their keys.
QueueDrains == \A v \in Founders : []<>(v \notin Queued)

=============================================================================

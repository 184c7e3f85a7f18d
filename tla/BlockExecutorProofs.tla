-------------------------- MODULE BlockExecutorProofs --------------------------
(***************************************************************************)
(* Proofs about BlockExecutor, for any accounts, transactions, blocks,     *)
(* fees, slashes and crashes.                                              *)
(***************************************************************************)
EXTENDS BlockExecutor, SumTheorems, FiniteSetTheorems, TLAPS

-----------------------------------------------------------------------------
(* Arithmetic. *)

\* The part of the fees that is burnt is a part of them.
LEMMA BurntPart ==
  ASSUME NEW f \in Nat
  PROVE  /\ f - (f * BurnPercent) \div 100 \in Nat
         /\ f - (f * BurnPercent) \div 100 <= f
<1>1. BurnPercent \in 0..100
  BY BoundsAssumption
<1> DEFINE x == f * BurnPercent
<1>2. x \in Nat /\ x <= 100 * f
  BY <1>1
<1> HIDE DEF x
<1>3. x \div 100 \in 0..f
  BY <1>2
<1> QED BY <1>3 DEF x

\* A cut weight is no larger than before.
LEMMA ReducedWeight ==
  ASSUME NEW w \in Nat
  PROVE  Reduced(w) \in 0..w
BY DEF Reduced

-----------------------------------------------------------------------------
(* One batch. *)

\* What the batch from next to m, of which passed took effect, adds to applied.
Added(passed) == {[tx |-> block[i], block |-> started, place |-> i] : i \in passed}

\* The two choices of RunBatch.
BatchOf(m, passed, done) ==
  /\ at = "batches" /\ EndsBatch(m) /\ next' = m + 1
  /\ passed \in SUBSET {i \in next..m : MayPass(block[i])}
  /\ done \in SUBSET {i \in passed : block[i].kind # "other"}
  /\ nonce' = [a \in Accounts |-> IF \E i \in passed : block[i].sender = a
                                    THEN nonce[a] + 1 ELSE nonce[a]]
  /\ Merge(passed, done)
  /\ weights' = [v \in DOMAIN weights \cup Joining(done) |->
                   IF v \in DOMAIN weights THEN weights[v] ELSE InitialWeight]
  /\ fees' = fees + GasCost * Cardinality(passed)
  /\ applied' = applied \cup Added(passed)
  /\ UNCHANGED <<slashVars, rewards, owner, at, block, due, event, accusing, started, accused, crashes>>

\* RunBatch is a batch for some choice.
LEMMA BatchChosen ==
  ASSUME RunBatch
  PROVE  \E m, passed, done : BatchOf(m, passed, done)
BY DEF RunBatch, BatchOf, Added

\* The places of a batch are places of the block, and a finite number of them pass.
LEMMA PlacesOfBatch ==
  ASSUME TypeOK, NEW m, NEW passed, NEW done, BatchOf(m, passed, done)
  PROVE  /\ m \in Nat /\ next \in Nat /\ m <= Len(block) /\ next <= m
         /\ passed \subseteq next..m /\ done \subseteq passed
         /\ \A i \in passed : i \in Nat /\ block[i] \in Txs /\ MayPass(block[i])
         /\ IsFiniteSet(passed) /\ Cardinality(passed) \in Nat
<1>1. next \in Nat /\ block \in Seq(Txs)
  BY TxsAssumption DEF TypeOK
<1>2. Len(block) \in Nat /\ \A i \in 1..Len(block) : block[i] \in Txs
  BY <1>1
<1>3. m \in next..Len(block)
  BY DEF BatchOf, EndsBatch
<1>4. passed \subseteq next..m /\ done \subseteq passed
  BY DEF BatchOf
<1>5. next >= 1
  BY DEF TypeOK
<1>6. \A i \in passed : i \in Nat /\ block[i] \in Txs /\ MayPass(block[i])
  BY <1>1, <1>2, <1>3, <1>4, <1>5 DEF BatchOf
<1>7. IsFiniteSet(passed)
  <2>1. next \in Int /\ m \in Int
    BY <1>1, <1>2, <1>3
  <2>2. IsFiniteSet(next..m)
    BY <2>1, FS_Interval
  <2> QED BY <1>4, <2>2, FS_Subset
<1>8. Cardinality(passed) \in Nat
  BY <1>7, FS_CardinalityType
<1> QED BY <1>1, <1>2, <1>3, <1>4, <1>6, <1>7, <1>8

\* What the transactions of a batch lock is disjoint; so are their senders.
LEMMA LocksAreDisjoint ==
  ASSUME NEW m, NEW passed, NEW done, BatchOf(m, passed, done), passed \subseteq next..m,
         NEW i \in passed, NEW j \in passed, i # j
  PROVE  /\ Deps(block[i]) \cap Deps(block[j]) = {}
         /\ block[i].sender # block[j].sender
<1>1. Deps(block[i]) \cap Deps(block[j]) = {}
  BY DEF BatchOf, EndsBatch, Apart
<1>2. block[i].sender \in Deps(block[i]) /\ block[j].sender \in Deps(block[j])
  BY DEF Deps
<1> QED BY <1>1, <1>2

-----------------------------------------------------------------------------
(* Types. *)

\* A stuttering step keeps the types.
LEMMA UnchangedTypes ==
  ASSUME TypeOK, UNCHANGED vars
  PROVE  TypeOK'
BY DEF TypeOK, vars, accounts, slashVars, memory

\* What transactions leave: the keys hold marks, and the weights of who joins are whole.
LEMMA BatchTypes ==
  ASSUME TypeOK, NEW m, NEW passed, NEW done, BatchOf(m, passed, done)
  PROVE  TypeOK'
<1>1. /\ m \in Nat /\ next \in Nat /\ m <= Len(block) /\ next <= m
      /\ passed \subseteq next..m /\ done \subseteq passed
      /\ \A i \in passed : i \in Nat /\ block[i] \in Txs
      /\ Cardinality(passed) \in Nat
  BY PlacesOfBatch
<1>2. \A i \in passed : block[i].sender \in Accounts
  BY <1>1, TxsAssumption
<1>3. nonce' \in [Accounts -> Nat]
  BY DEF TypeOK, BatchOf
<1>4. store' \in [Keys -> SUBSET Marks]
  <2>1. ASSUME NEW k, NEW i \in Latest(Writers(k, passed, done))
        PROVE  Mark(i, done) \in Marks
    <3>1. i \in passed
      BY DEF Latest, Writers
    <3> QED BY <1>1, <3>1 DEF Mark, Marks
  <2>2. \A k \in Keys : store[k] \subseteq Marks
    BY DEF TypeOK
  <2> QED BY <2>1, <2>2 DEF BatchOf, Merge
<1>5. applied' \subseteq Occurrence
  <2>1. Added(passed) \subseteq Occurrence
    BY <1>1 DEF Added, Occurrence, TypeOK
  <2> QED BY <2>1 DEF TypeOK, BatchOf
<1>6. DOMAIN weights' \subseteq Accounts /\ \A v \in DOMAIN weights' : weights'[v] \in 1..InitialWeight
  <2>1. Joining(done) \subseteq Accounts
    BY <1>1, <1>2 DEF Joining, Latest
  <2>2. InitialWeight \in 1..InitialWeight
    BY BoundsAssumption
  <2> QED BY <2>1, <2>2 DEF TypeOK, BatchOf
<1>7. fees' \in Nat
  <2>1. GasCost \in Nat /\ GasCost * Cardinality(passed) \in Nat
    BY <1>1, BoundsAssumption
  <2>2. fees \in Nat /\ fees' = fees + GasCost * Cardinality(passed)
    BY DEF TypeOK, BatchOf
  <2> QED BY ONLY <2>1, <2>2
<1>8. next' \in Nat \ {0} /\ next' <= Len(block') + 1
  <2>1. block' = block /\ next' = m + 1
    BY DEF BatchOf
  <2>2. Len(block) \in Nat
    BY TxsAssumption DEF TypeOK
  <2> QED BY <1>1, <2>1, <2>2
<1> QED BY <1>3, <1>4, <1>5, <1>6, <1>7, <1>8 DEF TypeOK, BatchOf, slashVars

\* The weights that a slash leaves.
LEMMA CutTypes ==
  ASSUME TypeOK, CutWeight
  PROVE  TypeOK'
<1>1. \A v \in DOMAIN weights : weights[v] \in Nat /\ weights[v] <= InitialWeight
  BY BoundsAssumption DEF TypeOK
<1>2. \A v \in DOMAIN weights : Reduced(weights[v]) \in Nat /\ Reduced(weights[v]) <= InitialWeight
  BY <1>1, ReducedWeight, BoundsAssumption
<1>3. DOMAIN weights' \subseteq Accounts /\ \A v \in DOMAIN weights' : weights'[v] \in 1..InitialWeight
  BY <1>2 DEF TypeOK, CutWeight
<1> QED BY <1>3 DEF TypeOK, CutWeight, accounts, slashVars

\* The steps that put something against a validator.
LEMMA AccuseTypes ==
  ASSUME TypeOK, Accuse
  PROVE  TypeOK'
<1> USE DEF TypeOK, accounts, slashVars, memory
<1>1. ASSUME NEW v \in Accounts, NEW r \in Rounds, Downtime(v, r)
      PROVE  TypeOK'
  BY <1>1, BoundsAssumption DEF Downtime, Accusing
<1>2. ASSUME NEW v \in Accounts, NEW r \in Rounds, DoubleSign(v, r)
      PROVE  TypeOK'
  BY <1>2, BoundsAssumption DEF DoubleSign, Accusing
<1>3. accusing.put # "none" => accusing.validator \in Accounts /\ accusing.round \in Rounds
  BY DEF Idle
<1>4. CASE PutSlash
  BY <1>3, <1>4 DEF PutSlash
<1>5. CASE PutJail
  BY <1>3, <1>5 DEF PutJail
<1> QED BY <1>1, <1>2, <1>4, <1>5 DEF Accuse

\* TypeCorrect: accounts, slashes, weights between 1 and the first weight, the lock held
\* exactly while a block is executed.
THEOREM TypeCorrect == Spec => []TypeOK
<1>1. Init => TypeOK
  <2> SUFFICES ASSUME Init PROVE TypeOK
    OBVIOUS
  <2>1. InitialWeight \in 1..InitialWeight
    BY BoundsAssumption
  <2>2. Len(block) \in Nat /\ block \in Blocks
    BY TxsAssumption DEF Init
  <2> QED BY <2>1, <2>2, AccountsAssumption, BoundsAssumption DEF Init, TypeOK
<1>2. TypeOK /\ [Next]_vars => TypeOK'
  <2> SUFFICES ASSUME TypeOK, [Next]_vars PROVE TypeOK'
    OBVIOUS
  <2>1. ASSUME NEW o \in Threads, NEW b \in Blocks, StartBlock(o, b) PROVE TypeOK'
    <3>1. Len(b) \in Nat
      BY TxsAssumption
    <3> QED BY <2>1, <3>1, BoundsAssumption DEF StartBlock, TypeOK, accounts, slashVars, Threads
  <2>2. CASE RunBatch
    BY <2>2, BatchChosen, BatchTypes
  <2>3. CASE PayFees
    <3>1. rewards \in Nat /\ fees \in Nat
      BY DEF TypeOK
    <3> DEFINE paid == fees - (fees * BurnPercent) \div 100
    <3>2. paid \in Nat
      BY <3>1, BurntPart
    <3>3. rewards' = rewards + paid
      BY <2>3 DEF PayFees
    <3> HIDE DEF paid
    <3>4. rewards' \in Nat
      BY <3>1, <3>2, <3>3
    <3> QED BY <2>3, <3>4, TxsAssumption DEF PayFees, TypeOK, accounts, slashVars
  <2>4. CASE Scan
    <3>1. \A v \in Queued : [validator |-> v, round |-> pending[v]] \in Event
      BY DEF Queued, Event, TypeOK
    <3>2. \A e \in due' : \E v \in Queued : e = [validator |-> v, round |-> pending[v]]
      BY <2>4 DEF Scan
    <3>3. due' \subseteq Event
      BY <3>1, <3>2
    <3> QED BY <2>4, <3>3 DEF Scan, TypeOK, accounts, slashVars
  <2>5. ASSUME NEW e \in due, TakeEvent(e) PROVE TypeOK'
    <3>1. e \in Event
      BY DEF TypeOK
    <3> QED BY <2>5, <3>1 DEF TakeEvent, TypeOK, accounts, slashVars
  <2>6. CASE CutWeight
    BY <2>6, CutTypes
  <2>7. CASE MarkSlashed
    <3>1. <<event.validator, event.round>> \in Accounts \X Rounds
      BY <2>7 DEF MarkSlashed, TypeOK, Event
    <3> QED BY <2>7, <3>1 DEF MarkSlashed, TypeOK, accounts
  <2>8. CASE ClearSlash
    BY <2>8 DEF ClearSlash, TypeOK, accounts
  <2>9. CASE EndBlock
    BY <2>9 DEF EndBlock, TypeOK, accounts, slashVars
  <2>10. CASE Accuse
    BY <2>10, AccuseTypes
  <2>11. CASE Crash
    <3>1. interrupted' \subseteq Accounts
      BY <2>11 DEF Crash, TypeOK, Event
    <3> QED BY <2>11, <3>1, TxsAssumption, BoundsAssumption DEF Crash, TypeOK, accounts
  <2>12. CASE UNCHANGED vars
    BY <2>12, UnchangedTypes
  <2> QED BY <2>1, <2>2, <2>3, <2>4, <2>5, <2>6, <2>7, <2>8, <2>9, <2>10, <2>11, <2>12
          DEF Next, Execute
<1> QED BY <1>1, <1>2, PTL DEF Spec

-----------------------------------------------------------------------------
(* Once, in the order of the numbers. *)

\* A step that is no batch leaves the accounts alone.
LEMMA OtherSteps ==
  ASSUME [Next]_vars, ~RunBatch
  PROVE  UNCHANGED <<nonce, store, applied>>
BY DEF Next, Execute, Accuse, Crash, StartBlock, PayFees, Scan, TakeEvent, CutWeight, MarkSlashed,
       ClearSlash, EndBlock, Downtime, DoubleSign, PutSlash, PutJail, vars, accounts

\* A batch lets the next number of some accounts take effect, and one for each.
LEMMA BatchCounts ==
  ASSUME TypeOK, EffectOnce, NEW m, NEW passed, NEW done, BatchOf(m, passed, done)
  PROVE  EffectOnce'
<1>1. /\ passed \subseteq next..m
      /\ \A i \in passed : block[i] \in Txs /\ block[i].number = nonce[block[i].sender]
  BY PlacesOfBatch DEF MayPass
<1>2. \A i \in passed : block[i].sender \in Accounts /\ block[i].number \in Nat
  BY <1>1, TxsAssumption
<1>3. \A i, j \in passed : block[i].sender = block[j].sender => i = j
  BY <1>1, LocksAreDisjoint
<1>4. /\ \A a \in Accounts : nonce[a] \in Nat
      /\ \A a \in Accounts : nonce'[a] = IF \E i \in passed : block[i].sender = a
                                           THEN nonce[a] + 1 ELSE nonce[a]
  BY DEF TypeOK, BatchOf
<1>5. applied' = applied \cup Added(passed)
  BY DEF BatchOf
<1>6. \A o \in Added(passed) : \E i \in passed : o = [tx |-> block[i], block |-> started, place |-> i]
  BY DEF Added
<1>7. \A o \in Added(passed) : o.tx.number = nonce[o.tx.sender] /\ o.tx.sender \in Accounts
  BY <1>1, <1>2, <1>6
<1>8. \A o \in applied : o.tx.sender \in Accounts /\ o.tx.number \in Nat /\ o.tx.number < nonce[o.tx.sender]
  BY TxsAssumption DEF TypeOK, Occurrence, EffectOnce
<1>9. \A o, p \in applied' : o.tx.sender = p.tx.sender /\ o.tx.number = p.tx.number => o = p
  <2> SUFFICES ASSUME NEW o \in applied', NEW p \in applied',
                      o.tx.sender = p.tx.sender, o.tx.number = p.tx.number
               PROVE  o = p
    OBVIOUS
  <2>1. CASE o \in applied /\ p \in applied
    BY <2>1 DEF EffectOnce
  <2>2. CASE o \in Added(passed) /\ p \in Added(passed)
    BY <1>3, <1>6, <2>2
  <2>3. CASE o \in Added(passed) /\ p \in applied
    BY <1>4, <1>7, <1>8, <2>3
  <2>4. CASE o \in applied /\ p \in Added(passed)
    BY <1>4, <1>7, <1>8, <2>4
  <2> QED BY <1>5, <2>1, <2>2, <2>3, <2>4
<1>10. \A o \in applied' : o.tx.number < nonce'[o.tx.sender]
  <2>1. \A o \in applied : o.tx.number < nonce'[o.tx.sender]
    BY <1>4, <1>8
  <2>2. \A i \in passed : block[i].number < nonce'[block[i].sender]
    BY <1>1, <1>2, <1>4
  <2>3. \A o \in Added(passed) : o.tx.number < nonce'[o.tx.sender]
    BY <1>6, <2>2
  <2> QED BY <1>5, <2>1, <2>3
<1>11. \A a \in Accounts : \A k \in 0..nonce'[a] - 1 :
         \E o \in applied' : o.tx.sender = a /\ o.tx.number = k
  <2> SUFFICES ASSUME NEW a \in Accounts, NEW k \in 0..nonce'[a] - 1
               PROVE  \E o \in applied' : o.tx.sender = a /\ o.tx.number = k
    OBVIOUS
  <2>1. CASE k \in 0..nonce[a] - 1
    BY <1>5, <2>1 DEF EffectOnce
  <2>2. CASE k \notin 0..nonce[a] - 1
    <3>1. k = nonce[a] /\ \E i \in passed : block[i].sender = a
      BY <1>4, <2>2
    <3>2. PICK i \in passed : block[i].sender = a
      BY <3>1
    <3>3. [tx |-> block[i], block |-> started, place |-> i] \in applied'
      BY <1>5 DEF Added
    <3> QED BY <1>1, <3>1, <3>2, <3>3
  <2> QED BY <2>1, <2>2
<1> QED BY <1>9, <1>10, <1>11 DEF EffectOnce

\* AccountsInOrder: EffectOnce, whatever the blocks hold and wherever a crash falls.
THEOREM AccountsInOrder == Spec => []EffectOnce
<1>1. Init => EffectOnce
  BY DEF Init, EffectOnce
<1>2. TypeOK /\ EffectOnce /\ [Next]_vars => EffectOnce'
  <2> SUFFICES ASSUME TypeOK, EffectOnce, [Next]_vars PROVE EffectOnce'
    OBVIOUS
  <2>1. CASE RunBatch
    BY <2>1, BatchChosen, BatchCounts
  <2>2. CASE ~RunBatch
    BY <2>2, OtherSteps DEF EffectOnce
  <2> QED BY <2>1, <2>2
<1> QED BY <1>1, <1>2, TypeCorrect, PTL DEF Spec

-----------------------------------------------------------------------------
(* Nothing that was locked is lost. *)

\* What a payload writes is its sender's at least.
LEMMA SenderIsTouched ==
  ASSUME NEW t \in Txs
  PROVE  t.sender \in Touched(t)
BY DEF Touched

\* Marks are added, never removed.
LEMMA MarksStay ==
  ASSUME TypeOK, NEW m, NEW passed, NEW done, BatchOf(m, passed, done), NEW k \in Keys
  PROVE  /\ store[k] \subseteq store'[k]
         /\ store'[k] = store[k] \cup {Mark(i, done) : i \in Latest(Writers(k, passed, done))}
BY DEF BatchOf, Merge

\* The batch in which a payload runs: every key it touches has its mark, or a later write of
\* the same batch, and then one of the two had not locked the key.
LEMMA BatchKeeps ==
  ASSUME TypeOK, EffectsStay, NEW m, NEW passed, NEW done, BatchOf(m, passed, done)
  PROVE  EffectsStay'
<1>1. /\ passed \subseteq next..m /\ done \subseteq passed
      /\ \A i \in passed : i \in Nat /\ block[i] \in Txs
  BY PlacesOfBatch
<1>2. applied' = applied \cup Added(passed)
  BY DEF BatchOf
<1>3. \A t : Ran(t) \subseteq Ran(t)'
  BY MarksStay DEF Ran
<1> SUFFICES ASSUME NEW t \in Txs, Ran(t)' # {}, NEW k \in Touched(t)
             PROVE  k \in Ran(t)' \/ \E o \in applied' : k \in Undeclared(o.tx)
  BY DEF EffectsStay
<1>4. CASE Ran(t) # {}
  BY <1>2, <1>3, <1>4 DEF EffectsStay
<1>5. CASE Ran(t) = {}
  <2>1. PICK i \in done : block[i] = t
    <3>1. PICK key \in Keys : [tx |-> t, part |-> "payload"] \in store'[key]
      BY DEF Ran
    <3>2. [tx |-> t, part |-> "payload"] \notin store[key]
      BY <1>5 DEF Ran
    <3>3. PICK i \in Latest(Writers(key, passed, done)) :
            [tx |-> t, part |-> "payload"] = Mark(i, done)
      BY <3>1, <3>2, MarksStay
    <3> QED BY <3>3 DEF Mark
  <2>2. i \in Writers(k, passed, done) /\ k \in Keys
    BY <1>1, <2>1, AccountsAssumption, TxsAssumption DEF Writers, Touched, Keys
  <2>3. CASE i \in Latest(Writers(k, passed, done))
    <3>1. Mark(i, done) = [tx |-> t, part |-> "payload"]
      BY <2>1 DEF Mark
    <3>2. [tx |-> t, part |-> "payload"] \in store'[k]
      BY <2>2, <2>3, <3>1, MarksStay
    <3> QED BY <2>2, <3>2 DEF Ran
  <2>4. CASE i \notin Latest(Writers(k, passed, done))
    <3>1. PICK j \in Writers(k, passed, done) : ~(j <= i)
      BY <2>2, <2>4 DEF Latest
    <3>2. j \in passed /\ i \in passed /\ i # j
      BY <1>1, <2>1, <3>1 DEF Writers
    <3>3. k \in Touched(block[j])
      BY <1>1, <3>1, <3>2, SenderIsTouched DEF Writers
    <3>4. Deps(t) \cap Deps(block[j]) = {}
      BY <1>1, <2>1, <3>2, LocksAreDisjoint
    <3>5. k \in Undeclared(t) \/ k \in Undeclared(block[j])
      BY <3>3, <3>4 DEF Undeclared
    <3> DEFINE o(l) == [tx |-> block[l], block |-> started, place |-> l]
    <3>6. o(i) \in applied' /\ o(j) \in applied'
      BY <1>2, <3>2 DEF Added
    <3>7. o(i).tx = t /\ o(j).tx = block[j]
      BY <2>1
    <3> HIDE DEF o
    <3>8. k \in Undeclared(o(i).tx) \/ k \in Undeclared(o(j).tx)
      BY <3>5, <3>7
    <3> QED BY <3>6, <3>8
  <2> QED BY <2>3, <2>4
<1> QED BY <1>4, <1>5

\* LockedEffectsStay: EffectsStay, for any transactions and any cut of the blocks.
THEOREM LockedEffectsStay == Spec => []EffectsStay
<1>1. Init => EffectsStay
  BY DEF Init, EffectsStay, Ran
<1>2. TypeOK /\ EffectsStay /\ [Next]_vars => EffectsStay'
  <2> SUFFICES ASSUME TypeOK, EffectsStay, [Next]_vars PROVE EffectsStay'
    OBVIOUS
  <2>1. CASE RunBatch
    BY <2>1, BatchChosen, BatchKeeps
  <2>2. CASE ~RunBatch
    BY <2>2, OtherSteps DEF EffectsStay, Ran
  <2> QED BY <2>1, <2>2
<1> QED BY <1>1, <1>2, TypeCorrect, PTL DEF Spec

-----------------------------------------------------------------------------
(* No fee that was not charged. *)

FeesInv == IsFiniteSet(applied) /\ FeesFromGas

\* A batch adds one occurrence for each transaction that is charged.
LEMMA BatchAdds ==
  ASSUME TypeOK, EffectOnce, IsFiniteSet(applied),
         NEW m, NEW passed, NEW done, BatchOf(m, passed, done)
  PROVE  /\ IsFiniteSet(applied')
         /\ Cardinality(applied') = Cardinality(applied) + Cardinality(passed)
<1>1. /\ IsFiniteSet(passed)
      /\ \A i \in passed : i \in Nat /\ block[i] \in Txs /\ block[i].number = nonce[block[i].sender]
  BY PlacesOfBatch DEF MayPass
<1> DEFINE f == [i \in passed |-> [tx |-> block[i], block |-> started, place |-> i]]
<1>2. f \in Surjection(passed, Added(passed)) /\ f \in Injection(passed, Added(passed))
  BY DEF Surjection, Injection, IsInjective, Added
<1> HIDE DEF f
<1>3. IsFiniteSet(Added(passed)) /\ Cardinality(Added(passed)) = Cardinality(passed)
  BY <1>1, <1>2, FS_Surjection
<1>4. applied \cap Added(passed) = {}
  <2>1. \A o \in applied : o.tx.number \in Nat /\ o.tx.number < nonce[o.tx.sender]
    BY TxsAssumption DEF TypeOK, Occurrence, EffectOnce
  <2>2. \A o \in Added(passed) : o.tx.number = nonce[o.tx.sender]
    BY <1>1 DEF Added
  <2> QED BY <2>1, <2>2
<1>5. Cardinality(applied \cap Added(passed)) = 0
  BY <1>4, FS_EmptySet
<1>6. applied' = applied \cup Added(passed)
  BY DEF BatchOf
<1>7. Cardinality(applied) \in Nat /\ Cardinality(passed) \in Nat
  BY <1>1, FS_CardinalityType
<1>8. /\ IsFiniteSet(applied \cup Added(passed))
      /\ Cardinality(applied \cup Added(passed)) =
           Cardinality(applied) + Cardinality(Added(passed)) - Cardinality(applied \cap Added(passed))
  BY <1>3, FS_Union
<1> QED BY <1>3, <1>5, <1>6, <1>7, <1>8

\* FeesAreCharged: FeesFromGas, for any fees and burnt part, over all blocks and crashes.
THEOREM FeesAreCharged == Spec => []FeesFromGas
<1>1. Init => FeesInv
  <2> SUFFICES ASSUME Init PROVE FeesInv
    OBVIOUS
  <2>1. IsFiniteSet(applied) /\ Cardinality(applied) = 0
    BY FS_EmptySet DEF Init
  <2>2. GasCost \in Nat /\ rewards = 0 /\ fees = 0
    BY BoundsAssumption DEF Init
  <2> QED BY <2>1, <2>2 DEF FeesInv, FeesFromGas
<1>2. TypeOK /\ EffectOnce /\ FeesInv /\ [Next]_vars => FeesInv'
  <2> SUFFICES ASSUME TypeOK, EffectOnce, FeesInv, [Next]_vars PROVE FeesInv'
    OBVIOUS
  <2>1. /\ rewards \in Nat /\ fees \in Nat /\ GasCost \in Nat
        /\ IsFiniteSet(applied) /\ Cardinality(applied) \in Nat
        /\ rewards + fees <= GasCost * Cardinality(applied)
    BY BoundsAssumption, FS_CardinalityType DEF TypeOK, FeesInv, FeesFromGas
  <2>2. CASE RunBatch
    <3>1. PICK m, passed, done : BatchOf(m, passed, done)
      BY <2>2, BatchChosen
    <3> DEFINE old == Cardinality(applied)  new == Cardinality(passed)
    <3>2. new \in Nat
      BY <3>1, PlacesOfBatch
    <3>3. rewards' = rewards /\ fees' = fees + GasCost * new
      BY <3>1 DEF BatchOf
    <3>4. IsFiniteSet(applied') /\ Cardinality(applied') = old + new
      BY <2>1, <3>1, BatchAdds
    <3>5. rewards + fees <= GasCost * old /\ old \in Nat
      BY <2>1
    <3> HIDE DEF old, new
    <3>6. GasCost * (old + new) = GasCost * old + GasCost * new
      BY <2>1, <3>2, <3>5
    <3>7. GasCost * new \in Nat /\ GasCost * old \in Nat
      BY <2>1, <3>2, <3>5
    <3>8. rewards' + fees' <= GasCost * (old + new)
      BY <2>1, <3>3, <3>5, <3>6, <3>7
    <3> QED BY <3>4, <3>8 DEF FeesInv, FeesFromGas
  <2>3. CASE PayFees
    <3> DEFINE paid == fees - (fees * BurnPercent) \div 100
    <3>1. paid \in Nat /\ paid <= fees
      BY <2>1, BurntPart
    <3>2. rewards' = rewards + paid /\ fees' = 0 /\ applied' = applied
      BY <2>3 DEF PayFees, accounts
    <3> HIDE DEF paid
    <3>3. GasCost * Cardinality(applied) \in Nat
      BY <2>1
    <3>4. rewards' + fees' <= GasCost * Cardinality(applied)
      BY <2>1, <3>1, <3>2, <3>3
    <3> QED BY <2>1, <3>2, <3>4 DEF FeesInv, FeesFromGas
  <2>4. CASE ~RunBatch /\ ~PayFees
    <3>1. rewards' = rewards /\ (fees' = fees \/ fees' = 0)
      BY <2>4 DEF Next, Execute, Accuse, Crash, StartBlock, Scan, TakeEvent, CutWeight, MarkSlashed,
                  ClearSlash, EndBlock, Downtime, DoubleSign, PutSlash, PutJail, vars, memory
    <3>2. applied' = applied
      BY <2>4, OtherSteps
    <3>3. GasCost * Cardinality(applied) \in Nat
      BY <2>1
    <3>4. rewards' + fees' <= GasCost * Cardinality(applied)
      BY <2>1, <3>1, <3>3
    <3> QED BY <2>1, <3>2, <3>4 DEF FeesInv, FeesFromGas
  <2> QED BY <2>2, <2>3, <2>4
<1>3. FeesInv => FeesFromGas
  BY DEF FeesInv
<1> QED BY <1>1, <1>2, <1>3, TypeCorrect, AccountsInOrder, PTL DEF Spec

-----------------------------------------------------------------------------
(* The queue. *)

\* What is deleted from the queue has its tombstone.
Cleared == at = "clear" => <<event.validator, event.round>> \in slashed

\* QueueIsKept: QueueKept, for any validators, rounds and crashes.
THEOREM QueueIsKept == Spec => QueueKept
<1>1. Init => Cleared
  BY DEF Init, Cleared
<1>2. Cleared /\ [Next]_vars => Cleared'
  <2> SUFFICES ASSUME Cleared, [Next]_vars PROVE Cleared'
    OBVIOUS
  <2>1. CASE MarkSlashed
    BY <2>1 DEF MarkSlashed, Cleared
  <2>2. ASSUME NEW e \in due, TakeEvent(e) PROVE Cleared'
    BY <2>2 DEF TakeEvent, Cleared, slashVars
  <2>3. CASE RunBatch
    BY <2>3 DEF RunBatch, Cleared
  <2>4. ASSUME NEW o \in Threads, NEW b \in Blocks, StartBlock(o, b) PROVE Cleared'
    BY <2>4 DEF StartBlock, Cleared
  <2>5. CASE PayFees \/ Scan \/ CutWeight \/ ClearSlash \/ EndBlock \/ Crash
    BY <2>5 DEF PayFees, Scan, CutWeight, ClearSlash, EndBlock, Crash, Cleared
  <2>6. CASE Accuse
    BY <2>6 DEF Accuse, Downtime, DoubleSign, PutSlash, PutJail, memory, Cleared
  <2>7. CASE UNCHANGED vars
    BY <2>7 DEF vars, memory, slashVars, Cleared
  <2> QED BY <2>1, <2>2, <2>3, <2>4, <2>5, <2>6, <2>7 DEF Next, Execute
<1>3. TypeOK /\ Cleared /\ [Next]_vars =>
        [\A v \in Accounts : pending[v] # 0 /\ pending'[v] # pending[v] =>
           \/ <<v, pending[v]>> \in slashed
           \/ pending'[v] # 0
           \/ event.validator = v /\ event.round # pending[v]]_vars
  <2> SUFFICES ASSUME TypeOK, Cleared, [Next]_vars,
                      NEW v \in Accounts, pending[v] # 0, pending'[v] # pending[v]
               PROVE  \/ <<v, pending[v]>> \in slashed
                      \/ pending'[v] # 0
                      \/ event.validator = v /\ event.round # pending[v]
    OBVIOUS
  <2>1. CASE ClearSlash
    <3>1. at = "clear" /\ pending' = [pending EXCEPT ![event.validator] = 0]
      BY <2>1 DEF ClearSlash
    <3>2. event.validator = v
      BY <3>1 DEF TypeOK
    <3> QED BY <3>1, <3>2 DEF Cleared
  <2>2. ASSUME NEW u \in Accounts, NEW r \in Rounds, DoubleSign(u, r)
        PROVE  pending'[v] # 0
    BY <2>2, BoundsAssumption DEF DoubleSign, TypeOK
  <2>3. CASE PutSlash
    <3>1. accusing.round \in Rounds
      BY <2>3 DEF PutSlash, TypeOK, Idle
    <3> QED BY <2>3, <3>1, BoundsAssumption DEF PutSlash, TypeOK
  <2>4. CASE /\ ~ClearSlash /\ ~PutSlash
             /\ ~\E u \in Accounts, r \in Rounds : DoubleSign(u, r)
    <3>1. pending' = pending
      BY <2>4 DEF Next, Execute, Accuse, Crash, StartBlock, RunBatch, PayFees, Scan, TakeEvent,
                  CutWeight, MarkSlashed, EndBlock, Downtime, PutJail, vars, slashVars
    <3> QED BY <3>1
  <2> QED BY <2>1, <2>2, <2>3, <2>4
<1> QED BY <1>1, <1>2, <1>3, TypeCorrect, PTL DEF Spec, QueueKept

-----------------------------------------------------------------------------
(* The weights. *)

\* What the slashes leave is a number, and one slash more cuts it once more.
LEMMA WeightsAfter ==
  /\ WeightAfter[0] = InitialWeight
  /\ \A k \in Nat : WeightAfter[k] \in Nat /\ WeightAfter[k + 1] = Reduced(WeightAfter[k])
<1> DEFINE F == [w \in Nat |-> Reduced(w)]
           W(g) == g = [k \in Nat |-> IF k = 0 THEN InitialWeight ELSE Reduced(g[k - 1])]
<1>1. F \in [Nat -> Nat] /\ \A w \in Nat : F[w] = Reduced(w)
  BY ReducedWeight
<1>2. InitialWeight \in Nat
  BY BoundsAssumption
<1> HIDE DEF F
<1>3. PICK g \in [Nat -> Nat] : IsTurns(F, InitialWeight, Nat, g)
  BY <1>1, <1>2, TurnsForever
<1>4. \A k \in Nat : k # 0 => F[g[k - 1]] = Reduced(g[k - 1])
  <2> SUFFICES ASSUME NEW k \in Nat, k # 0 PROVE F[g[k - 1]] = Reduced(g[k - 1])
    OBVIOUS
  <2>1. k - 1 \in Nat
    OBVIOUS
  <2>2. g[k - 1] \in Nat
    BY <2>1
  <2>. QED BY <1>1, <2>2
<1>5. W(g)
  BY <1>3, <1>4 DEF IsTurns
<1>6. WeightAfter = CHOOSE h : W(h)
  BY DEF WeightAfter
<1>7. PICK h : h = WeightAfter
  OBVIOUS
<1>8. W(h)
  <2> HIDE DEF W
  <2>. QED BY <1>5, <1>6, <1>7
<1>9. h[0] = InitialWeight /\ \A k \in Nat : h[k + 1] = Reduced(h[k])
  <2>1. h[0] = InitialWeight
    BY <1>8
  <2>2. ASSUME NEW k \in Nat PROVE h[k + 1] = Reduced(h[k])
    <3>1. k + 1 \in Nat /\ k + 1 # 0 /\ (k + 1) - 1 = k
      OBVIOUS
    <3>. QED BY <1>8, <3>1
  <2>. QED BY <2>1, <2>2
<1>10. \A k \in Nat : h[k] \in Nat
  <2> DEFINE B == {k \in Nat : h[k] \notin Nat}
  <2>1. \A k \in B : k # 0
    BY <1>2, <1>9
  <2>2. \A k \in B : \E j \in B : k = j + 1
    <3> SUFFICES ASSUME NEW k \in B PROVE \E j \in B : k = j + 1
      OBVIOUS
    <3>1. k \in Nat /\ k # 0 /\ h[k] \notin Nat
      BY <2>1
    <3>2. PICK j \in Nat : k = j + 1
      BY ONLY <3>1
    <3>3. h[j] \notin Nat
      BY <1>9, <3>1, <3>2, ReducedWeight
    <3>. QED BY <3>2, <3>3
  <2>3. ASSUME B # {} PROVE FALSE
    <3>1. PICK x \in B : \A y \in B : x <= y
      <4>1. B \subseteq Nat
        OBVIOUS
      <4> HIDE DEF B
      <4>. QED BY <2>3, <4>1, LeastNatural
    <3>2. PICK j \in B : x = j + 1
      BY <2>2
    <3>3. x \in Nat /\ j \in Nat /\ x <= j
      BY <3>1
    <3>. QED BY ONLY <3>2, <3>3
  <2>. QED BY <2>3
<1>. QED BY <1>7, <1>9, <1>10

\* The tombstones of a validator, and how often its weight has been cut for them.
Tombs(v) == {e \in slashed : e[1] = v}
Cuts(v)  == Cardinality(Tombs(v)) + IF at = "mark" /\ event.validator = v THEN 1 ELSE 0
CutsAre(v, k) == IF WeightAfter[k] > 0 THEN v \in DOMAIN weights /\ weights[v] = WeightAfter[k]
                                       ELSE v \notin DOMAIN weights
Uncut(v) == v \in Founders /\ v \notin interrupted /\ v \notin Registered

\* What is being cut has no tombstone yet, and there are finitely many.
SlashInv ==
  /\ IsFiniteSet(slashed)
  /\ at \in {"cut", "mark"} => <<event.validator, event.round>> \notin slashed
  /\ \A v \in Accounts : Uncut(v) => CutsAre(v, Cuts(v))

LEMMA CutsAreSlashes ==
  ASSUME SlashInv PROVE SlashedOnce
BY AccountsAssumption DEF SlashInv, SlashedOnce, Uncut, CutsAre, Cuts, Tombs

LEMMA TombsAreCounted ==
  ASSUME SlashInv, NEW v
  PROVE  IsFiniteSet(Tombs(v)) /\ Cardinality(Tombs(v)) \in Nat /\ Cuts(v) \in Nat
<1>1. IsFiniteSet(Tombs(v))
  BY FS_Subset DEF SlashInv, Tombs
<1>2. Cardinality(Tombs(v)) \in Nat
  BY <1>1, FS_CardinalityType
<1>. QED BY <1>1, <1>2 DEF Cuts

\* A step that leaves weights, tombstones and the place of the slash alone.
LEMMA SlashesLeftAlone ==
  ASSUME SlashInv, UNCHANGED <<weights, slashed, applied, interrupted>>,
         \/ UNCHANGED <<at, event>>
         \/ /\ at # "mark" /\ at' # "mark"
            /\ at' = "cut" => <<event'.validator, event'.round>> \notin slashed
  PROVE  SlashInv'
<1>1. \A v : Cuts(v)' = Cuts(v) /\ (Uncut(v)' => Uncut(v))
  BY DEF Cuts, Tombs, Uncut, Registered
<1>2. \A v, k : CutsAre(v, k)' <=> CutsAre(v, k)
  BY DEF CutsAre
<1>3. \A v \in Accounts : Uncut(v)' => CutsAre(v, Cuts(v))'
  BY <1>1, <1>2 DEF SlashInv
<1>4. (at \in {"cut", "mark"} => <<event.validator, event.round>> \notin slashed)'
  BY DEF SlashInv
<1>. QED BY <1>3, <1>4 DEF SlashInv

\* Who joins in a batch has registered.
LEMMA BatchJoins ==
  ASSUME TypeOK, SlashInv, NEW m, NEW passed, NEW done, BatchOf(m, passed, done)
  PROVE  SlashInv'
<1>1. /\ UNCHANGED <<slashed, interrupted, at, event>>
      /\ applied' = applied \cup Added(passed)
      /\ weights' = [v \in DOMAIN weights \cup Joining(done) |->
                       IF v \in DOMAIN weights THEN weights[v] ELSE InitialWeight]
      /\ done \subseteq passed
  BY DEF BatchOf, slashVars
<1>2. \A v : Cuts(v)' = Cuts(v)
  BY <1>1 DEF Cuts, Tombs
<1>3. \A v : Uncut(v)' => Uncut(v) /\ v \notin Joining(done)
  <2> SUFFICES ASSUME NEW v, Uncut(v)' PROVE Uncut(v) /\ v \notin Joining(done)
    OBVIOUS
  <2>1. Uncut(v)
    BY <1>1 DEF Uncut, Registered
  <2>2. ASSUME v \in Joining(done) PROVE FALSE
    <3>1. PICK i \in done : block[i].kind = "register_validator" /\ block[i].sender = v
      BY <2>2 DEF Joining, Latest
    <3> DEFINE o == [tx |-> block[i], block |-> started, place |-> i]
    <3>2. o \in applied' /\ o.tx = block[i]
      BY <1>1 DEF Added
    <3> HIDE DEF o
    <3>3. v \in Registered'
      BY <3>1, <3>2 DEF Registered
    <3>. QED BY <3>3 DEF Uncut
  <2>. QED BY <2>1, <2>2
<1>4. \A v, k : v \notin Joining(done) => (CutsAre(v, k)' <=> CutsAre(v, k))
  BY <1>1 DEF CutsAre
<1>5. \A v \in Accounts : Uncut(v)' => CutsAre(v, Cuts(v))'
  BY <1>2, <1>3, <1>4 DEF SlashInv
<1>6. (at \in {"cut", "mark"} => <<event.validator, event.round>> \notin slashed)'
  BY <1>1 DEF SlashInv
<1>. QED BY <1>1, <1>5, <1>6 DEF SlashInv

\* The weight is cut before the tombstone is put.
LEMMA CutIsCounted ==
  ASSUME TypeOK, SlashInv, CutWeight
  PROVE  SlashInv'
<1>1. /\ at = "cut" /\ at' = "mark"
      /\ UNCHANGED <<slashed, interrupted, applied, event>>
      /\ DOMAIN weights' = {u \in DOMAIN weights : u = event.validator => Reduced(weights[u]) > 0}
      /\ \A u \in DOMAIN weights' :
           weights'[u] = IF u = event.validator THEN Reduced(weights[u]) ELSE weights[u]
  BY DEF CutWeight, accounts, slashVars
<1>2. ASSUME NEW v \in Accounts, Uncut(v)' PROVE CutsAre(v, Cuts(v))'
  <2>1. Uncut(v)
    BY <1>1, <1>2 DEF Uncut, Registered
  <2>2. CutsAre(v, Cuts(v))
    BY <2>1 DEF SlashInv
  <2>3. CASE v = event.validator
    <3>1. Cuts(v)' = Cuts(v) + 1
      <4>1. Cuts(v) = Cardinality(Tombs(v)) + 0 /\ Cuts(v)' = Cardinality(Tombs(v)) + 1
        BY <1>1, <2>3 DEF Cuts, Tombs
      <4>2. Cardinality(Tombs(v)) \in Nat
        BY TombsAreCounted
      <4>. QED BY <4>1, <4>2
    <3>2. PICK k \in Nat : k = Cuts(v)
      BY TombsAreCounted
    <3>3. WeightAfter[k] \in Nat /\ WeightAfter[k + 1] = Reduced(WeightAfter[k])
      BY WeightsAfter
    <3>4. Reduced(0) = 0
      BY DEF Reduced
    <3>5. Reduced(WeightAfter[k]) \in Nat
      BY <3>3, ReducedWeight
    <3>6. CASE WeightAfter[k] > 0
      <4>1. v \in DOMAIN weights /\ weights[v] = WeightAfter[k]
        BY <2>2, <3>2, <3>6 DEF CutsAre
      <4>. QED BY <1>1, <2>3, <3>1, <3>2, <3>3, <4>1 DEF CutsAre
    <3>7. CASE ~(WeightAfter[k] > 0)
      <4>1. v \notin DOMAIN weights /\ WeightAfter[k] = 0
        BY <2>2, <3>2, <3>3, <3>7 DEF CutsAre
      <4>2. WeightAfter[k + 1] = 0
        BY <3>3, <3>4, <4>1
      <4>. QED BY <1>1, <3>1, <3>2, <4>1, <4>2 DEF CutsAre
    <3>. QED BY <3>6, <3>7
  <2>4. CASE v # event.validator
    <3>1. Cuts(v)' = Cuts(v)
      BY <1>1, <2>4 DEF Cuts, Tombs
    <3>2. \A k : CutsAre(v, k)' <=> CutsAre(v, k)
      BY <1>1, <2>4 DEF CutsAre
    <3>. QED BY <2>2, <3>1, <3>2
  <2>. QED BY <2>3, <2>4
<1>3. (at \in {"cut", "mark"} => <<event.validator, event.round>> \notin slashed)'
  BY <1>1 DEF SlashInv
<1>. QED BY <1>1, <1>2, <1>3 DEF SlashInv

\* The tombstone takes the place of the cut that was being counted.
LEMMA MarkIsCounted ==
  ASSUME TypeOK, SlashInv, MarkSlashed
  PROVE  SlashInv'
<1> DEFINE e == <<event.validator, event.round>>
<1>1. /\ at = "mark" /\ at' = "clear" /\ slashed' = slashed \cup {e} /\ e \notin slashed
      /\ UNCHANGED <<weights, interrupted, applied, event>>
  BY DEF MarkSlashed, accounts, SlashInv
<1>2. e[1] = event.validator
  OBVIOUS
<1> HIDE DEF e
<1>3. IsFiniteSet(slashed')
  BY <1>1, FS_AddElement DEF SlashInv
<1>4. ASSUME NEW v \in Accounts PROVE Cuts(v)' = Cuts(v)
  <2>1. CASE v = event.validator
    <3>1. Tombs(v)' = Tombs(v) \cup {e} /\ e \notin Tombs(v)
      BY <1>1, <1>2, <2>1 DEF Tombs
    <3>2. Cardinality(Tombs(v) \cup {e}) = Cardinality(Tombs(v)) + 1
      BY <3>1, TombsAreCounted, FS_AddElement
    <3>3. Cuts(v) = Cardinality(Tombs(v)) + 1 /\ Cuts(v)' = Cardinality(Tombs(v)') + 0
      BY <1>1, <2>1 DEF Cuts
    <3>4. Cardinality(Tombs(v)) \in Nat
      BY TombsAreCounted
    <3>. QED BY <3>1, <3>2, <3>3, <3>4
  <2>2. CASE v # event.validator
    <3>1. Tombs(v)' = Tombs(v)
      BY <1>1, <1>2, <2>2 DEF Tombs
    <3>. QED BY <1>1, <2>2, <3>1 DEF Cuts
  <2>. QED BY <2>1, <2>2
<1>5. \A v, k : (Uncut(v)' => Uncut(v)) /\ (CutsAre(v, k)' <=> CutsAre(v, k))
  BY <1>1 DEF Uncut, Registered, CutsAre
<1>6. \A v \in Accounts : Uncut(v)' => CutsAre(v, Cuts(v))'
  BY <1>4, <1>5 DEF SlashInv
<1>7. (at \in {"cut", "mark"} => <<event.validator, event.round>> \notin slashed)'
  BY <1>1
<1>. QED BY <1>3, <1>6, <1>7 DEF SlashInv

\* A crash between the weight and the tombstone takes the validator out of what is said.
LEMMA CrashIsCounted ==
  ASSUME SlashInv, Crash
  PROVE  SlashInv'
<1>1. /\ at' = "idle" /\ UNCHANGED <<weights, slashed, applied>>
      /\ interrupted' = interrupted \cup IF at = "mark" THEN {event.validator} ELSE {}
  BY DEF Crash, accounts
<1>2. \A v, k : (Uncut(v)' => Uncut(v)) /\ (CutsAre(v, k)' <=> CutsAre(v, k))
  BY <1>1 DEF Uncut, Registered, CutsAre
<1>3. \A v : Uncut(v)' => Cuts(v)' = Cuts(v)
  BY <1>1 DEF Uncut, Cuts, Tombs
<1>4. \A v \in Accounts : Uncut(v)' => CutsAre(v, Cuts(v))'
  BY <1>2, <1>3 DEF SlashInv
<1>. QED BY <1>1, <1>4 DEF SlashInv

\* SlashesCutOnce: SlashedOnce, for any number of validators, accusations, first weight and
\* crashes.
THEOREM SlashesCutOnce == Spec => []SlashedOnce
<1>1. Init => SlashInv
  <2> SUFFICES ASSUME Init PROVE SlashInv
    OBVIOUS
  <2>1. slashed = {} /\ at = "idle" /\ weights = [v \in Founders |-> InitialWeight]
    BY DEF Init
  <2>2. \A v : Cuts(v) = 0
    BY <2>1, FS_EmptySet DEF Cuts, Tombs
  <2>3. WeightAfter[0] = InitialWeight /\ InitialWeight > 0
    BY WeightsAfter, BoundsAssumption
  <2>4. \A v : Uncut(v) => CutsAre(v, Cuts(v))
    BY <2>1, <2>2, <2>3 DEF Uncut, CutsAre
  <2>5. IsFiniteSet(slashed)
    BY <2>1, FS_EmptySet
  <2>. QED BY <2>1, <2>4, <2>5 DEF SlashInv
<1>2. TypeOK /\ SlashInv /\ [Next]_vars => SlashInv'
  <2> SUFFICES ASSUME TypeOK, SlashInv, [Next]_vars PROVE SlashInv'
    OBVIOUS
  <2>1. CASE RunBatch
    BY <2>1, BatchChosen, BatchJoins
  <2>2. CASE CutWeight
    BY <2>2, CutIsCounted
  <2>3. CASE MarkSlashed
    BY <2>3, MarkIsCounted
  <2>4. CASE Crash
    BY <2>4, CrashIsCounted
  <2>5. ASSUME NEW e \in due, TakeEvent(e) PROVE SlashInv'
    <3>1. /\ at = "next" /\ event' = e /\ UNCHANGED <<weights, slashed, applied, interrupted>>
          /\ at' = IF <<e.validator, e.round>> \in slashed THEN "clear" ELSE "cut"
      BY <2>5 DEF TakeEvent, accounts, slashVars
    <3>2. at' = "cut" => <<event'.validator, event'.round>> \notin slashed
      BY <3>1
    <3>3. at # "mark" /\ at' # "mark"
      BY <3>1
    <3>. QED BY <3>1, <3>2, <3>3, SlashesLeftAlone
  <2>6. ASSUME NEW o \in Threads, NEW b \in Blocks, StartBlock(o, b) PROVE SlashInv'
    <3>1. at = "idle" /\ at' = "batches" /\ UNCHANGED <<weights, slashed, applied, interrupted>>
      BY <2>6 DEF StartBlock, accounts, slashVars
    <3>. QED BY <3>1, SlashesLeftAlone
  <2>7. CASE PayFees \/ Scan \/ ClearSlash \/ EndBlock
    <3>1. /\ at \in {"batches", "scan", "clear", "next"} /\ at' \in {"scan", "next", "idle"}
          /\ UNCHANGED <<weights, slashed, applied, interrupted>>
      BY <2>7 DEF PayFees, Scan, ClearSlash, EndBlock, accounts, slashVars
    <3>. QED BY <3>1, SlashesLeftAlone
  <2>8. CASE Accuse
    <3>1. UNCHANGED <<weights, slashed, applied, interrupted, at, event>>
      BY <2>8 DEF Accuse, Downtime, DoubleSign, PutSlash, PutJail, memory, accounts
    <3>. QED BY <3>1, SlashesLeftAlone DEF SlashInv
  <2>9. CASE UNCHANGED vars
    <3>1. UNCHANGED <<weights, slashed, applied, interrupted, at, event>>
      BY <2>9 DEF vars, memory, accounts, slashVars
    <3>. QED BY <3>1, SlashesLeftAlone DEF SlashInv
  <2>. QED BY <2>1, <2>2, <2>3, <2>4, <2>5, <2>6, <2>7, <2>8, <2>9 DEF Next, Execute
<1>3. SlashInv => SlashedOnce
  BY CutsAreSlashes
<1>. QED BY <1>1, <1>2, <1>3, TypeCorrect, PTL DEF Spec

=============================================================================

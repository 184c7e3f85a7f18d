---------------------------- MODULE StakingProofs ----------------------------
(****************************************************************************)
(* Proofs about the staking contract, for any accounts, stakes and periods. *)
(****************************************************************************)
EXTENDS AinSupply, SumTheorems, SequenceTheorems, TLAPS

Typed == StakingTypes /\ StakingInv

LEMMA TimeSteps ==
  ASSUME current_epoch \in Nat
  PROVE  /\ Now \in Nat
         /\ (current_epoch + 1) * EpochSeconds = Now + EpochSeconds
         /\ EpochSeconds \in Nat \ {0}
BY StakingAssumption, SMT DEF Now

\* An account with requests has one that it made first.
LEMMA OldestFacts ==
  ASSUME StakingTypes, NEW a, RequestsOf(a) # {}
  PROVE  /\ Oldest(RequestsOf(a)) \in RequestsOf(a)
         /\ \A r \in RequestsOf(a) : Oldest(RequestsOf(a)).ticket <= r.ticket
<1> DEFINE S == RequestsOf(a)
           T == {q.ticket : q \in S}
<1>1. T \subseteq Nat /\ T # {}
  BY DEF StakingTypes, RequestsOf, Request
<1> HIDE DEF T
<1>2. PICK t \in T : \A u \in T : t <= u
  BY <1>1, LeastNatural
<1>3. PICK q \in S : \A r \in S : q.ticket <= r.ticket
  BY <1>2 DEF T
<1> HIDE DEF S
<1>4. Oldest(S) \in S /\ \A r \in S : Oldest(S).ticket <= r.ticket
  BY <1>3 DEF Oldest
<1>. QED BY <1>4 DEF S

\* What the order of the requests is for.
LEMMA InOrderDue == Typed => DueIsWithdrawable
<1> SUFFICES ASSUME Typed, NEW q \in queue, Now >= q.unlock
             PROVE  Now >= Oldest(RequestsOf(q.addr)).unlock
  BY DEF DueIsWithdrawable
<1> DEFINE o == Oldest(RequestsOf(q.addr))
<1>1. StakingTypes /\ DueInOrder
  BY DEF Typed, StakingInv
<1>2. q \in RequestsOf(q.addr)
  BY DEF RequestsOf
<1>3. o \in RequestsOf(q.addr) /\ o.ticket <= q.ticket
  BY <1>1, <1>2, OldestFacts
<1>4. o \in queue
  BY <1>3 DEF RequestsOf
<1> HIDE DEF o
<1>5. /\ q.ticket \in Nat /\ q.unlock \in Nat
      /\ o.ticket \in Nat /\ o.unlock \in Nat /\ Now \in Nat
  BY <1>1, <1>4, TimeSteps DEF StakingTypes, Request
<1>6. o.unlock <= q.unlock
  <2>1. CASE o.ticket = q.ticket
    BY <1>1, <1>4, <1>5, <2>1, SMT DEF DueInOrder
  <2>2. CASE o.ticket < q.ticket
    BY <1>1, <1>4, <2>2 DEF DueInOrder
  <2>. QED BY <1>3, <1>5, <2>1, <2>2, SMT
<1>7. Now >= o.unlock
  BY <1>5, <1>6, SMT
<1>. QED BY <1>7 DEF o

\* Rewards are natural numbers.
LEMMA RewardType == ASSUME NEW e \in 0..MaxEpoch PROVE Reward(e) \in Nat
<1> DEFINE h == e \div HalvingInterval
<1>1. h \in Nat /\ h <= e
  BY StakingAssumption, SMT
<1>2. 2 ^ h \in Nat \ {0}
  BY <1>1, PowersAssumption, StakingAssumption, SMT
<1>3. \A p \in Nat \ {0} : BaseReward \div p \in Nat
  BY StakingAssumption, SMT
<1>. QED BY <1>2, <1>3 DEF Reward

\* A validator has a position in the vector.
LEMMA PositionFacts ==
  ASSUME NEW a, validators \in Seq(Config), OneConfigEach, IsValidator(a)
  PROVE  /\ Position(a) \in 1..Len(validators)
         /\ validators[Position(a)].addr = a
         /\ validators[Position(a)] \in Config
         /\ validators[Position(a)].stake \in Nat
<1>1. DOMAIN validators = 1..Len(validators) /\ Len(validators) \in Nat
  BY SMT
<1>2. PICK i \in 1..Len(validators) : validators[i].addr = a
  BY <1>1 DEF IsValidator
<1>3. \A j \in 1..(i - 1) : j \in 1..Len(validators) /\ j # i
  BY <1>1, <1>2, SMT
<1>4. \A j \in 1..(i - 1) : validators[j].addr # a
  BY <1>1, <1>2, <1>3 DEF OneConfigEach
<1>5. Position(a) \in 1..Len(validators) /\ validators[Position(a)].addr = a
  BY <1>1, <1>2, <1>4 DEF Position
<1>6. validators[Position(a)] \in Config
  BY <1>5, SMT
<1>7. validators[Position(a)].stake \in Nat
  BY <1>6 DEF Config
<1>. QED BY <1>5, <1>6, <1>7

\* What RemoveAt leaves: the other elements, in their order.
LEMMA RemoveAtFacts ==
  ASSUME NEW S, NEW s \in Seq(S), NEW i \in 1..Len(s)
  PROVE  /\ RemoveAt(s, i) \in Seq(S)
         /\ Len(RemoveAt(s, i)) = Len(s) - 1
         /\ \A j \in 1..(Len(s) - 1) :
              RemoveAt(s, i)[j] = s[IF j < i THEN j ELSE j + 1]
<1> DEFINE front == SubSeq(s, 1, i - 1)
           back  == SubSeq(s, i + 1, Len(s))
<1>1. Len(s) \in Nat /\ i \in Nat /\ 1 <= i /\ i <= Len(s)
  BY SMT
<1>2. /\ front \in Seq(S) /\ Len(front) = i - 1
      /\ \A j \in 1..(i - 1) : front[j] = s[j]
  <2>1. \A k \in 1..(i - 1) : s[k] \in S
    BY <1>1, SMT
  <2>. QED BY <1>1, <2>1, SubSeqProperties, SMT
<1>3. /\ back \in Seq(S) /\ Len(back) = Len(s) - i
      /\ \A j \in 1..(Len(s) - i) : back[j] = s[i + j]
  <2>1. \A k \in (i + 1)..Len(s) : s[k] \in S
    BY <1>1, SMT
  <2>. QED BY <1>1, <2>1, SubSeqProperties, SMT
<1>4. /\ front \o back \in Seq(S)
      /\ Len(front \o back) = Len(s) - 1
      /\ \A j \in 1..(Len(s) - 1) :
           (front \o back)[j] = IF j < i THEN front[j] ELSE back[j - (i - 1)]
  <2> HIDE DEF front, back
  <2>1. /\ front \o back \in Seq(S)
        /\ Len(front \o back) = Len(front) + Len(back)
        /\ \A j \in 1..(Len(front) + Len(back)) : (front \o back)[j] =
             IF j <= Len(front) THEN front[j] ELSE back[j - Len(front)]
    BY <1>2, <1>3, ConcatProperties
  <2>2. Len(front) + Len(back) = Len(s) - 1 /\ Len(front) = i - 1
    BY <1>1, <1>2, <1>3, SMT
  <2>3. \A j \in 1..(Len(s) - 1) : j <= i - 1 <=> j < i
    BY <1>1, SMT
  <2>. QED BY <2>1, <2>2, <2>3
<1>5. \A j \in 1..(Len(s) - 1) : (front \o back)[j] = s[IF j < i THEN j ELSE j + 1]
  <2> HIDE DEF front, back
  <2>. QED BY <1>1, <1>2, <1>3, <1>4, SMT
<1>6. RemoveAt(s, i) = front \o back
  BY DEF RemoveAt
<1>. QED BY <1>4, <1>5, <1>6

\* Without one of its elements the vector still holds no validator twice and no
\* stake below the minimum.
LEMMA RemovedKeepsVector ==
  ASSUME validators \in Seq(Config), OneConfigEach, StakesAboveMinimum,
         NEW a, IsValidator(a), validators' = RemoveAt(validators, Position(a))
  PROVE  validators' \in Seq(Config) /\ OneConfigEach' /\ StakesAboveMinimum'
<1> DEFINE p    == Position(a)
           n    == Len(validators)
           f[j \in 1..(n - 1)] == IF j < p THEN j ELSE j + 1
<1>1. p \in 1..n /\ n \in Nat /\ DOMAIN validators = 1..n
  BY PositionFacts, SMT
<1>2. /\ validators' \in Seq(Config)
      /\ DOMAIN validators' = 1..(n - 1)
      /\ \A j \in 1..(n - 1) : validators'[j] = validators[IF j < p THEN j ELSE j + 1]
  <2> HIDE DEF p
  <2>1. /\ RemoveAt(validators, p) \in Seq(Config)
        /\ Len(RemoveAt(validators, p)) = n - 1
        /\ \A j \in 1..(n - 1) :
             RemoveAt(validators, p)[j] = validators[IF j < p THEN j ELSE j + 1]
    BY <1>1, RemoveAtFacts
  <2>2. validators' = RemoveAt(validators, p)
    BY DEF p
  <2>3. DOMAIN RemoveAt(validators, p) = 1..Len(RemoveAt(validators, p))
    BY <2>1, SMT
  <2>. QED BY <2>1, <2>2, <2>3
<1> HIDE DEF p, n
<1>3. \A j \in 1..(n - 1) : f[j] \in 1..n /\ validators'[j] = validators[f[j]]
  BY <1>1, <1>2, SMT
<1>4. \A i, j \in 1..(n - 1) : f[i] = f[j] => i = j
  BY <1>1, SMT
<1> HIDE DEF f
<1>5. OneConfigEach'
  BY <1>1, <1>2, <1>3, <1>4 DEF OneConfigEach
<1>6. StakesAboveMinimum'
  BY <1>1, <1>2, <1>3 DEF StakesAboveMinimum
<1>. QED BY <1>2, <1>5, <1>6

\* A new request is the youngest and the last to be due.
LEMMA EnqueueKeepsQueue ==
  ASSUME StakingTypes, DueInOrder, RequestsCurrent, NEW a \in Accounts, NEW x \in Nat,
         Enqueue(a, x), current_epoch' = current_epoch
  PROVE  queue' \subseteq Request /\ tickets' \in Nat /\ DueInOrder' /\ RequestsCurrent'
<1> DEFINE new == [ticket |-> tickets, addr |-> a, stake |-> x, unlock |-> Now + UnbondingPeriod]
<1>1. Now \in Nat /\ UnbondingPeriod \in Nat /\ GracePeriod \in Nat /\ EpochSeconds \in Nat \ {0}
  BY TimeSteps, StakingAssumption DEF StakingTypes
<1>2. queue' = queue \cup {new} /\ tickets' = tickets + 1 /\ Now' = Now
  BY DEF Enqueue, Now
<1>3. new \in Request /\ queue' \subseteq Request /\ tickets' \in Nat
  BY <1>1, <1>2, SMT DEF StakingTypes, Request
<1>4. DueInOrder'
  <2>1. \A q \in queue' : q.ticket < tickets'
    <3>1. \A q \in queue : q.ticket < tickets /\ q.ticket \in Nat
      BY DEF DueInOrder, StakingTypes, Request
    <3>. QED BY <1>2, <1>3, <3>1, SMT DEF StakingTypes
  <2>2. \A q, r \in queue' : q.ticket = r.ticket => q = r
    <3>1. \A q \in queue : q.ticket < tickets /\ q.ticket \in Nat
      BY DEF DueInOrder, StakingTypes, Request
    <3>. QED BY <1>2, <1>3, <3>1, SMT DEF DueInOrder, StakingTypes
  <2>3. \A q, r \in queue' : q.ticket < r.ticket => q.unlock <= r.unlock
    <3>1. \A q \in queue :
            /\ q.ticket \in Nat /\ q.unlock \in Nat
            /\ q.ticket < tickets /\ q.unlock <= Now + UnbondingPeriod
      BY DEF DueInOrder, StakingTypes, Request, RequestsCurrent
    <3>2. \A q \in queue : ~(new.ticket < q.ticket)
      BY <3>1, SMT DEF StakingTypes
    <3>3. \A q, r \in queue : q.ticket < r.ticket => q.unlock <= r.unlock
      BY DEF DueInOrder
    <3>. QED BY <1>1, <1>2, <3>1, <3>2, <3>3, SMT DEF StakingTypes
  <2>. QED BY <2>1, <2>2, <2>3 DEF DueInOrder
<1>5. RequestsCurrent'
  BY <1>1, <1>2, SMT DEF RequestsCurrent
<1>. QED BY <1>2, <1>3, <1>4, <1>5

\* Steps that leave the queue alone or only remove from it keep what holds of it.
LEMMA ShrinkKeepsQueue ==
  ASSUME StakingTypes, DueInOrder, RequestsCurrent,
         queue' \subseteq queue, tickets' = tickets, current_epoch' = current_epoch
  PROVE  queue' \subseteq Request /\ tickets' \in Nat /\ DueInOrder' /\ RequestsCurrent'
<1>1. queue' \subseteq Request /\ tickets' \in Nat /\ DueInOrder'
  BY DEF StakingTypes, DueInOrder
<1>2. RequestsCurrent'
  BY DEF RequestsCurrent, Now
<1>. QED BY <1>1, <1>2

LEMMA SameVector ==
  ASSUME Typed, validators' = validators
  PROVE  validators' \in Seq(Config) /\ OneConfigEach' /\ StakesAboveMinimum'
BY DEF Typed, StakingTypes, StakingInv, OneConfigEach, StakesAboveMinimum

\* Deposits and withdrawals keep the types of the coin stores.
LEMMA CoinSteps ==
  ASSUME CoinTypes, NEW a \in Accounts, NEW b \in Accounts, NEW x \in Nat,
         Deposit(a, x) \/ Withdraw(a, x) \/ RegisterStore(a) \/ Move(a, b, x)
  PROVE  CoinTypes'
<1>1. CASE Deposit(a, x)
  BY <1>1 DEF Deposit, CoinTypes
<1>2. CASE Withdraw(a, x)
  BY <1>2 DEF Withdraw, CoinTypes
<1>3. CASE RegisterStore(a)
  BY <1>3 DEF RegisterStore, CoinTypes
<1>4. CASE Move(a, b, x)
  <2> DEFINE less == [balance EXCEPT ![a] = @ - x]
  <2>1. less \in [Accounts -> Nat]
    BY <1>4, SMT DEF Move, CoinTypes
  <2>2. balance' = [less EXCEPT ![b] = @ + x]
    BY <1>4 DEF Move
  <2> HIDE DEF less
  <2>. QED BY <1>4, <2>1, <2>2, SMT DEF Move, CoinTypes
<1>. QED BY <1>1, <1>2, <1>3, <1>4

LEMMA InitTyped == Init => Typed
<1> SUFFICES ASSUME Init PROVE Typed
  OBVIOUS
<1>1. StakingTypes
  BY GenesisAssumption DEF Init, CoinInit, StakingInit, StakingTypes, CoinTypes
<1>2. OneConfigEach /\ StakesAboveMinimum
  <2>1. DOMAIN GenesisValidators = 1..Len(GenesisValidators)
    BY GenesisAssumption, SMT
  <2>. QED BY <2>1, GenesisAssumption DEF Init, StakingInit, OneConfigEach, StakesAboveMinimum
<1>3. DueInOrder /\ RequestsCurrent
  BY DEF Init, StakingInit, DueInOrder, RequestsCurrent
<1>. QED BY <1>1, <1>2, <1>3 DEF Typed, StakingInv

\* Joining appends a configuration that is not there yet.
LEMMA JoinStep ==
  ASSUME Typed, NEW a \in Accounts, NEW x \in Nat, JoinValidatorSet(a, x)
  PROVE  Typed'
<1> DEFINE n   == Len(validators)
           new == [addr |-> a, stake |-> x]
<1>1. CoinTypes'
  BY CoinSteps DEF Typed, StakingTypes, JoinValidatorSet
<1>2. /\ queue' \subseteq Request /\ tickets' \in Nat /\ current_epoch' \in Nat
      /\ DueInOrder' /\ RequestsCurrent'
  BY ShrinkKeepsQueue DEF Typed, StakingTypes, StakingInv, JoinValidatorSet
<1>3. /\ validators' \in Seq(Config) /\ DOMAIN validators' = 1..(n + 1)
      /\ validators'[n + 1] = new
      /\ \A i \in 1..n : validators'[i] = validators[i]
  <2>1. new \in Config /\ validators \in Seq(Config)
    BY DEF Typed, StakingTypes, Config
  <2>2. validators' = Append(validators, new)
    BY DEF JoinValidatorSet
  <2> HIDE DEF new
  <2>. QED BY <2>1, <2>2, SMT
<1>4. n \in Nat /\ DOMAIN validators = 1..n
  BY SMT DEF Typed, StakingTypes
<1>5. OneConfigEach'
  <2>1. \A i \in 1..n : validators[i].addr # a
    BY <1>4 DEF JoinValidatorSet, IsValidator
  <2>2. \A i, j \in 1..n : validators[i].addr = validators[j].addr => i = j
    BY <1>4 DEF Typed, StakingInv, OneConfigEach
  <2>3. validators'[n + 1].addr = a
    BY <1>3
  <2> HIDE DEF n, new
  <2>4. \A i \in 1..(n + 1) : i \in 1..n \/ i = n + 1
    BY <1>4, SMT
  <2>5. \A i, j \in 1..(n + 1) : validators'[i].addr = validators'[j].addr => i = j
    BY <1>3, <2>1, <2>2, <2>3, <2>4
  <2>. QED BY <1>3, <2>5 DEF OneConfigEach
<1>6. StakesAboveMinimum'
  <2>1. \A i \in 1..n : validators[i].stake >= MinStake
    BY <1>4 DEF Typed, StakingInv, StakesAboveMinimum
  <2>2. validators'[n + 1].stake = x /\ x >= MinStake
    BY <1>3 DEF JoinValidatorSet
  <2> HIDE DEF n, new
  <2>3. \A i \in 1..(n + 1) : i \in 1..n \/ i = n + 1
    BY <1>4, SMT
  <2>. QED BY <1>3, <2>1, <2>2, <2>3 DEF StakesAboveMinimum
<1>. QED BY <1>1, <1>2, <1>3, <1>5, <1>6 DEF Typed, StakingTypes, StakingInv

\* Raising stakes keeps the vector in order.
LEMMA RaisedKeepsVector ==
  ASSUME Typed, NEW more \in [DOMAIN validators -> Nat],
         validators' = [i \in DOMAIN validators |->
           [validators[i] EXCEPT !.stake = @ + more[i]]]
  PROVE  validators' \in Seq(Config) /\ OneConfigEach' /\ StakesAboveMinimum'
<1> DEFINE n == Len(validators)
<1>1. n \in Nat /\ DOMAIN validators = 1..n
  BY SMT DEF Typed, StakingTypes
<1>2. \A i \in 1..n : validators[i] \in Config
  BY <1>1, SMT DEF Typed, StakingTypes
<1> HIDE DEF n
<1>3. \A i \in 1..n : /\ validators'[i] \in Config
                      /\ validators'[i].addr = validators[i].addr
                      /\ validators'[i].stake = validators[i].stake + more[i]
  BY <1>1, <1>2, SMT DEF Config
<1>4. DOMAIN validators' = 1..n /\ validators' \in Seq(Config)
  <2>1. validators' \in [1..n -> Config]
    BY <1>1, <1>3
  <2>. QED BY <1>1, <2>1, SMT
<1>5. OneConfigEach'
  <2> SUFFICES ASSUME NEW i \in 1..n, NEW j \in 1..n, validators'[i].addr = validators'[j].addr
               PROVE  i = j
    BY <1>4 DEF OneConfigEach
  <2>1. validators[i].addr = validators[j].addr
    BY <1>3
  <2>. QED BY <1>1, <2>1 DEF Typed, StakingInv, OneConfigEach
<1>6. StakesAboveMinimum'
  <2> SUFFICES ASSUME NEW i \in 1..n PROVE validators'[i].stake >= MinStake
    BY <1>4 DEF StakesAboveMinimum
  <2>1. validators[i].stake >= MinStake
    BY <1>1 DEF Typed, StakingInv, StakesAboveMinimum
  <2>2. validators[i].stake \in Nat /\ more[i] \in Nat /\ MinStake \in Nat
    BY <1>1, <1>2, StakingAssumption DEF Config
  <2>3. validators'[i].stake = validators[i].stake + more[i]
    BY <1>3
  <2>4. \A s, m, low \in Nat : s >= low => s + m >= low
    BY SMT
  <2>. QED BY <2>1, <2>2, <2>3, <2>4
<1>. QED BY <1>4, <1>5, <1>6

LEMMA AddStakeStep ==
  ASSUME Typed, NEW a \in Accounts, NEW x \in Nat, AddStake(a, x)
  PROVE  Typed'
<1> DEFINE p    == Position(a)
           more == [i \in DOMAIN validators |-> IF i = p THEN x ELSE 0]
<1>1. CoinTypes'
  BY CoinSteps DEF Typed, StakingTypes, AddStake
<1>2. /\ queue' \subseteq Request /\ tickets' \in Nat /\ current_epoch' \in Nat
      /\ DueInOrder' /\ RequestsCurrent'
  BY ShrinkKeepsQueue DEF Typed, StakingTypes, StakingInv, AddStake
<1>3. validators' = [i \in DOMAIN validators |->
        [validators[i] EXCEPT !.stake = @ + more[i]]]
  <2>1. \A i \in DOMAIN validators : validators[i] \in Config
    BY SMT DEF Typed, StakingTypes
  <2>2. \A i \in DOMAIN validators :
          [validators[i] EXCEPT !.stake = @ + 0] = validators[i]
    BY <2>1, SMT DEF Config
  <2>3. validators' = [validators EXCEPT ![p].stake = @ + x]
    BY DEF AddStake
  <2>4. validators = [i \in DOMAIN validators |-> validators[i]]
    BY SMT DEF Typed, StakingTypes
  <2> HIDE DEF p
  <2>. QED BY <2>2, <2>3, <2>4
<1>4. more \in [DOMAIN validators -> Nat]
  OBVIOUS
<1>5. validators' \in Seq(Config) /\ OneConfigEach' /\ StakesAboveMinimum'
  BY <1>3, <1>4, RaisedKeepsVector
<1>. QED BY <1>1, <1>2, <1>5 DEF Typed, StakingTypes, StakingInv

\* The steps that touch no stake and no request.
LEMMA CoinOnlyStep ==
  ASSUME Typed, CoinTypes', validators' = validators, queue' = queue,
         tickets' = tickets, current_epoch' = current_epoch
  PROVE  Typed'
<1>1. /\ queue' \subseteq Request /\ tickets' \in Nat /\ current_epoch' \in Nat
      /\ DueInOrder' /\ RequestsCurrent'
  BY ShrinkKeepsQueue DEF Typed, StakingTypes, StakingInv
<1>. QED BY <1>1, SameVector DEF Typed, StakingTypes, StakingInv

LEMMA LeaveStep ==
  ASSUME Typed, NEW a \in Accounts, LeaveValidatorSet(a)
  PROVE  Typed'
<1>1. validators[Position(a)].stake \in Nat
  BY PositionFacts DEF Typed, StakingTypes, StakingInv, LeaveValidatorSet
<1>2. validators' \in Seq(Config) /\ OneConfigEach' /\ StakesAboveMinimum'
  BY RemovedKeepsVector DEF Typed, StakingTypes, StakingInv, LeaveValidatorSet
<1>3. queue' \subseteq Request /\ tickets' \in Nat /\ DueInOrder' /\ RequestsCurrent'
  BY <1>1, EnqueueKeepsQueue DEF Typed, StakingInv, LeaveValidatorSet
<1>4. CoinTypes' /\ current_epoch' \in Nat
  BY DEF Typed, StakingTypes, CoinTypes, LeaveValidatorSet, coinVars
<1>. QED BY <1>2, <1>3, <1>4 DEF Typed, StakingTypes, StakingInv

\* A slash takes no more than there is.
LEMMA SlashStep ==
  ASSUME Typed, NEW a \in Accounts, SlashValidator(a)
  PROVE  Typed'
<1> DEFINE stake   == validators[Position(a)].stake
           slashed == (stake * SlashPercent) \div 100
<1>1. stake \in Nat
  BY PositionFacts DEF Typed, StakingTypes, StakingInv, SlashValidator
<1> HIDE DEF stake
<1>2. stake - slashed \in Nat
  <2>1. stake * SlashPercent <= stake * 100 /\ stake * SlashPercent \in Nat
    BY <1>1, StakingAssumption, SMT
  <2>2. \A m \in Nat : m <= stake * 100 => m \div 100 <= stake /\ m \div 100 \in Nat
    BY <1>1, SMT
  <2>3. slashed \in Nat /\ slashed <= stake
    BY <2>1, <2>2
  <2>. QED BY <1>1, <2>3, SMT
<1>3. validators' \in Seq(Config) /\ OneConfigEach' /\ StakesAboveMinimum'
  BY RemovedKeepsVector DEF Typed, StakingTypes, StakingInv, SlashValidator
<1>4. queue' \subseteq Request /\ tickets' \in Nat /\ DueInOrder' /\ RequestsCurrent'
  <2>1. Enqueue(a, stake - slashed) /\ current_epoch' = current_epoch
    BY DEF SlashValidator, stake
  <2>. QED BY <1>2, <2>1, EnqueueKeepsQueue DEF Typed, StakingInv
<1>5. CoinTypes' /\ current_epoch' \in Nat
  BY DEF Typed, StakingTypes, CoinTypes, SlashValidator, coinVars
<1>. QED BY <1>3, <1>4, <1>5 DEF Typed, StakingTypes, StakingInv

LEMMA WithdrawStep ==
  ASSUME Typed, NEW a \in Accounts, WithdrawUnbonded(a)
  PROVE  Typed'
<1> DEFINE q == Oldest(RequestsOf(a))
<1>1. q \in queue /\ q.stake \in Nat
  BY OldestFacts DEF Typed, StakingTypes, WithdrawUnbonded, RequestsOf, Request
<1>2. CoinTypes'
  BY <1>1, CoinSteps DEF Typed, StakingTypes, WithdrawUnbonded
<1>3. /\ queue' \subseteq Request /\ tickets' \in Nat /\ current_epoch' \in Nat
      /\ DueInOrder' /\ RequestsCurrent'
  BY ShrinkKeepsQueue DEF Typed, StakingTypes, StakingInv, WithdrawUnbonded
<1>4. validators' = validators
  BY DEF WithdrawUnbonded
<1>. QED BY <1>2, <1>3, <1>4, SameVector DEF Typed, StakingTypes, StakingInv

\* An epoch pays rewards, and what stays in the queue is not yet stale.
LEMMA EpochStep ==
  ASSUME Typed, AdvanceEpoch
  PROVE  Typed'
<1> DEFINE supply == SupplyAfterCleanup
           reward == Reward(current_epoch + 1)
           paid   == {i \in DOMAIN validators : supply + i * reward <= MaxSupply}
           more   == [i \in DOMAIN validators |-> IF i \in paid THEN reward ELSE 0]
<1>1. current_epoch \in Nat /\ current_epoch + 1 \in 0..MaxEpoch
  BY StakingAssumption, SMT DEF Typed, StakingTypes, AdvanceEpoch
<1>2. reward \in Nat
  BY <1>1, RewardType
<1> HIDE DEF supply, reward
<1>3. validators' \in Seq(Config) /\ OneConfigEach' /\ StakesAboveMinimum'
  <2>1. validators' = [i \in DOMAIN validators |->
          [validators[i] EXCEPT !.stake = IF i \in paid THEN @ + reward ELSE @]]
    BY DEF AdvanceEpoch, supply, reward
  <2> HIDE DEF paid
  <2>2. \A i \in DOMAIN validators : validators[i] \in Config
    BY SMT DEF Typed, StakingTypes
  <2>3. \A i \in DOMAIN validators :
          [validators[i] EXCEPT !.stake = @ + 0] = validators[i]
    BY <2>2, SMT DEF Config
  <2>4. \A i \in DOMAIN validators : [validators[i] EXCEPT !.stake = @] = validators[i]
    BY <2>2, SMT DEF Config
  <2>5. validators' = [i \in DOMAIN validators |->
          [validators[i] EXCEPT !.stake = @ + more[i]]]
    BY <2>1, <2>3, <2>4
  <2>6. more \in [DOMAIN validators -> Nat]
    BY <1>2
  <2>. QED BY <2>5, <2>6, RaisedKeepsVector
<1>4. /\ queue' = queue \ Stale /\ tickets' = tickets
      /\ current_epoch' = current_epoch + 1
  BY DEF AdvanceEpoch
<1>5. queue' \subseteq Request /\ tickets' \in Nat /\ DueInOrder'
  BY <1>4 DEF Typed, StakingTypes, StakingInv, DueInOrder
<1>6. RequestsCurrent'
  <2> SUFFICES ASSUME NEW q \in queue'
               PROVE  /\ q.unlock <= Now' + UnbondingPeriod
                      /\ Now' < q.unlock + GracePeriod + EpochSeconds
    BY DEF RequestsCurrent
  <2>1. q.unlock \in Nat /\ q.unlock <= Now + UnbondingPeriod
    BY <1>4 DEF Typed, StakingTypes, Request, StakingInv, RequestsCurrent
  <2>2. ~(Now >= q.unlock + GracePeriod)
    BY <1>4 DEF Stale
  <2>3. Now \in Nat /\ Now' = Now + EpochSeconds /\ EpochSeconds \in Nat
    BY <1>1, <1>4, TimeSteps DEF Now
  <2>. QED BY <2>1, <2>2, <2>3, StakingAssumption, SMT
<1>7. CoinTypes' /\ current_epoch' \in Nat
  BY <1>1, <1>4, SMT DEF Typed, StakingTypes, CoinTypes, AdvanceEpoch, coinVars
<1>. QED BY <1>3, <1>5, <1>6, <1>7 DEF Typed, StakingTypes, StakingInv

LEMMA NextTyped == Typed /\ [Next]_vars => Typed'
<1> SUFFICES ASSUME Typed, [Next]_vars PROVE Typed'
  OBVIOUS
<1> USE SupplyAssumption
<1>1. CoinTypes /\ \A x \in Amounts : x \in Nat
  BY DEF Typed, StakingTypes
<1>2. ASSUME NEW a \in Accounts, Register(a) PROVE Typed'
  BY <1>1, <1>2, CoinSteps, CoinOnlyStep DEF Register, stakingVars
<1>3. ASSUME NEW a \in Accounts, NEW b \in Accounts, NEW x \in Amounts, Transfer(a, b, x)
      PROVE  Typed'
  BY <1>1, <1>3, CoinSteps, CoinOnlyStep DEF Transfer, stakingVars
<1>4. ASSUME NEW a \in Accounts, NEW x \in Amounts,
             SellAin(a, x) \/ DeductGas(a, x) \/ DepositFeeReward(a, x)
      PROVE  Typed'
  <2>1. Deposit(a, x) \/ Withdraw(a, x)
    BY <1>4 DEF SellAin, DeductGas, DepositFeeReward
  <2>2. UNCHANGED stakingVars
    BY <1>4 DEF SellAin, DeductGas, DepositFeeReward
  <2>. QED BY <1>1, <2>1, <2>2, CoinSteps, CoinOnlyStep DEF stakingVars
<1>5. ASSUME NEW a \in Accounts, NEW x \in Amounts, MintReward(a, x) PROVE Typed'
  BY <1>1, <1>5, CoinSteps, CoinOnlyStep DEF MintReward
<1>6. ASSUME NEW a \in Accounts, Staked(a) PROVE Typed'
  BY <1>1, <1>5, <1>6, JoinStep, AddStakeStep, LeaveStep, WithdrawStep, SlashStep DEF Staked
<1>7. CASE UNCHANGED vars
  <2>1. CoinTypes'
    BY <1>1, <1>7 DEF CoinTypes, vars, coinVars
  <2>. QED BY <1>7, <2>1, CoinOnlyStep DEF vars, stakingVars
<1>. QED BY <1>2, <1>3, <1>4, <1>6, <1>7, EpochStep DEF Next

\* No validator is in the active set twice or with less than the minimum, and the
\* requests of the queue fall due in the order they were made, never later than one
\* unbonding period from now (staking.move, join_validator_set to slash_validator).
THEOREM StakingInvariant == Spec => [](StakingTypes /\ StakingInv)
<1>1. Spec => []Typed
  BY InitTyped, NextTyped, PTL DEF Spec
<1>2. Typed <=> StakingTypes /\ StakingInv
  BY DEF Typed
<1>. QED BY <1>1, <1>2, PTL

\* No due request waits behind one of the same account that is not due, so that the
\* first match in withdraw_unbonded is always one that can be paid.
THEOREM DueWithdrawable == Spec => []DueIsWithdrawable
<1>1. Spec => []Typed
  BY InitTyped, NextTyped, PTL DEF Spec
<1>. QED BY <1>1, InOrderDue, PTL

-----------------------------------------------------------------------------
(* The supply: what the sums over accounts, stakes and requests become *)

LEMMA StakeInType ==
  ASSUME NEW vs \in Seq(Config)
  PROVE  /\ IsFiniteSet(DOMAIN vs) /\ DOMAIN vs = 1..Len(vs) /\ Len(vs) \in Nat
         /\ \A i \in DOMAIN vs : vs[i] \in Config /\ vs[i].stake \in Nat
         /\ StakeIn(vs) = SumFunctionOnSet([i \in DOMAIN vs |-> vs[i].stake], DOMAIN vs)
         /\ StakeIn(vs) \in Nat
<1> DEFINE D == DOMAIN vs
           f == [i \in D |-> vs[i].stake]
<1>1. D = 1..Len(vs) /\ Len(vs) \in Nat
  BY SMT
<1>2. IsFiniteSet(D)
  BY <1>1, FS_Interval
<1>3. \A i \in D : vs[i] \in Config /\ vs[i].stake \in Nat
  <2>1. \A i \in D : vs[i] \in Config
    BY <1>1, SMT
  <2>. QED BY <2>1 DEF Config
<1>4. \A i \in D : f[i] \in Nat
  BY <1>3
<1>5. StakeIn(vs) = SumFunctionOnSet(f, D)
  BY DEF StakeIn, SumFunction
<1> HIDE DEF f
<1>6. StakeIn(vs) \in Nat
  BY <1>2, <1>4, <1>5, SumNat
<1>. QED BY <1>1, <1>2, <1>3, <1>5, <1>6 DEF f

\* A validator that joins brings its stake.
LEMMA StakeInAppend ==
  ASSUME NEW vs \in Seq(Config), NEW c \in Config
  PROVE  StakeIn(Append(vs, c)) = StakeIn(vs) + c.stake
<1> DEFINE n == Len(vs)
           ws == Append(vs, c)
           f == [i \in DOMAIN vs |-> vs[i].stake]
           g == [i \in DOMAIN ws |-> ws[i].stake]
<1>1. /\ ws \in Seq(Config) /\ n \in Nat /\ Len(ws) = n + 1
      /\ DOMAIN vs = 1..n /\ DOMAIN ws = 1..(n + 1)
      /\ ws[n + 1] = c /\ \A i \in 1..n : ws[i] = vs[i]
  BY SMT
<1>2. 1..(n + 1) = (1..n) \cup {n + 1} /\ n + 1 \notin 1..n
  BY <1>1, SMT
<1>3. /\ IsFiniteSet(1..n) /\ StakeIn(vs) = SumFunctionOnSet(f, 1..n)
      /\ StakeIn(ws) = SumFunctionOnSet(g, 1..(n + 1))
      /\ \A i \in 1..(n + 1) : ws[i].stake \in Nat
      /\ \A i \in 1..n : vs[i].stake \in Nat
  BY <1>1, StakeInType
<1>4. \A i \in (1..n) \cup {n + 1} : g[i] \in Int
  BY <1>1, <1>2, <1>3
<1>5. \A i \in 1..n : g[i] = f[i]
  BY <1>1, <1>2
<1>6. g[n + 1] = c.stake
  BY <1>1, <1>2
<1> HIDE DEF f, g, n, ws
<1>7. SumFunctionOnSet(g, (1..n) \cup {n + 1}) = g[n + 1] + SumFunctionOnSet(g, 1..n)
  BY <1>2, <1>3, <1>4, SumAdd
<1>8. SumFunctionOnSet(g, 1..n) = SumFunctionOnSet(f, 1..n)
  BY <1>3, <1>5, SumSame
<1>9. StakeIn(vs) \in Nat /\ c.stake \in Nat
  BY StakeInType DEF Config
<1>10. StakeIn(ws) = c.stake + StakeIn(vs)
  BY <1>2, <1>3, <1>6, <1>7, <1>8
<1>11. StakeIn(ws) = StakeIn(vs) + c.stake
  BY <1>9, <1>10
<1>. QED BY <1>11 DEF ws

\* One that goes takes its stake along.
LEMMA StakeInRemove ==
  ASSUME NEW vs \in Seq(Config), NEW p \in 1..Len(vs)
  PROVE  StakeIn(RemoveAt(vs, p)) = StakeIn(vs) - vs[p].stake
<1> DEFINE n == Len(vs)
           ws == RemoveAt(vs, p)
           D == 1..n
           R == 1..(n - 1)
           f == [i \in DOMAIN vs |-> vs[i].stake]
           g == [i \in DOMAIN ws |-> ws[i].stake]
           b == [j \in R |-> IF j < p THEN j ELSE j + 1]
<1>1. /\ n \in Nat /\ DOMAIN vs = D /\ ws \in Seq(Config) /\ Len(ws) = n - 1
      /\ \A j \in R : ws[j] = vs[b[j]]
  <2>1. n \in Nat /\ DOMAIN vs = D
    BY SMT
  <2>2. /\ ws \in Seq(Config) /\ Len(ws) = n - 1
        /\ \A j \in R : ws[j] = vs[IF j < p THEN j ELSE j + 1]
    BY RemoveAtFacts
  <2>. QED BY <2>1, <2>2
<1>2. DOMAIN ws = R
  <2>1. DOMAIN ws = 1..Len(ws)
    BY <1>1, SMT
  <2>. QED BY <1>1, <2>1
<1>a. /\ \A k \in D : f[k] = vs[k].stake
      /\ \A j \in R : g[j] = ws[j].stake
  BY <1>1, <1>2
<1>3. /\ IsFiniteSet(D) /\ IsFiniteSet(R)
      /\ StakeIn(vs) = SumFunctionOnSet(f, D) /\ StakeIn(ws) = SumFunctionOnSet(g, R)
      /\ \A k \in D : vs[k].stake \in Nat
      /\ \A j \in R : ws[j].stake \in Nat
  BY <1>1, <1>2, StakeInType
<1>4. /\ \A j \in R : b[j] \in D \ {p}
      /\ \A i, j \in R : b[i] = b[j] => i = j
      /\ \A k \in D \ {p} : \E j \in R : b[j] = k
  <2>1. \A j \in R : b[j] \in D \ {p}
    BY <1>1, SMT
  <2>2. \A i, j \in R : b[i] = b[j] => i = j
    BY <1>1, SMT
  <2>3. ASSUME NEW k \in D \ {p} PROVE \E j \in R : b[j] = k
    <3>1. CASE k < p
      <4>1. k \in R /\ b[k] = k
        BY <3>1, <1>1, SMT
      <4>. QED BY <4>1
    <3>2. CASE ~(k < p)
      <4>1. k - 1 \in R /\ b[k - 1] = k
        BY <3>2, <1>1, SMT
      <4>. QED BY <4>1
    <3>. QED BY <3>1, <3>2
  <2>. QED BY <2>1, <2>2, <2>3
<1> DEFINE x == p
<1>5. {b[j] : j \in R} = D \ {x}
  <2> HIDE DEF b, D, R
  <2>. QED BY <1>4
<1>8. f[x] = vs[p].stake /\ x \in D
  BY <1>a
<1> HIDE DEF f, g, b, D, R, n, ws, x
<1>6. \A j \in R : f[b[j]] = g[j] /\ g[j] \in Int
  BY <1>1, <1>a, <1>3, <1>4
<1>7. \A i \in D : f[i] \in Int
  BY <1>a, <1>3
<1>9. SumFunctionOnSet(f, D \ {x}) = SumFunctionOnSet(g, R)
  <2>1. IsFiniteSet(R) /\ (\A i, j \in R : b[i] = b[j] => i = j)
    BY <1>3, <1>4
  <2>2. (\A j \in R : g[j] \in Int) /\ (\A j \in R : f[b[j]] = g[j])
    BY <1>6
  <2>3. SumFunctionOnSet(f, {b[j] : j \in R}) = SumFunctionOnSet(g, R)
    BY ONLY <2>1, <2>2, SumReindexed
  <2>. QED BY <1>5, <2>3
<1>10. SumFunctionOnSet(f, D) = f[x] + SumFunctionOnSet(f, D \ {x})
  BY <1>3, <1>7, <1>8, SumRemove
<1>11. StakeIn(ws) \in Nat /\ vs[p].stake \in Nat
  BY <1>1, <1>3, <1>8, StakeInType DEF D, n
<1>12. StakeIn(vs) = vs[p].stake + StakeIn(ws)
  BY <1>3, <1>8, <1>9, <1>10
<1>13. StakeIn(ws) = StakeIn(vs) - vs[p].stake
  BY <1>11, <1>12
<1>. QED BY <1>13 DEF ws

\* The same reward for each validator of a set.
LEMMA StakeInRaised ==
  ASSUME NEW vs \in Seq(Config), NEW T \in SUBSET DOMAIN vs, NEW r \in Nat,
         NEW ws, ws \in Seq(Config), DOMAIN ws = DOMAIN vs,
         \A i \in DOMAIN vs : ws[i].stake = IF i \in T THEN vs[i].stake + r ELSE vs[i].stake
  PROVE  StakeIn(ws) = StakeIn(vs) + r * Cardinality(T)
<1> DEFINE D == DOMAIN vs
           f == [i \in DOMAIN vs |-> vs[i].stake]
           g == [i \in DOMAIN ws |-> ws[i].stake]
<1>1. /\ IsFiniteSet(D) /\ StakeIn(vs) = SumFunctionOnSet(f, D) /\ StakeIn(ws) = SumFunctionOnSet(g, D)
      /\ \A i \in D : vs[i].stake \in Nat
  BY StakeInType
<1>2. \A i \in D : f[i] \in Int /\ g[i] = IF i \in T THEN f[i] + r ELSE f[i]
  BY <1>1
<1>3. T \in SUBSET D /\ r \in Int
  OBVIOUS
<1> HIDE DEF f, g, D
<1>4. SumFunctionOnSet(g, D) = SumFunctionOnSet(f, D) + r * Cardinality(T)
  BY ONLY <1>1, <1>2, <1>3, SumRaised
<1>. QED BY <1>1, <1>4

LEMMA OwedInType ==
  ASSUME NEW S, IsFiniteSet(S), S \subseteq Request
  PROVE  /\ OwedIn(S) = SumFunctionOnSet([q \in S |-> q.stake], S)
         /\ OwedIn(S) \in Nat /\ \A q \in S : q.stake \in Nat
<1> DEFINE f == [q \in S |-> q.stake]
<1>1. \A q \in S : q.stake \in Nat
  BY DEF Request
<1>2. \A q \in S : f[q] \in Nat
  BY <1>1
<1>3. OwedIn(S) = SumFunctionOnSet(f, S)
  BY DEF OwedIn, SumFunction
<1> HIDE DEF f
<1>4. OwedIn(S) \in Nat
  BY <1>2, <1>3, SumNat
<1>. QED BY <1>1, <1>3, <1>4 DEF f

\* What a part of the requests is for, and what the others are for.
LEMMA OwedInSplit ==
  ASSUME NEW S, IsFiniteSet(S), S \subseteq Request, NEW T \in SUBSET S
  PROVE  OwedIn(S) = OwedIn(T) + OwedIn(S \ T)
<1> DEFINE f == [q \in S |-> q.stake]
           g == [q \in T |-> q.stake]
           h == [q \in S \ T |-> q.stake]
<1>1. IsFiniteSet(T) /\ IsFiniteSet(S \ T) /\ T \subseteq Request /\ S \ T \subseteq Request
  <2>1. T \in SUBSET S /\ S \ T \in SUBSET S
    OBVIOUS
  <2>. QED BY <2>1, FS_Subset
<1>2. /\ OwedIn(S) = SumFunctionOnSet(f, S) /\ OwedIn(T) = SumFunctionOnSet(g, T)
      /\ OwedIn(S \ T) = SumFunctionOnSet(h, S \ T)
  BY DEF OwedIn, SumFunction
<1>a. \A q \in S : q.stake \in Nat
  BY DEF Request
<1>3. /\ \A q \in S : f[q] \in Int
      /\ \A q \in T : f[q] = g[q]
      /\ \A q \in S \ T : f[q] = h[q]
  BY <1>a
<1> HIDE DEF f, g, h
<1>4. SumFunctionOnSet(f, T) = SumFunctionOnSet(g, T)
  BY <1>1, <1>3, SumSame
<1>5. SumFunctionOnSet(f, S \ T) = SumFunctionOnSet(h, S \ T)
  BY <1>1, <1>3, SumSame
<1>6. SumFunctionOnSet(f, S) = SumFunctionOnSet(f, T) + SumFunctionOnSet(f, S \ T)
  BY <1>3, SumSubset
<1>. QED BY <1>2, <1>4, <1>5, <1>6

LEMMA OwedInOne ==
  ASSUME NEW q \in Request
  PROVE  OwedIn({q}) = q.stake
<1> DEFINE f == [r \in {q} |-> r.stake]
<1>0. q.stake \in Nat
  BY DEF Request
<1>1. IsFiniteSet({q}) /\ f[q] \in Int /\ f[q] = q.stake
  BY <1>0, FS_Singleton
<1>2. OwedIn({q}) = SumFunctionOnSet(f, {q})
  BY DEF OwedIn, SumFunction
<1>3. \A r \in {q} : f[r] \in Int
  BY <1>1
<1> HIDE DEF f
<1>4. SumFunctionOnSet(f, {q}) = f[q] + SumFunctionOnSet(f, {q} \ {q})
  BY <1>1, <1>3, SumRemove
<1>5. {q} \ {q} = {}
  OBVIOUS
<1>6. SumFunctionOnSet(f, {q} \ {q}) = 0
  BY <1>5, SumEmpty
<1>. QED BY <1>1, <1>2, <1>4, <1>6

Held == SumFunction(balance)

LEMMA HeldType == CoinTypes => Held \in Nat
BY AccountsAssumption, FunctionSum DEF CoinTypes, Held

\* A deposit adds its amount to what the stores hold, a withdrawal takes it away, and
\* a transfer does neither.
LEMMA DepositHeld ==
  ASSUME CoinTypes, NEW a \in Accounts, NEW x \in Nat, Deposit(a, x)
  PROVE  Held' = Held + x
<1>1. /\ balance \in [Accounts -> Nat] /\ balance' \in [Accounts -> Nat]
      /\ balance'[a] = balance[a] + x
      /\ \A b \in Accounts : b # a => balance'[b] = balance[b]
  BY DEF CoinTypes, Deposit
<1>2. SumFunction(balance') = SumFunction(balance) - balance[a] + balance'[a]
  BY <1>1, AccountsAssumption, FunctionSumChanged
<1>3. Held' = Held - balance[a] + balance'[a]
  BY <1>2 DEF Held
<1>4. balance[a] \in Nat /\ Held \in Nat
  BY <1>1, HeldType
<1>. QED BY <1>1, <1>3, <1>4

LEMMA WithdrawHeld ==
  ASSUME CoinTypes, NEW a \in Accounts, NEW x \in Nat, Withdraw(a, x)
  PROVE  Held' = Held - x
<1>1. /\ balance \in [Accounts -> Nat] /\ balance' \in [Accounts -> Nat]
      /\ balance'[a] = balance[a] - x
      /\ \A b \in Accounts : b # a => balance'[b] = balance[b]
  BY DEF CoinTypes, Withdraw
<1>2. SumFunction(balance') = SumFunction(balance) - balance[a] + balance'[a]
  BY <1>1, AccountsAssumption, FunctionSumChanged
<1>3. Held' = Held - balance[a] + balance'[a]
  BY <1>2 DEF Held
<1>4. balance[a] \in Nat /\ Held \in Nat
  BY <1>1, HeldType
<1>. QED BY <1>1, <1>3, <1>4

LEMMA MoveHeld ==
  ASSUME CoinTypes, NEW a \in Accounts, NEW b \in Accounts, NEW x \in Nat, Move(a, b, x)
  PROVE  Held' = Held
<1> DEFINE debited == [balance EXCEPT ![a] = @ - x]
<1>1. /\ balance \in [Accounts -> Nat] /\ debited \in [Accounts -> Nat]
      /\ debited[a] = balance[a] - x
      /\ \A c \in Accounts : c # a => debited[c] = balance[c]
  BY DEF CoinTypes, Move
<1>2. balance' = [debited EXCEPT ![b] = @ + x]
  BY DEF Move
<1> HIDE DEF debited
<1>3. /\ balance' \in [Accounts -> Nat]
      /\ balance'[b] = debited[b] + x
      /\ \A c \in Accounts : c # b => balance'[c] = debited[c]
  BY <1>1, <1>2
<1>4. SumFunction(debited) = SumFunction(balance) - balance[a] + debited[a]
  BY <1>1, AccountsAssumption, FunctionSumChanged
<1>5. SumFunction(balance') = SumFunction(debited) - debited[b] + balance'[b]
  BY <1>1, <1>3, AccountsAssumption, FunctionSumChanged
<1>6. /\ balance[a] \in Nat /\ debited[b] \in Nat
      /\ SumFunction(balance) \in Nat /\ SumFunction(debited) \in Nat
  BY <1>1, AccountsAssumption, FunctionSum
<1>7. SumFunction(debited) = SumFunction(balance) - x
  BY <1>1, <1>4, <1>6
<1>8. SumFunction(balance') = SumFunction(debited) + x
  BY <1>3, <1>5, <1>6
<1>. QED BY <1>6, <1>7, <1>8 DEF Held

\* The inductive invariant: the counters are naturals, the queue is finite, and the
\* coins there are do not exceed the counter by more than they should.
SupplyTyped == Typed /\ {total_supply, burnt, credited, reserve} \subseteq Nat /\ IsFiniteSet(queue)
SupplyInv   == SupplyTyped /\ Counted

SumsTyped ==
  /\ Held \in Nat /\ StakeIn(validators) \in Nat /\ OwedIn(queue) \in Nat
  /\ total_supply \in Nat /\ burnt \in Nat /\ credited \in Nat /\ reserve \in Nat
  /\ GenesisReserve \in Nat
  /\ Circulating = Held + StakeIn(validators) + OwedIn(queue) + reserve

LEMMA SumsOfState == SupplyTyped => SumsTyped
BY HeldType, StakeInType, OwedInType, SupplyAssumption
   DEF SupplyTyped, Typed, StakingTypes, Circulating, Held, SumsTyped

LEMMA SlashedPart ==
  ASSUME NEW s \in Nat
  PROVE  (s * SlashPercent) \div 100 \in Nat /\ s - ((s * SlashPercent) \div 100) \in Nat
<1>1. s * SlashPercent <= s * 100 /\ s * SlashPercent \in Nat
  BY StakingAssumption, SMT
<1>2. \A m \in Nat : m <= s * 100 => m \div 100 <= s /\ m \div 100 \in Nat
  BY SMT
<1> DEFINE t == (s * SlashPercent) \div 100
<1>3. t \in Nat /\ t <= s
  BY <1>1, <1>2
<1> HIDE DEF t
<1>4. t \in Nat /\ s - t \in Nat
  BY <1>3, SMT
<1>. QED BY <1>4 DEF t

\* A new request is for what it is for.
LEMMA EnqueueOwed ==
  ASSUME SupplyTyped, NEW a \in Accounts, NEW x \in Nat, Enqueue(a, x)
  PROVE  IsFiniteSet(queue') /\ OwedIn(queue') = OwedIn(queue) + x
<1> DEFINE new == [ticket |-> tickets, addr |-> a, stake |-> x, unlock |-> Now + UnbondingPeriod]
<1>1. /\ queue \subseteq Request /\ tickets \in Nat /\ IsFiniteSet(queue)
      /\ \A q \in queue : q.ticket < tickets
  BY DEF SupplyTyped, Typed, StakingTypes, StakingInv, DueInOrder
<1>2. Now \in Nat /\ UnbondingPeriod \in Nat
  BY TimeSteps, StakingAssumption DEF SupplyTyped, Typed, StakingTypes
<1>3. new \in Request /\ new.stake = x /\ new.ticket = tickets
  BY <1>1, <1>2 DEF Request
<1>4. queue' = queue \cup {new}
  BY DEF Enqueue
<1> HIDE DEF new
<1>5. new \notin queue
  BY <1>1, <1>3
<1>6. IsFiniteSet(queue') /\ queue' \subseteq Request
  BY <1>1, <1>3, <1>4, FS_AddElement
<1>7. OwedIn(queue') = OwedIn(queue) + OwedIn(queue' \ queue)
  BY <1>4, <1>6, OwedInSplit
<1>8. queue' \ queue = {new}
  BY <1>4, <1>5
<1>. QED BY <1>3, <1>6, <1>7, <1>8, OwedInOne

LEMMA PositionInVector ==
  ASSUME Typed, NEW a, IsValidator(a)
  PROVE  /\ validators \in Seq(Config) /\ Position(a) \in 1..Len(validators)
         /\ validators[Position(a)].stake \in Nat
BY PositionFacts DEF Typed, StakingTypes, StakingInv

\* The steps of the contract, one by one: what they do to the sums.
LEMMA JoinSums ==
  ASSUME SupplyTyped, NEW a \in Accounts, NEW x \in Nat, JoinValidatorSet(a, x)
  PROVE  Held' = Held - x /\ StakeIn(validators') = StakeIn(validators) + x
<1> DEFINE new == [addr |-> a, stake |-> x]
<1>1. CoinTypes /\ validators \in Seq(Config) /\ Withdraw(a, x) /\ validators' = Append(validators, new)
  BY DEF SupplyTyped, Typed, StakingTypes, JoinValidatorSet
<1>2. new \in Config /\ new.stake = x
  BY DEF Config
<1> HIDE DEF new
<1>. QED BY <1>1, <1>2, WithdrawHeld, StakeInAppend

LEMMA AddStakeSums ==
  ASSUME SupplyTyped, NEW a \in Accounts, NEW x \in Nat, AddStake(a, x)
  PROVE  Held' = Held - x /\ StakeIn(validators') = StakeIn(validators) + x
<1> DEFINE p == Position(a)
<1>1. CoinTypes /\ Withdraw(a, x) /\ IsValidator(a) /\ Typed
  BY DEF SupplyTyped, Typed, StakingTypes, AddStake
<1>2. /\ validators \in Seq(Config) /\ p \in DOMAIN validators
      /\ validators' = [validators EXCEPT ![p].stake = @ + x]
      /\ validators[p].stake \in Nat
  BY <1>1, PositionInVector, StakeInType DEF AddStake
<1>3. /\ validators' \in Seq(Config) /\ DOMAIN validators' = DOMAIN validators
  <2>1. Typed'
    BY <1>1, AddStakeStep
  <2>2. DOMAIN validators' = DOMAIN validators
    BY <1>2
  <2>. QED BY <2>1, <2>2 DEF Typed, StakingTypes
<1>4. \A i \in DOMAIN validators :
        validators'[i].stake = IF i \in {p} THEN validators[i].stake + x ELSE validators[i].stake
  <2>1. \A i \in DOMAIN validators : validators[i] \in Config
    BY <1>2, StakeInType
  <2> HIDE DEF p
  <2>. QED BY <1>2, <2>1 DEF Config
<1>5. {p} \in SUBSET DOMAIN validators
  BY <1>2
<1> DEFINE T == {p}
<1>6. Cardinality(T) = 1
  BY FS_Singleton
<1> HIDE DEF T
<1>7. StakeIn(validators') = StakeIn(validators) + x * Cardinality(T)
  BY <1>2, <1>3, <1>4, <1>5, StakeInRaised DEF T
<1>8. x * 1 = x
  OBVIOUS
<1>. QED BY <1>1, <1>6, <1>7, <1>8, WithdrawHeld

LEMMA EpochSums ==
  ASSUME SupplyTyped, AdvanceEpoch
  PROVE  /\ Held' = Held /\ IsFiniteSet(queue') /\ total_supply' \in Nat
         /\ StakeIn(validators') + OwedIn(queue') - total_supply'
              <= StakeIn(validators) + OwedIn(queue) - total_supply
<1> DEFINE supply == SupplyAfterCleanup
           reward == Reward(current_epoch + 1)
           paid   == {i \in DOMAIN validators : supply + i * reward <= MaxSupply}
<1>1. current_epoch + 1 \in 0..MaxEpoch /\ validators \in Seq(Config)
  BY StakingAssumption, SMT DEF SupplyTyped, Typed, StakingTypes, AdvanceEpoch
<1>2. reward \in Nat
  BY <1>1, RewardType
<1>3. queue \subseteq Request /\ IsFiniteSet(queue) /\ Stale \in SUBSET queue
  BY DEF SupplyTyped, Typed, StakingTypes, Stale
<1>4. /\ IsFiniteSet(Stale) /\ IsFiniteSet(queue \ Stale)
      /\ OwedIn(queue) = OwedIn(Stale) + OwedIn(queue \ Stale)
      /\ OwedIn(Stale) \in Nat /\ OwedIn(queue \ Stale) \in Nat
  <2>1. queue \ Stale \in SUBSET queue
    OBVIOUS
  <2>2. IsFiniteSet(Stale) /\ IsFiniteSet(queue \ Stale)
    BY <1>3, <2>1, FS_Subset
  <2>3. OwedIn(queue) = OwedIn(Stale) + OwedIn(queue \ Stale)
    BY <1>3, OwedInSplit
  <2>4. Stale \subseteq Request /\ queue \ Stale \subseteq Request
    BY <1>3
  <2>. QED BY <2>2, <2>3, <2>4, OwedInType
<1>5. /\ supply \in Nat /\ supply >= total_supply - OwedIn(Stale) /\ total_supply \in Nat
  <2>1. total_supply \in Nat
    BY SumsOfState DEF SumsTyped
  <2>. QED BY <1>4, <2>1 DEF SupplyAfterCleanup
<1>6. /\ queue' = queue \ Stale /\ total_supply' = supply + reward * Cardinality(paid)
      /\ validators' = [i \in DOMAIN validators |->
            [validators[i] EXCEPT !.stake = IF i \in paid THEN @ + reward ELSE @]]
      /\ balance' = balance
  BY DEF AdvanceEpoch, coinVars
<1>7. paid \in SUBSET DOMAIN validators
  OBVIOUS
<1> HIDE DEF supply, reward, paid
<1>8. IsFiniteSet(paid) /\ Cardinality(paid) \in Nat
  BY <1>1, <1>7, StakeInType, FS_Subset, FS_CardinalityType
<1>9. StakeIn(validators') = StakeIn(validators) + reward * Cardinality(paid)
  <2>1. \A i \in DOMAIN validators : validators[i] \in Config
    BY <1>1, StakeInType
  <2>2. \A i \in DOMAIN validators :
          validators'[i].stake = IF i \in paid THEN validators[i].stake + reward ELSE validators[i].stake
    BY <1>6, <2>1 DEF Config
  <2>3. DOMAIN validators' = DOMAIN validators
    BY <1>6
  <2>4. validators' \in Seq(Config)
    BY EpochStep DEF SupplyTyped, Typed, StakingTypes
  <2>. QED BY <1>1, <1>2, <1>7, <2>2, <2>3, <2>4, StakeInRaised
<1>10. reward * Cardinality(paid) \in Nat
  BY <1>2, <1>8, SMT
<1>11. StakeIn(validators) \in Nat
  BY <1>1, StakeInType
<1>12. Held' = Held
  BY <1>6 DEF Held
<1>. QED BY <1>4, <1>5, <1>6, <1>9, <1>10, <1>11, <1>12

LEMMA LeaveSums ==
  ASSUME SupplyTyped, NEW a \in Accounts, LeaveValidatorSet(a)
  PROVE  /\ Held' = Held /\ IsFiniteSet(queue')
         /\ StakeIn(validators') + OwedIn(queue') = StakeIn(validators) + OwedIn(queue)
<1> DEFINE stake == validators[Position(a)].stake
<1>1. /\ IsValidator(a) /\ validators' = RemoveAt(validators, Position(a))
      /\ Enqueue(a, stake) /\ balance' = balance
  BY DEF LeaveValidatorSet, coinVars
<1>2. validators \in Seq(Config) /\ Position(a) \in 1..Len(validators) /\ stake \in Nat
  BY <1>1, PositionInVector DEF SupplyTyped
<1>3. StakeIn(validators') = StakeIn(validators) - stake
  BY <1>1, <1>2, StakeInRemove
<1> HIDE DEF stake
<1>4. IsFiniteSet(queue') /\ OwedIn(queue') = OwedIn(queue) + stake
  BY <1>1, <1>2, EnqueueOwed
<1>5. Held' = Held
  BY <1>1 DEF Held
<1>. QED BY <1>2, <1>3, <1>4, <1>5, SumsOfState DEF SumsTyped

LEMMA SlashSums ==
  ASSUME SupplyTyped, NEW a \in Accounts, SlashValidator(a)
  PROVE  /\ Held' = Held /\ IsFiniteSet(queue') /\ burnt' \in Nat
         /\ StakeIn(validators') + OwedIn(queue') + burnt'
              = StakeIn(validators) + OwedIn(queue) + burnt
<1> DEFINE stake   == validators[Position(a)].stake
           slashed == (stake * SlashPercent) \div 100
<1>1. /\ IsValidator(a) /\ validators' = RemoveAt(validators, Position(a))
      /\ Enqueue(a, stake - slashed) /\ burnt' = burnt + slashed /\ balance' = balance
  BY DEF SlashValidator, coinVars
<1>2. validators \in Seq(Config) /\ Position(a) \in 1..Len(validators) /\ stake \in Nat
  BY <1>1, PositionInVector DEF SupplyTyped
<1>3. StakeIn(validators') = StakeIn(validators) - stake
  BY <1>1, <1>2, StakeInRemove
<1> HIDE DEF stake
<1>4. slashed \in Nat /\ stake - slashed \in Nat
  BY <1>2, SlashedPart
<1> HIDE DEF slashed
<1>5. IsFiniteSet(queue') /\ OwedIn(queue') = OwedIn(queue) + (stake - slashed)
  BY <1>1, <1>4, EnqueueOwed
<1>6. Held' = Held
  BY <1>1 DEF Held
<1>7. StakeIn(validators) \in Nat /\ OwedIn(queue) \in Nat /\ burnt \in Nat
  BY SumsOfState DEF SumsTyped
<1>8. \A s, o, u, k, l \in Int : (s - k) + (o + (k - l)) + (u + l) = s + o + u
  OBVIOUS
<1>9. burnt' \in Nat
  BY <1>1, <1>4, <1>7
<1>. QED BY <1>1, <1>2, <1>3, <1>4, <1>5, <1>6, <1>7, <1>8, <1>9

LEMMA WithdrawSums ==
  ASSUME SupplyTyped, NEW a \in Accounts, WithdrawUnbonded(a)
  PROVE  /\ IsFiniteSet(queue') /\ validators' = validators
         /\ Held' + OwedIn(queue') = Held + OwedIn(queue)
<1> DEFINE q == Oldest(RequestsOf(a))
<1>1. q \in queue
  BY OldestFacts DEF SupplyTyped, Typed, WithdrawUnbonded, RequestsOf
<1>2. /\ Deposit(a, q.stake) /\ queue' = queue \ {q} /\ validators' = validators
  BY DEF WithdrawUnbonded
<1> HIDE DEF q
<1>3. queue \subseteq Request /\ IsFiniteSet(queue) /\ CoinTypes
  BY DEF SupplyTyped, Typed, StakingTypes
<1>4. q \in Request /\ q.stake \in Nat /\ {q} \in SUBSET queue
  BY <1>1, <1>3 DEF Request
<1>5. IsFiniteSet(queue') /\ OwedIn(queue) = q.stake + OwedIn(queue')
  BY <1>2, <1>3, <1>4, OwedInSplit, OwedInOne, FS_RemoveElement
<1>6. Held' = Held + q.stake
  BY <1>2, <1>3, <1>4, DepositHeld
<1>7. queue' \subseteq Request
  BY <1>2, <1>3
<1>8. OwedIn(queue') \in Nat /\ Held \in Nat
  BY <1>5, <1>7, OwedInType, SumsOfState DEF SumsTyped
<1>. QED BY <1>2, <1>4, <1>5, <1>6, <1>8

LEMMA InitSupply == Init => SupplyInv
<1> SUFFICES ASSUME Init PROVE SupplyInv
  OBVIOUS
<1>1. Typed
  BY InitTyped
<1>2. /\ validators = GenesisValidators /\ queue = {} /\ total_supply = StakeIn(GenesisValidators)
      /\ burnt = 0 /\ credited = 0 /\ reserve = GenesisReserve
      /\ balance = [a \in Accounts |-> 0]
  BY DEF Init, StakingInit, CoinInit
<1>3. StakeIn(GenesisValidators) \in Nat /\ GenesisReserve \in Nat
  BY GenesisAssumption, SupplyAssumption, StakeInType
<1>4. SupplyTyped
  BY <1>1, <1>2, <1>3, FS_EmptySet DEF SupplyTyped
<1>5. Held = 0
  BY <1>2, AccountsAssumption, FunctionSumZero DEF Held
<1>6. OwedIn(queue) = 0
  <2>1. OwedIn(queue) = SumFunctionOnSet([q \in {} |-> q.stake], {})
    BY <1>2 DEF OwedIn, SumFunction
  <2>. QED BY <2>1, SumEmpty
<1>7. Counted
  BY <1>2, <1>3, <1>4, <1>5, <1>6, SumsOfState DEF Counted, SumsTyped
<1>. QED BY <1>4, <1>7 DEF SupplyInv

\* A step keeps the invariant when it makes no coin that the counter does not see.
LEMMA BalancedStep ==
  ASSUME SupplyInv, Typed', {total_supply', burnt', credited', reserve'} \subseteq Nat,
         IsFiniteSet(queue'),
         Held' + StakeIn(validators') + OwedIn(queue') + reserve' + burnt' - total_supply' - credited'
           <= Held + StakeIn(validators) + OwedIn(queue) + reserve + burnt - total_supply - credited
  PROVE  SupplyInv'
<1>1. SupplyTyped /\ SupplyTyped' /\ Counted
  BY DEF SupplyInv, SupplyTyped
<1>2. SumsTyped'
  BY <1>1, SumsOfState, PTL
<1>3. SumsTyped
  BY <1>1, SumsOfState
<1>4. Counted'
  BY <1>1, <1>2, <1>3 DEF Counted, SumsTyped
<1>. QED BY <1>1, <1>4 DEF SupplyInv

\* Steps that only move coins between the stores and the counters.
LEMMA SameStakes ==
  ASSUME UNCHANGED <<validators, queue>>
  PROVE  StakeIn(validators') = StakeIn(validators) /\ OwedIn(queue') = OwedIn(queue)
BY DEF StakeIn, OwedIn

LEMMA NextSupply == SupplyInv /\ [Next]_vars => SupplyInv'
<1> SUFFICES ASSUME SupplyInv, [Next]_vars PROVE SupplyInv'
  OBVIOUS
<1> USE SupplyAssumption
<1>1. SupplyTyped /\ Typed /\ CoinTypes /\ IsFiniteSet(queue) /\ \A x \in Amounts : x \in Nat
  BY DEF SupplyInv, SupplyTyped, Typed, StakingTypes
<1>2. Typed'
  BY <1>1, NextTyped
<1>3. /\ Held \in Nat /\ StakeIn(validators) \in Nat /\ OwedIn(queue) \in Nat
      /\ total_supply \in Nat /\ burnt \in Nat /\ credited \in Nat /\ reserve \in Nat
  BY <1>1, SumsOfState DEF SumsTyped
<1>4. ASSUME NEW a \in Accounts, Register(a) PROVE SupplyInv'
  <2>1. UNCHANGED <<validators, queue, balance, total_supply, burnt, credited, reserve>>
    BY <1>4 DEF Register, RegisterStore, stakingVars
  <2>2. Held' = Held
    BY <2>1 DEF Held
  <2>. QED BY <1>1, <1>2, <1>3, <2>1, <2>2, SameStakes, BalancedStep
<1>5. ASSUME NEW a \in Accounts, NEW b \in Accounts, NEW x \in Amounts, Transfer(a, b, x)
      PROVE  SupplyInv'
  <2>1. UNCHANGED <<validators, queue, total_supply, burnt, credited, reserve>> /\ Move(a, b, x)
    BY <1>5 DEF Transfer, stakingVars
  <2>2. Held' = Held
    BY <1>1, <2>1, MoveHeld
  <2>. QED BY <1>1, <1>2, <1>3, <2>1, <2>2, SameStakes, BalancedStep
<1>6. ASSUME NEW a \in Accounts, NEW x \in Amounts, SellAin(a, x) PROVE SupplyInv'
  <2>1. /\ UNCHANGED <<validators, queue, total_supply, burnt, credited>> /\ Deposit(a, x)
        /\ reserve' = reserve - x /\ reserve >= x /\ x \in Nat
    BY <1>1, <1>6 DEF SellAin, stakingVars
  <2>2. Held' = Held + x
    BY <1>1, <2>1, DepositHeld
  <2>. QED BY <1>1, <1>2, <1>3, <2>1, <2>2, SameStakes, BalancedStep
<1>7. ASSUME NEW a \in Accounts, NEW x \in Amounts, DeductGas(a, x) PROVE SupplyInv'
  <2>1. /\ UNCHANGED <<validators, queue, total_supply, credited, reserve>> /\ Withdraw(a, x)
        /\ burnt' = burnt + x /\ x \in Nat
    BY <1>1, <1>7 DEF DeductGas, stakingVars
  <2>2. Held' = Held - x
    BY <1>1, <2>1, WithdrawHeld
  <2>. QED BY <1>1, <1>2, <1>3, <2>1, <2>2, SameStakes, BalancedStep
<1>8. ASSUME NEW a \in Accounts, NEW x \in Amounts, DepositFeeReward(a, x) PROVE SupplyInv'
  <2>1. /\ UNCHANGED <<validators, queue, total_supply, burnt, reserve>> /\ Deposit(a, x)
        /\ credited' = credited + x /\ x \in Nat
    BY <1>1, <1>8 DEF DepositFeeReward, stakingVars
  <2>2. Held' = Held + x
    BY <1>1, <2>1, DepositHeld
  <2>. QED BY <1>1, <1>2, <1>3, <2>1, <2>2, SameStakes, BalancedStep
<1>9. ASSUME NEW a \in Accounts, Staked(a), UNCHANGED reserve PROVE SupplyInv'
  <2>1. ASSUME NEW x \in Amounts, JoinValidatorSet(a, x) PROVE SupplyInv'
    <3>1. UNCHANGED <<queue, total_supply, burnt, credited, reserve>> /\ OwedIn(queue') = OwedIn(queue)
      BY <2>1, <1>9 DEF JoinValidatorSet
    <3>2. Held' = Held - x /\ StakeIn(validators') = StakeIn(validators) + x /\ x \in Nat
      BY <1>1, <2>1, JoinSums
    <3>. QED BY <1>1, <1>2, <1>3, <3>1, <3>2, BalancedStep
  <2>2. ASSUME NEW x \in Amounts, AddStake(a, x) PROVE SupplyInv'
    <3>1. UNCHANGED <<queue, total_supply, burnt, credited, reserve>> /\ OwedIn(queue') = OwedIn(queue)
      BY <2>2, <1>9 DEF AddStake
    <3>2. Held' = Held - x /\ StakeIn(validators') = StakeIn(validators) + x /\ x \in Nat
      BY <1>1, <2>2, AddStakeSums
    <3>. QED BY <1>1, <1>2, <1>3, <3>1, <3>2, BalancedStep
  <2>3. ASSUME NEW x \in Amounts, MintReward(a, x) PROVE SupplyInv'
    <3>1. /\ UNCHANGED <<validators, queue, burnt, credited, reserve>> /\ Deposit(a, x)
          /\ total_supply' = total_supply + x /\ x \in Nat
      BY <1>1, <2>3, <1>9 DEF MintReward
    <3>2. Held' = Held + x
      BY <1>1, <3>1, DepositHeld
    <3>. QED BY <1>1, <1>2, <1>3, <3>1, <3>2, SameStakes, BalancedStep
  <2>4. CASE LeaveValidatorSet(a)
    <3>1. UNCHANGED <<total_supply, burnt, credited, reserve>>
      BY <2>4, <1>9 DEF LeaveValidatorSet
    <3>2. /\ Held' = Held /\ IsFiniteSet(queue')
          /\ StakeIn(validators') + OwedIn(queue') = StakeIn(validators) + OwedIn(queue)
      BY <1>1, <2>4, LeaveSums
    <3>3. /\ StakeIn(validators') \in Nat /\ OwedIn(queue') \in Nat
      BY <1>2, <3>2, StakeInType, OwedInType DEF Typed, StakingTypes
    <3>. QED BY <1>1, <1>2, <1>3, <3>1, <3>2, <3>3, BalancedStep
  <2>5. CASE WithdrawUnbonded(a)
    <3>1. UNCHANGED <<total_supply, burnt, credited, reserve>>
      BY <2>5, <1>9 DEF WithdrawUnbonded
    <3>2. /\ IsFiniteSet(queue') /\ validators' = validators
          /\ Held' + OwedIn(queue') = Held + OwedIn(queue)
      BY <1>1, <2>5, WithdrawSums
    <3>3. /\ StakeIn(validators') = StakeIn(validators) /\ OwedIn(queue') \in Nat /\ Held' \in Nat
      <4>1. CoinTypes'
        BY <1>2 DEF Typed, StakingTypes
      <4>2. (Held \in Nat)'
        BY <4>1, HeldType, PTL
      <4>. QED BY <1>2, <3>2, <4>2, OwedInType DEF Typed, StakingTypes
    <3>. QED BY <1>1, <1>2, <1>3, <3>1, <3>2, <3>3, BalancedStep
  <2>6. CASE SlashValidator(a)
    <3>1. UNCHANGED <<total_supply, credited, reserve>>
      BY <2>6, <1>9 DEF SlashValidator
    <3>2. /\ Held' = Held /\ IsFiniteSet(queue') /\ burnt' \in Nat
          /\ StakeIn(validators') + OwedIn(queue') + burnt'
               = StakeIn(validators) + OwedIn(queue) + burnt
      BY <1>1, <2>6, SlashSums
    <3>3. /\ StakeIn(validators') \in Nat /\ OwedIn(queue') \in Nat
      BY <1>2, <3>2, StakeInType, OwedInType DEF Typed, StakingTypes
    <3>. QED BY <1>1, <1>2, <1>3, <3>1, <3>2, <3>3, BalancedStep
  <2>. QED BY <1>9, <2>1, <2>2, <2>3, <2>4, <2>5, <2>6 DEF Staked
<1>10. CASE AdvanceEpoch /\ UNCHANGED reserve
  <2>1. UNCHANGED <<burnt, credited, reserve>>
    BY <1>10 DEF AdvanceEpoch
  <2>2. /\ Held' = Held /\ IsFiniteSet(queue') /\ total_supply' \in Nat
        /\ StakeIn(validators') + OwedIn(queue') - total_supply'
             <= StakeIn(validators) + OwedIn(queue) - total_supply
    BY <1>1, <1>10, EpochSums
  <2>3. /\ StakeIn(validators') \in Nat /\ OwedIn(queue') \in Nat
    BY <1>2, <2>2, StakeInType, OwedInType DEF Typed, StakingTypes
  <2>. QED BY <1>1, <1>2, <1>3, <2>1, <2>2, <2>3, BalancedStep
<1>11. CASE UNCHANGED vars
  <2>1. UNCHANGED <<validators, queue, balance, total_supply, burnt, credited, reserve>>
    BY <1>11 DEF vars, stakingVars, coinVars
  <2>2. Held' = Held
    BY <2>1 DEF Held
  <2>. QED BY <1>1, <1>2, <1>3, <2>1, <2>2, SameStakes, BalancedStep
<1>. QED BY <1>4, <1>5, <1>6, <1>7, <1>8, <1>9, <1>10, <1>11 DEF Next

\* Balances, stakes, requests and counters stay natural numbers: no withdrawal, slash,
\* clean-up or sale takes more than there is (coin.move, staking.move, treasury.move).
THEOREM SupplyTypes == Spec => []TypeOK
<1>1. SupplyInv => TypeOK
  BY DEF SupplyInv, SupplyTyped, Typed, TypeOK
<1>. QED BY <1>1, InitSupply, NextSupply, PTL DEF Spec

\* The validators that are paid are the first ones, and the last of them still fits.
LEMMA RewardsStopAtCap ==
  ASSUME NEW supply \in Nat, NEW reward \in Nat, NEW k \in Nat, NEW paid,
         paid = {i \in 1..k : supply + i * reward <= MaxSupply}
  PROVE  Cardinality(paid) = 0 \/ supply + reward * Cardinality(paid) <= MaxSupply
<1>1. paid \subseteq 1..k /\ \A i \in 1..k : i \in paid <=> supply + i * reward <= MaxSupply
  OBVIOUS
<1>2. PICK c : c = Cardinality(paid)
  OBVIOUS
<1>3. c \in Nat /\ c <= k
  <2>1. IsFiniteSet(1..k) /\ Cardinality(1..k) = k
    BY FS_Interval
  <2>. QED BY <1>1, <1>2, <2>1, FS_Subset, FS_CardinalityType
<1>4. ASSUME c # 0 PROVE supply + c * reward <= MaxSupply
  <2>1. SUFFICES ASSUME ~ (supply + c * reward <= MaxSupply) PROVE FALSE
    OBVIOUS
  <2>2. c \in 1..k /\ c - 1 \in Nat
    BY <1>3, <1>4
  <2>3. ASSUME NEW i \in paid, i >= c PROVE FALSE
    <3>1. i \in 1..k /\ supply + i * reward <= MaxSupply
      BY <1>1, <2>3
    <3>2. i \in Nat /\ c \in Nat
      BY <1>3, <3>1
    <3>3. c * reward <= i * reward /\ c * reward \in Nat /\ i * reward \in Nat
      BY <2>3, <3>2, SMT
    <3>. QED BY <2>1, <3>1, <3>3, StakingAssumption
  <2>4. paid \subseteq 1..(c - 1)
    <3>1. SUFFICES ASSUME NEW i \in paid PROVE i \in 1..(c - 1)
      OBVIOUS
    <3>2. i \in 1..k
      BY <1>1
    <3>. QED BY <1>3, <2>3, <3>2
  <2>5. IsFiniteSet(1..(c - 1)) /\ Cardinality(1..(c - 1)) = c - 1
    BY <2>2, FS_Interval
  <2>6. Cardinality(paid) <= Cardinality(1..(c - 1))
    BY <2>4, <2>5, FS_Subset
  <2>7. c <= c - 1
    BY <1>2, <2>5, <2>6
  <2>. QED BY <1>3, <2>7
<1>5. c * reward = reward * c
  BY <1>3
<1>. QED BY <1>2, <1>4, <1>5

LEMMA CapStep == SupplyTyped /\ WithinCap /\ [Next]_vars => WithinCap'
<1> SUFFICES ASSUME SupplyTyped, WithinCap, [Next]_vars PROVE WithinCap'
  OBVIOUS
<1>1. total_supply \in Nat /\ MaxSupply \in Nat /\ StakeIn(GenesisValidators) \in Nat
  BY GenesisAssumption, StakingAssumption, StakeInType DEF SupplyTyped
<1>2. CASE total_supply' = total_supply
  BY <1>2 DEF WithinCap
<1>3. ASSUME NEW a \in Accounts, NEW x \in Amounts, MintReward(a, x) PROVE WithinCap'
  BY <1>3 DEF MintReward, WithinCap
<1>4. CASE AdvanceEpoch
  <2> DEFINE supply == SupplyAfterCleanup
             reward == Reward(current_epoch + 1)
             paid   == {i \in DOMAIN validators : supply + i * reward <= MaxSupply}
  <2>1. current_epoch + 1 \in 0..MaxEpoch /\ validators \in Seq(Config) /\ queue \subseteq Request
    BY <1>4, StakingAssumption, SMT DEF SupplyTyped, Typed, StakingTypes, AdvanceEpoch
  <2>2. reward \in Nat
    BY <2>1, RewardType
  <2>3. supply \in Nat /\ supply <= total_supply
    <3>1. Stale \subseteq Request /\ IsFiniteSet(Stale)
      BY <2>1, FS_Subset DEF Stale, SupplyTyped
    <3>2. OwedIn(Stale) \in Nat
      BY <3>1, OwedInType
    <3>. QED BY <1>1, <3>2 DEF SupplyAfterCleanup
  <2>4. total_supply' = supply + reward * Cardinality(paid)
    BY <1>4 DEF AdvanceEpoch
  <2>5. DOMAIN validators = 1..Len(validators) /\ Len(validators) \in Nat
    BY <2>1
  <2> HIDE DEF supply, reward
  <2>6. Cardinality(paid) = 0 \/ supply + reward * Cardinality(paid) <= MaxSupply
    BY <2>2, <2>3, <2>5, RewardsStopAtCap
  <2> HIDE DEF paid
  <2>7. Cardinality(paid) = 0 => total_supply' = supply
    BY <2>2, <2>3, <2>4
  <2>. QED BY <1>1, <2>3, <2>4, <2>6, <2>7 DEF WithinCap
<1>. QED BY <1>2, <1>3, <1>4 DEF Next, Staked, vars, stakingVars, Register, Transfer, SellAin,
       DeductGas, DepositFeeReward, JoinValidatorSet, AddStake, LeaveValidatorSet,
       WithdrawUnbonded, SlashValidator

\* No step makes a coin that the counter of the supply does not know of, beyond the
\* reserve of genesis and the fees that the executor credits, nor takes the counter past
\* the cap, however many validators an epoch pays (staking.move:256, :280).
THEOREM SupplyCovered == Spec => []CoinsAccountedFor
<1>2. Init => WithinCap
  <2> SUFFICES ASSUME Init PROVE WithinCap
    OBVIOUS
  <2>1. total_supply = StakeIn(GenesisValidators) /\ StakeIn(GenesisValidators) \in Nat
    BY GenesisAssumption, StakeInType DEF Init, StakingInit
  <2>. QED BY <2>1 DEF WithinCap
<1>3. SupplyInv => SupplyTyped
  BY DEF SupplyInv
<1>4. SupplyInv /\ WithinCap => CoinsAccountedFor
  BY DEF SupplyInv, CoinsAccountedFor
<1>. QED BY <1>2, <1>3, <1>4, InitSupply, NextSupply, CapStep, PTL DEF Spec

-----------------------------------------------------------------------------
(* What is locked for one account *)

StakeAt(vs, a) == SumFunction([i \in {i \in DOMAIN vs : vs[i].addr = a} |-> vs[i].stake])
OneEach(vs)    == \A i, j \in DOMAIN vs : vs[i].addr = vs[j].addr => i = j
Listed(vs, a)  == \E i \in DOMAIN vs : vs[i].addr = a

\* The only configuration of an account tells its stake.
LEMMA StakeAtIs ==
  ASSUME NEW vs \in Seq(Config), OneEach(vs), NEW i \in DOMAIN vs
  PROVE  StakeAt(vs, vs[i].addr) = vs[i].stake
<1> DEFINE a == vs[i].addr
           f == [j \in {j \in DOMAIN vs : vs[j].addr = a} |-> vs[j].stake]
           x == i
<1>1. {j \in DOMAIN vs : vs[j].addr = a} = {x}
  BY DEF OneEach
<1>2. f = [j \in {x} |-> vs[j].stake] /\ vs[x].stake \in Nat
  BY <1>1, StakeInType
<1>3. SumFunction(f) = SumFunctionOnSet(f, {x})
  BY <1>2 DEF SumFunction
<1>4. f[x] = vs[x].stake
  BY <1>2
<1> HIDE DEF f, x
<1>5. IsFiniteSet({x}) /\ {x} \ {x} = {} /\ \A y \in {x} : f[y] \in Int
  <2>1. f[x] \in Int
    BY <1>2, <1>4
  <2>2. IsFiniteSet({x})
    BY FS_Singleton
  <2>. QED BY <2>1, <2>2
<1>6. SumFunctionOnSet(f, {x}) = f[x] + SumFunctionOnSet(f, {x} \ {x})
  BY <1>5, SumRemove
<1>7. SumFunctionOnSet(f, {x} \ {x}) = 0
  BY <1>5, SumEmpty
<1>8. SumFunction(f) = vs[x].stake
  BY <1>2, <1>3, <1>4, <1>6, <1>7
<1>. QED BY <1>8 DEF StakeAt, f, x

LEMMA StakeAtNone ==
  ASSUME NEW vs, NEW a, ~Listed(vs, a)
  PROVE  StakeAt(vs, a) = 0
<1>1. {i \in DOMAIN vs : vs[i].addr = a} = {}
  BY DEF Listed
<1>2. StakeAt(vs, a) = SumFunctionOnSet([i \in {} |-> vs[i].stake], {})
  BY <1>1 DEF StakeAt, SumFunction
<1>. QED BY <1>2, SumEmpty

LEMMA StakeAtNat ==
  ASSUME NEW vs \in Seq(Config), OneEach(vs), NEW a
  PROVE  StakeAt(vs, a) \in Nat
<1>1. CASE Listed(vs, a)
  <2>1. PICK i \in DOMAIN vs : vs[i].addr = a
    BY <1>1 DEF Listed
  <2>. QED BY <2>1, StakeAtIs, StakeInType
<1>2. CASE ~Listed(vs, a)
  BY <1>2, StakeAtNone
<1>. QED BY <1>1, <1>2

\* A vector that has no less for each configuration has no less for an account.
LEMMA StakeAtGrows ==
  ASSUME NEW vs \in Seq(Config), OneEach(vs), NEW ws \in Seq(Config), OneEach(ws), NEW a,
         \A i \in DOMAIN vs : vs[i].addr = a =>
           \E j \in DOMAIN ws : ws[j].addr = a /\ ws[j].stake >= vs[i].stake
  PROVE  StakeAt(vs, a) <= StakeAt(ws, a)
<1>1. CASE Listed(vs, a)
  <2>1. PICK i \in DOMAIN vs : vs[i].addr = a
    BY <1>1 DEF Listed
  <2>2. PICK j \in DOMAIN ws : ws[j].addr = a /\ ws[j].stake >= vs[i].stake
    BY <2>1
  <2>3. StakeAt(vs, a) = vs[i].stake /\ StakeAt(ws, a) = ws[j].stake
    BY <2>1, <2>2, StakeAtIs
  <2>4. vs[i].stake \in Nat /\ ws[j].stake \in Nat
    BY StakeInType
  <2>. QED BY <2>2, <2>3, <2>4
<1>2. CASE ~Listed(vs, a)
  <2>1. StakeAt(vs, a) = 0 /\ StakeAt(ws, a) \in Nat
    BY <1>2, StakeAtNone, StakeAtNat
  <2>. QED BY <2>1
<1>. QED BY <1>1, <1>2

\* Whoever goes from the vector has nothing there any more, and the others what they had.
LEMMA StakeAtRemove ==
  ASSUME NEW vs \in Seq(Config), OneEach(vs), NEW p \in 1..Len(vs), NEW a,
         RemoveAt(vs, p) \in Seq(Config), OneEach(RemoveAt(vs, p))
  PROVE  IF a = vs[p].addr
           THEN ~Listed(RemoveAt(vs, p), a)
           ELSE StakeAt(vs, a) <= StakeAt(RemoveAt(vs, p), a)
<1> DEFINE n == Len(vs)
           ws == RemoveAt(vs, p)
           D == 1..n
           R == 1..(n - 1)
           b == [j \in R |-> IF j < p THEN j ELSE j + 1]
<1>1. n \in Nat /\ DOMAIN vs = D
  BY SMT
<1>2. /\ Len(ws) = n - 1 /\ DOMAIN ws = R
      /\ \A j \in R : ws[j] = vs[b[j]]
  <2>1. /\ ws \in Seq(Config) /\ Len(ws) = n - 1
        /\ \A j \in R : ws[j] = vs[IF j < p THEN j ELSE j + 1]
    BY RemoveAtFacts
  <2>2. DOMAIN ws = 1..Len(ws)
    BY <2>1, SMT
  <2>. QED BY <2>1, <2>2
<1>3. \A j \in R : b[j] \in D /\ b[j] # p
  BY <1>1, SMT
<1>4. ASSUME NEW k \in D, k # p PROVE \E j \in R : b[j] = k
  <2>1. CASE k < p
    <3>1. k \in R /\ b[k] = k
      BY <2>1, <1>1, SMT
    <3>. QED BY <3>1
  <2>2. CASE ~(k < p)
    <3>1. k - 1 \in R /\ b[k - 1] = k
      BY <2>2, <1>1, <1>4, SMT
    <3>. QED BY <3>1
  <2>. QED BY <2>1, <2>2
<1>5. p \in D
  BY <1>1
<1> HIDE DEF n, ws, D, R, b
<1>6. CASE a = vs[p].addr
  <2> SUFFICES ASSUME NEW j \in R, ws[j].addr = a PROVE FALSE
    BY <1>2, <1>6 DEF Listed, ws
  <2>1. b[j] \in D /\ b[j] # p /\ vs[b[j]].addr = vs[p].addr
    BY <1>2, <1>3, <1>6
  <2>. QED BY <2>1, <1>1, <1>5 DEF OneEach
<1>7. CASE a # vs[p].addr
  <2>1. ASSUME NEW i \in DOMAIN vs, vs[i].addr = a
        PROVE  \E j \in DOMAIN ws : ws[j].addr = a /\ ws[j].stake >= vs[i].stake
    <3>1. i \in D /\ i # p
      BY <2>1, <1>1, <1>7
    <3>2. PICK j \in R : b[j] = i
      BY <3>1, <1>4
    <3>3. ws[j] = vs[i] /\ j \in DOMAIN ws
      BY <3>2, <1>2
    <3>4. vs[i].stake \in Nat
      BY StakeInType
    <3>. QED BY <2>1, <3>3, <3>4
  <2>2. ws \in Seq(Config) /\ OneEach(ws)
    BY DEF ws
  <2>3. StakeAt(vs, a) <= StakeAt(ws, a)
    BY <2>1, <2>2, StakeAtGrows
  <2>. QED BY <2>3, <1>7 DEF ws
<1>. QED BY <1>6, <1>7

\* The types that the steps below use, before and after.
LEMMA LockedTypes ==
  ASSUME SupplyTyped, NEW a \in Accounts
  PROVE  /\ validators \in Seq(Config) /\ OneEach(validators)
         /\ StakeOf(a) = StakeAt(validators, a) /\ StakeOf(a) \in Nat
         /\ (IsValidator(a) <=> Listed(validators, a))
         /\ queue \subseteq Request /\ IsFiniteSet(queue)
         /\ RequestsOf(a) \subseteq queue /\ IsFiniteSet(RequestsOf(a))
         /\ OwedIn(RequestsOf(a)) \in Nat
         /\ balance[a] \in Nat
<1>1. /\ validators \in Seq(Config) /\ OneEach(validators)
      /\ queue \subseteq Request /\ IsFiniteSet(queue) /\ balance[a] \in Nat
  BY DEF SupplyTyped, Typed, StakingTypes, StakingInv, OneConfigEach, OneEach, CoinTypes
<1>2. StakeOf(a) = StakeAt(validators, a) /\ (IsValidator(a) <=> Listed(validators, a))
  BY DEF StakeOf, StakeAt, IsValidator, Listed
<1>3. RequestsOf(a) \in SUBSET queue
  BY DEF RequestsOf
<1>4. IsFiniteSet(RequestsOf(a)) /\ RequestsOf(a) \subseteq Request
  BY <1>1, <1>3, FS_Subset
<1>. QED BY <1>1, <1>2, <1>3, <1>4, StakeAtNat, OwedInType

LockedTyped(a) ==
  /\ validators \in Seq(Config) /\ OneEach(validators)
  /\ StakeOf(a) = StakeAt(validators, a) /\ StakeOf(a) \in Nat
  /\ (IsValidator(a) <=> Listed(validators, a))
  /\ OwedIn(RequestsOf(a)) \in Nat

AllLockedTyped == \A a \in Accounts : LockedTyped(a)

LEMMA LockedTypesNow == SupplyTyped => AllLockedTyped
BY LockedTypes DEF LockedTyped, AllLockedTyped

LEMMA LockedTypesNext ==
  ASSUME SupplyTyped', NEW a \in Accounts
  PROVE  LockedTyped(a)'
<1>1. AllLockedTyped'
  BY LockedTypesNow, PTL
<1>. QED BY <1>1 DEF AllLockedTyped

\* Nobody loses by a step that leaves the queue alone and no stake smaller.
LEMMA StakesGrow ==
  ASSUME SupplyTyped, SupplyTyped', NEW a \in Accounts, queue' = queue,
         \A i \in DOMAIN validators : \E j \in DOMAIN validators' :
           /\ validators'[j].addr = validators[i].addr
           /\ validators'[j].stake >= validators[i].stake
  PROVE  KeepsLocked(a)
<1>1. OwedIn(RequestsOf(a)') = OwedIn(RequestsOf(a)) /\ OwedIn(RequestsOf(a))' = OwedIn(RequestsOf(a)')
  BY DEF RequestsOf, OwedIn
<1>2. StakeAt(validators, a) <= StakeAt(validators', a)
  BY LockedTypes, LockedTypesNext, StakeAtGrows DEF LockedTyped
<1>3. /\ StakeOf(a) = StakeAt(validators, a) /\ StakeOf(a) \in Nat /\ OwedIn(RequestsOf(a)) \in Nat
      /\ StakeOf(a)' = StakeAt(validators', a) /\ StakeOf(a)' \in Nat /\ OwedIn(RequestsOf(a))' \in Nat
  BY LockedTypes, LockedTypesNext DEF LockedTyped
<1>. QED BY <1>1, <1>2, <1>3 DEF KeepsLocked, Locked

\* A new request adds what it is for to what its owner is owed.
LEMMA EnqueueOwedTo ==
  ASSUME SupplyTyped, SupplyTyped', NEW a \in Accounts, NEW b \in Accounts, NEW x \in Nat,
         Enqueue(b, x)
  PROVE  OwedIn(RequestsOf(a))' = OwedIn(RequestsOf(a)) + (IF a = b THEN x ELSE 0)
<1> DEFINE new == [ticket |-> tickets, addr |-> b, stake |-> x, unlock |-> Now + UnbondingPeriod]
           S == RequestsOf(a)
           T == RequestsOf(a)'
<1>1. tickets \in Nat /\ \A q \in queue : q.ticket < tickets
  BY DEF SupplyTyped, Typed, StakingTypes, StakingInv, DueInOrder
<1>2. Now \in Nat /\ UnbondingPeriod \in Nat
  BY TimeSteps, StakingAssumption DEF SupplyTyped, Typed, StakingTypes
<1>3. new \in Request /\ new.stake = x /\ new.ticket = tickets /\ new.addr = b
  BY <1>1, <1>2 DEF Request
<1>4. queue' = queue \cup {new}
  BY DEF Enqueue
<1>5. IsFiniteSet(S) /\ S \subseteq Request /\ OwedIn(S) \in Nat /\ S \subseteq queue
  BY LockedTypes
<1>6. T = {q \in queue' : q.addr = a} /\ S = {q \in queue : q.addr = a} /\ OwedIn(RequestsOf(a))' = OwedIn(T)
  BY DEF RequestsOf, OwedIn
<1> HIDE DEF new, S, T
<1>7. CASE a = b
  <2>1. T = S \cup {new} /\ new \notin S
    BY <1>1, <1>3, <1>4, <1>5, <1>6, <1>7
  <2>2. IsFiniteSet(T) /\ T \subseteq Request /\ S \in SUBSET T /\ T \ S = {new}
    BY <1>3, <1>5, <2>1, FS_AddElement
  <2>3. OwedIn(T) = OwedIn(S) + OwedIn(T \ S)
    BY <2>2, OwedInSplit
  <2>. QED BY <1>3, <1>6, <1>7, <2>2, <2>3, OwedInOne DEF S
<1>8. CASE a # b
  <2>1. T = S
    BY <1>3, <1>4, <1>6, <1>8
  <2>. QED BY <1>5, <1>6, <1>8, <2>1 DEF S
<1>. QED BY <1>7, <1>8

\* Whoever leaves or is slashed has its stake turned into a request, less what is burnt.
LEMMA DepartureKeeps ==
  ASSUME SupplyTyped, SupplyTyped', NEW a \in Accounts, NEW b \in Accounts, IsValidator(b),
         validators' = RemoveAt(validators, Position(b)),
         NEW lost \in Nat, lost * 100 <= SlashPercent * validators[Position(b)].stake,
         validators[Position(b)].stake - lost \in Nat,
         Enqueue(b, validators[Position(b)].stake - lost)
  PROVE  KeepsLocked(a)
<1> DEFINE p == Position(b)
           stake == validators[p].stake
<1>1. /\ validators \in Seq(Config) /\ OneEach(validators) /\ p \in 1..Len(validators)
      /\ validators[p].addr = b /\ stake \in Nat
  BY LockedTypes, PositionFacts DEF SupplyTyped, Typed, StakingInv
<1>2. /\ StakeOf(a) = StakeAt(validators, a) /\ StakeOf(a) \in Nat /\ OwedIn(RequestsOf(a)) \in Nat
      /\ (IsValidator(a) <=> Listed(validators, a))
  BY LockedTypes
<1>3. /\ validators' \in Seq(Config) /\ OneEach(validators')
      /\ StakeOf(a)' = StakeAt(validators', a) /\ StakeOf(a)' \in Nat /\ OwedIn(RequestsOf(a))' \in Nat
      /\ (IsValidator(a)' <=> Listed(validators', a))
  BY LockedTypesNext DEF LockedTyped
<1>4. IF a = b THEN ~Listed(validators', a) ELSE StakeAt(validators, a) <= StakeAt(validators', a)
  BY <1>1, <1>3, StakeAtRemove
<1>5. OwedIn(RequestsOf(a))' = OwedIn(RequestsOf(a)) + (IF a = b THEN stake - lost ELSE 0)
  BY EnqueueOwedTo
<1>6. CASE a = b
  <2>1. DOMAIN validators = 1..Len(validators)
    BY <1>1, StakeInType
  <2>2. StakeAt(validators, a) = stake
    BY <1>1, <1>6, <2>1, StakeAtIs
  <2>3. StakeOf(a)' = 0 /\ ~IsValidator(a)' /\ IsValidator(a)
    BY <1>3, <1>4, <1>6, StakeAtNone
  <2> HIDE DEF stake, p
  <2>4. Locked(a) - Locked(a)' = lost
    BY <1>1, <1>2, <1>3, <1>5, <1>6, <2>2, <2>3 DEF Locked
  <2>5. lost * 100 <= SlashPercent * StakeOf(a)
    BY <1>2, <2>2 DEF stake, p
  <2>. QED BY <2>3, <2>4, <2>5 DEF KeepsLocked
<1>7. CASE a # b
  <2>1. Locked(a) - Locked(a)' <= 0
    BY <1>2, <1>3, <1>4, <1>5, <1>7 DEF Locked
  <2>. QED BY <2>1 DEF KeepsLocked
<1>. QED BY <1>6, <1>7

\* A withdrawal pays what it takes from the queue.
LEMMA WithdrawKeeps ==
  ASSUME SupplyTyped, SupplyTyped', NEW a \in Accounts, NEW b \in Accounts, WithdrawUnbonded(b)
  PROVE  KeepsLocked(a)
<1> DEFINE q == Oldest(RequestsOf(b))
           S == RequestsOf(a)
           T == RequestsOf(a)'
<1>1. q \in RequestsOf(b)
  BY OldestFacts DEF SupplyTyped, Typed, WithdrawUnbonded
<1>2. q \in queue /\ q.addr = b /\ q \in Request
  BY <1>1, LockedTypes DEF RequestsOf
<1>3. Deposit(b, q.stake) /\ queue' = queue \ {q} /\ validators' = validators
  BY DEF WithdrawUnbonded
<1>4. IsFiniteSet(S) /\ S \subseteq Request /\ OwedIn(S) \in Nat /\ balance[a] \in Nat /\ StakeOf(a) \in Nat
  BY LockedTypes
<1>5. T = {r \in queue' : r.addr = a} /\ S = {r \in queue : r.addr = a} /\ OwedIn(RequestsOf(a))' = OwedIn(T)
  BY DEF RequestsOf, OwedIn
<1>6. StakeOf(a)' = StakeOf(a)
  BY <1>3 DEF StakeOf
<1>7. q.stake \in Nat /\ balance \in [Accounts -> Nat]
  BY <1>2 DEF Request, SupplyTyped, Typed, StakingTypes, CoinTypes
<1> HIDE DEF q, S, T
<1>8. CASE a = b
  <2>1. T = S \ {q} /\ {q} \in SUBSET S
    BY <1>2, <1>3, <1>5, <1>8
  <2>2. OwedIn(S) = q.stake + OwedIn(T)
    BY <1>2, <1>4, <2>1, OwedInSplit, OwedInOne
  <2>3. OwedIn(T) \in Nat
    <3>1. T \in SUBSET S
      BY <2>1
    <3>2. IsFiniteSet(T) /\ T \subseteq Request
      BY <1>4, <3>1, FS_Subset
    <3>. QED BY <3>2, OwedInType
  <2>4. balance'[a] = balance[a] + q.stake
    BY <1>3, <1>7, <1>8 DEF Deposit
  <2>5. Locked(a) - Locked(a)' <= balance'[a] - balance[a]
    BY <1>4, <1>5, <1>6, <1>7, <2>2, <2>3, <2>4 DEF Locked, S
  <2>. QED BY <2>5 DEF KeepsLocked
<1>9. CASE a # b
  <2>1. T = S
    BY <1>2, <1>3, <1>5, <1>9
  <2>2. OwedIn(RequestsOf(a))' = OwedIn(RequestsOf(a)) /\ OwedIn(RequestsOf(a)) \in Nat
    BY <1>4, <1>5, <2>1 DEF S
  <2>3. Locked(a) - Locked(a)' <= 0
    BY <1>4, <1>6, <2>2 DEF Locked
  <2>. QED BY <2>3 DEF KeepsLocked
<1>. QED BY <1>8, <1>9

\* An epoch drops stale requests only.
LEMMA EpochKeeps ==
  ASSUME SupplyTyped, SupplyTyped', NEW a \in Accounts, AdvanceEpoch
  PROVE  KeepsLocked(a)
<1> DEFINE supply == SupplyAfterCleanup
           reward == Reward(current_epoch + 1)
           paid   == {i \in DOMAIN validators : supply + i * reward <= MaxSupply}
           S == RequestsOf(a)
           T == RequestsOf(a)'
           dropped == RequestsOf(a) \cap Stale
<1>1. /\ queue' = queue \ Stale
      /\ validators' = [i \in DOMAIN validators |->
            [validators[i] EXCEPT !.stake = IF i \in paid THEN @ + reward ELSE @]]
  BY DEF AdvanceEpoch
<1>2. reward \in Nat
  <2>1. current_epoch \in Nat /\ current_epoch < MaxEpoch /\ MaxEpoch \in Nat
    BY StakingAssumption DEF SupplyTyped, Typed, StakingTypes, AdvanceEpoch
  <2>2. current_epoch + 1 \in 0..MaxEpoch
    BY <2>1, SMT
  <2>. QED BY <2>2, RewardType
<1> HIDE DEF reward, paid
<1>3. \A i \in DOMAIN validators : validators[i] \in Config /\ validators[i].stake \in Nat
  BY LockedTypes, StakeInType
<1>4. \A i \in DOMAIN validators : /\ i \in DOMAIN validators'
                                   /\ validators'[i].addr = validators[i].addr
                                   /\ validators'[i].stake >= validators[i].stake
  BY <1>1, <1>2, <1>3 DEF Config
<1>5. StakeAt(validators, a) <= StakeAt(validators', a)
  BY <1>4, LockedTypes, LockedTypesNext, StakeAtGrows DEF LockedTyped
<1>6. /\ StakeOf(a) = StakeAt(validators, a) /\ StakeOf(a) \in Nat
      /\ StakeOf(a)' = StakeAt(validators', a) /\ StakeOf(a)' \in Nat
  BY LockedTypes, LockedTypesNext DEF LockedTyped
<1>7. T = {q \in queue' : q.addr = a} /\ S = {q \in queue : q.addr = a} /\ OwedIn(RequestsOf(a))' = OwedIn(T)
  BY DEF RequestsOf, OwedIn
<1>8. IsFiniteSet(S) /\ S \subseteq Request
  BY LockedTypes
<1>9. dropped \in SUBSET S /\ T = S \ dropped
  BY <1>1, <1>7
<1>10. OwedIn(dropped) \in Nat /\ OwedIn(T) \in Nat
  <2>1. dropped \in SUBSET S /\ T \in SUBSET S
    BY <1>9
  <2>2. IsFiniteSet(dropped) /\ dropped \subseteq Request /\ IsFiniteSet(T) /\ T \subseteq Request
    BY <1>8, <2>1, FS_Subset
  <2>. QED BY <2>2, OwedInType
<1>11. OwedIn(S) = OwedIn(dropped) + OwedIn(T)
  BY <1>8, <1>9, OwedInSplit
<1> HIDE DEF dropped, S, T
<1>12. Locked(a) - Locked(a)' <= OwedIn(dropped)
  BY <1>5, <1>6, <1>7, <1>10, <1>11 DEF Locked, S
<1>13. dropped = Forfeited(a)
  BY <1>7, StakingAssumption DEF dropped, Stale, Forfeited, RequestsOf
<1>. QED BY <1>12, <1>13 DEF KeepsLocked

LEMMA NextLocked == SupplyInv /\ SupplyInv' /\ Next => \A a \in Accounts : KeepsLocked(a)
<1> SUFFICES ASSUME SupplyInv, SupplyInv', Next, NEW a \in Accounts PROVE KeepsLocked(a)
  OBVIOUS
<1> USE SupplyAssumption
<1>1. SupplyTyped /\ SupplyTyped' /\ \A x \in Amounts : x \in Nat
  BY DEF SupplyInv
<1>2. validators \in Seq(Config) /\ \A i \in DOMAIN validators : validators[i] \in Config /\ validators[i].stake \in Nat
  BY <1>1, LockedTypes, StakeInType
<1>3. CASE UNCHANGED <<validators, queue>>
  BY <1>1, <1>2, <1>3, StakesGrow
<1>4. ASSUME NEW b \in Accounts, NEW x \in Amounts, JoinValidatorSet(b, x) PROVE KeepsLocked(a)
  <2>1. queue' = queue /\ validators' = Append(validators, [addr |-> b, stake |-> x])
    BY <1>4 DEF JoinValidatorSet
  <2> DEFINE new == [addr |-> b, stake |-> x]
  <2>2. new \in Config
    BY <1>1 DEF Config
  <2> HIDE DEF new
  <2>3. \A i \in DOMAIN validators : i \in DOMAIN Append(validators, new) /\ Append(validators, new)[i] = validators[i]
    BY <1>2, <2>2, SMT
  <2>. QED BY <1>1, <1>2, <2>1, <2>3, StakesGrow DEF new
<1>5. ASSUME NEW b \in Accounts, NEW x \in Amounts, AddStake(b, x) PROVE KeepsLocked(a)
  <2> DEFINE p == Position(b)
  <2>1. queue' = queue /\ validators' = [validators EXCEPT ![p].stake = @ + x] /\ x \in Nat
    BY <1>1, <1>5 DEF AddStake
  <2> HIDE DEF p
  <2>2. \A i \in DOMAIN validators : /\ i \in DOMAIN validators'
                                     /\ validators'[i].addr = validators[i].addr
                                     /\ validators'[i].stake >= validators[i].stake
    BY <1>2, <2>1 DEF Config
  <2>. QED BY <1>1, <2>1, <2>2, StakesGrow
<1>6. ASSUME NEW b \in Accounts, LeaveValidatorSet(b) PROVE KeepsLocked(a)
  <2> DEFINE stake == validators[Position(b)].stake
  <2>1. IsValidator(b) /\ validators' = RemoveAt(validators, Position(b)) /\ Enqueue(b, stake)
    BY <1>6 DEF LeaveValidatorSet
  <2>2. stake \in Nat
    BY <1>1, <2>1, PositionInVector DEF SupplyTyped
  <2>3. stake - 0 = stake /\ 0 * 100 <= SlashPercent * stake
    <3> HIDE DEF stake
    <3>. QED BY <2>2, StakingAssumption, SMT
  <2>. QED BY <1>1, <2>1, <2>2, <2>3, DepartureKeeps
<1>7. ASSUME NEW b \in Accounts, SlashValidator(b) PROVE KeepsLocked(a)
  <2> DEFINE stake   == validators[Position(b)].stake
             slashed == (stake * SlashPercent) \div 100
  <2>1. IsValidator(b) /\ validators' = RemoveAt(validators, Position(b)) /\ Enqueue(b, stake - slashed)
    BY <1>7 DEF SlashValidator
  <2>2. stake \in Nat
    BY <1>1, <2>1, PositionInVector DEF SupplyTyped
  <2>3. slashed \in Nat /\ stake - slashed \in Nat
    <3> HIDE DEF stake
    <3>. QED BY <2>2, SlashedPart
  <2>4. slashed * 100 <= SlashPercent * stake
    <3> HIDE DEF stake
    <3>1. stake * SlashPercent \in Nat /\ stake * SlashPercent = SlashPercent * stake
      BY <2>2, StakingAssumption, SMT
    <3>2. \A m \in Nat : (m \div 100) * 100 <= m
      BY SMT
    <3>. QED BY <3>1, <3>2
  <2> HIDE DEF slashed
  <2>. QED BY <1>1, <2>1, <2>3, <2>4, DepartureKeeps
<1>8. ASSUME NEW b \in Accounts, WithdrawUnbonded(b) PROVE KeepsLocked(a)
  BY <1>1, <1>8, WithdrawKeeps
<1>9. CASE AdvanceEpoch
  BY <1>1, <1>9, EpochKeeps
<1>10. ASSUME NEW b \in Accounts, Staked(b) PROVE KeepsLocked(a)
  <2>1. ASSUME NEW x \in Amounts, MintReward(b, x) PROVE KeepsLocked(a)
    BY <1>3, <2>1 DEF MintReward
  <2>. QED BY <1>4, <1>5, <1>6, <1>7, <1>8, <1>10, <2>1 DEF Staked
<1>11. ASSUME NEW b \in Accounts, Register(b) PROVE KeepsLocked(a)
  BY <1>3, <1>11 DEF Register, stakingVars
<1>12. ASSUME NEW b \in Accounts, NEW x \in Amounts,
             SellAin(b, x) \/ DeductGas(b, x) \/ DepositFeeReward(b, x)
      PROVE  KeepsLocked(a)
  BY <1>3, <1>12 DEF SellAin, DeductGas, DepositFeeReward, stakingVars
<1>13. ASSUME NEW b \in Accounts, NEW c \in Accounts, NEW x \in Amounts, Transfer(b, c, x)
       PROVE  KeepsLocked(a)
  BY <1>3, <1>13 DEF Transfer, stakingVars
<1>. QED BY <1>9, <1>10, <1>11, <1>12, <1>13 DEF Next

\* Whatever is locked for an account shrinks only into its own balance, by the share a slash
\* burns or by requests nobody claimed in time (staking.move:98-337).
THEOREM LockedKept == Spec => LockedIsNotLost
<1>1. SupplyInv /\ SupplyInv' /\ [Next]_vars => [\A a \in Accounts : KeepsLocked(a)]_vars
  BY NextLocked
<1>. QED BY <1>1, InitSupply, NextSupply, PTL DEF Spec, LockedIsNotLost
=============================================================================

------------------------------- MODULE Staking -------------------------------
(****************************************************************************)
(* The staking contract: staking.move, and the epoch step of epoch.move.    *)
(* Coins that enter the validator set leave the owner's store; a validator  *)
(* that leaves or is slashed gets a request in the unbonding queue, its     *)
(* coins are burnt and minted again when it withdraws.                      *)
(*                                                                          *)
(* The vector of requests is a set of requests numbered in the order of     *)
(* their arrival: the contract only appends to it, looks for the first      *)
(* match and removes.                                                       *)
(****************************************************************************)
EXTENDS CoinLedger, Sequences, SequencesExt, FiniteSetsExt

CONSTANTS
  GenesisValidators, \* the validators and stakes of genesis.json
  MinStake,          \* 1000 AIN
  MaxSupply,         \* 150 million AIN
  BaseReward,        \* 36 AIN a validator and epoch
  HalvingInterval,   \* 2102400 epochs
  EpochSeconds,      \* 60
  UnbondingPeriod,   \* 21 days, in seconds
  GracePeriod,       \* 31 days
  SlashPercent,      \* 5
  MaxEpoch,          \* bound: epochs
  MaxRequests        \* bound: unbonding requests made

Config  == [addr : Accounts, stake : Nat]
Request == [ticket : Nat, addr : Accounts, stake : Nat, unlock : Nat]

ASSUME GenesisAssumption ==
  /\ GenesisValidators \in Seq(Config)
  /\ \A i \in 1..Len(GenesisValidators) : GenesisValidators[i].stake >= MinStake
  /\ \A i, j \in 1..Len(GenesisValidators) :
       GenesisValidators[i].addr = GenesisValidators[j].addr => i = j
ASSUME StakingAssumption ==
  /\ {MinStake, MaxSupply, BaseReward, UnbondingPeriod, GracePeriod, MaxRequests, MaxEpoch}
       \subseteq Nat
  /\ {HalvingInterval, EpochSeconds} \subseteq Nat \ {0}
  /\ SlashPercent \in 0..100

\* A fact of arithmetic that the provers lack, for the halvings that MaxEpoch allows.
ASSUME PowersAssumption == \A h \in 0..MaxEpoch : 2 ^ h \in Nat \ {0}

VARIABLES
  validators,    \* the active set, a sequence
  queue,         \* unbonding_queue
  tickets,       \* requests made so far
  total_supply,  \* the counter that the cap is checked against
  current_epoch,
  burnt,         \* history: coins burnt for good, by slashes and gas
  credited       \* history: coins minted past the counter, by deposit_fee_reward

stakingVars == <<validators, queue, tickets, total_supply, current_epoch>>

\* The coins that validators have staked, and those that requests are for.
StakeIn(vs) == SumFunction([i \in DOMAIN vs |-> vs[i].stake])
OwedIn(S)   == SumFunction([q \in S |-> q.stake])

StakingInit ==
  /\ validators = GenesisValidators
  /\ queue = {}
  /\ tickets = 0
  /\ total_supply = StakeIn(GenesisValidators)
  /\ current_epoch = 0
  /\ burnt = 0 /\ credited = 0

Now == current_epoch * EpochSeconds

IsValidator(a) == \E i \in DOMAIN validators : validators[i].addr = a

\* The first configuration of a in the vector.
Position(a) ==
  CHOOSE i \in DOMAIN validators :
    validators[i].addr = a /\ \A j \in 1..(i - 1) : validators[j].addr # a

RequestsOf(a) == {q \in queue : q.addr = a}

Oldest(S) == CHOOSE q \in S : \A r \in S : q.ticket <= r.ticket

\* Seeded fault: no look whether the account is a validator.
JoinTwice(a, x) ==
  /\ x >= MinStake
  /\ Withdraw(a, x)
  /\ validators' = Append(validators, [addr |-> a, stake |-> x])
  /\ UNCHANGED <<queue, tickets, total_supply, current_epoch, burnt, credited>>

JoinValidatorSet(a, x) ==
  /\ x >= MinStake
  /\ ~IsValidator(a)
  /\ Withdraw(a, x)
  /\ validators' = Append(validators, [addr |-> a, stake |-> x])
  /\ UNCHANGED <<queue, tickets, total_supply, current_epoch, burnt, credited>>

AddStake(a, x) ==
  /\ IsValidator(a)
  /\ Withdraw(a, x)
  /\ validators' = [validators EXCEPT ![Position(a)].stake = @ + x]
  /\ UNCHANGED <<queue, tickets, total_supply, current_epoch, burnt, credited>>

\* What a leaver or an offender is owed, from one unbonding period on.
Enqueue(a, x) ==
  /\ tickets < MaxRequests
  /\ queue' = queue \cup
       {[ticket |-> tickets, addr |-> a, stake |-> x, unlock |-> Now + UnbondingPeriod]}
  /\ tickets' = tickets + 1

LeaveValidatorSet(a) ==
  /\ IsValidator(a)
  /\ validators' = RemoveAt(validators, Position(a))
  /\ Enqueue(a, validators[Position(a)].stake)
  /\ UNCHANGED <<coinVars, total_supply, current_epoch, burnt, credited>>

\* Seeded fault: a slashed validator may withdraw at once.
SlashWithoutJail(a) ==
  LET stake   == validators[Position(a)].stake
      slashed == (stake * SlashPercent) \div 100
  IN
  /\ IsValidator(a)
  /\ validators' = RemoveAt(validators, Position(a))
  /\ tickets < MaxRequests
  /\ queue' = queue \cup {[ticket |-> tickets, addr |-> a, stake |-> stake - slashed, unlock |-> Now]}
  /\ tickets' = tickets + 1
  /\ burnt' = burnt + slashed
  /\ UNCHANGED <<coinVars, total_supply, current_epoch, credited>>

\* slash_validator: 5 per cent burnt, the rest unbonds; nothing happens to a stranger.
SlashValidator(a) ==
  LET stake   == validators[Position(a)].stake
      slashed == (stake * SlashPercent) \div 100
  IN
  /\ IsValidator(a)
  /\ validators' = RemoveAt(validators, Position(a))
  /\ Enqueue(a, stake - slashed)
  /\ burnt' = burnt + slashed
  /\ UNCHANGED <<coinVars, total_supply, current_epoch, credited>>

\* Seeded fault: all requests of the account are dropped for the first one.
WithdrawDroppingOthers(a) ==
  LET q == Oldest(RequestsOf(a)) IN
  /\ RequestsOf(a) # {}
  /\ Now >= q.unlock
  /\ Deposit(a, q.stake)
  /\ queue' = queue \ RequestsOf(a)
  /\ UNCHANGED <<validators, tickets, total_supply, current_epoch, burnt, credited>>

\* withdraw_unbonded: the first request of the account, if it is due; a later one
\* is not looked at.
WithdrawUnbonded(a) ==
  LET q == Oldest(RequestsOf(a)) IN
  /\ RequestsOf(a) # {}
  /\ Now >= q.unlock
  /\ Deposit(a, q.stake)
  /\ queue' = queue \ {q}
  /\ UNCHANGED <<validators, tickets, total_supply, current_epoch, burnt, credited>>

\* cleanup_old_unbonding: what no one claimed in the grace period.
Stale == {q \in queue : Now >= q.unlock + GracePeriod}

\* The counter after the clean-up; the subtraction stops at 0.
SupplyAfterCleanup ==
  LET dropped == OwedIn(Stale)
  IN  IF total_supply >= dropped THEN total_supply - dropped ELSE 0

\* calculate_reward: a shift by the number of halvings, nothing after 128 of them.
Reward(epoch) ==
  LET halvings == epoch \div HalvingInterval
  IN  IF halvings >= 128 THEN 0 ELSE BaseReward \div (2 ^ halvings)

\* epoch::advance_epoch: the clean-up at the old time, then distribute_rewards,
\* which pays validators in their order until the cap would be passed.
AdvanceEpoch ==
  LET supply == SupplyAfterCleanup
      reward == Reward(current_epoch + 1)
      paid   == {i \in DOMAIN validators : supply + i * reward <= MaxSupply}
  IN
  /\ current_epoch < MaxEpoch
  /\ queue' = queue \ Stale
  /\ current_epoch' = current_epoch + 1
  /\ validators' = [i \in DOMAIN validators |->
       [validators[i] EXCEPT !.stake = IF i \in paid THEN @ + reward ELSE @]]
  /\ total_supply' = supply + reward * Cardinality(paid)
  /\ UNCHANGED <<coinVars, tickets, burnt, credited>>

\* Seeded fault: mint_reward mints what the counter does not see.
MintRewardUncounted(a, x) ==
  /\ total_supply + x <= MaxSupply
  /\ Deposit(a, x)
  /\ UNCHANGED <<stakingVars, burnt, credited>>

\* mint_reward for an account, as universal_mining pays a device owner: at the cap
\* it mints nothing.
MintReward(a, x) ==
  /\ total_supply + x <= MaxSupply
  /\ total_supply' = total_supply + x
  /\ Deposit(a, x)
  /\ UNCHANGED <<validators, queue, tickets, current_epoch, burnt, credited>>
=============================================================================

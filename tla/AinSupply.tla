------------------------------ MODULE AinSupply ------------------------------
(****************************************************************************)
(* Every coin AIN there is: the coin stores, the stakes, the unbonding      *)
(* queue and the reserve of the treasury (treasury.move), with the calls of *)
(* the executor that burn gas and pay fees (coin.move, deduct_gas and       *)
(* deposit_fee_reward), from the genesis of core/node/src/genesis.rs on.    *)
(* Amounts are u128; MaxSupply keeps them far from overflow.                *)
(****************************************************************************)
EXTENDS Staking

CONSTANTS
  GenesisReserve,  \* treasury_reserve of genesis.json
  Amounts,         \* bound: amounts that callers name
  MaxCredited      \* bound: fees that the executor pays out

ASSUME SupplyAssumption ==
  /\ GenesisReserve \in Nat /\ MaxCredited \in Nat
  /\ Amounts \subseteq Nat

VARIABLE reserve   \* coins that the treasury has still to sell

vars == <<coinVars, stakingVars, burnt, credited, reserve>>

Init == CoinInit /\ StakingInit /\ reserve = GenesisReserve

Register(a) == RegisterStore(a) /\ UNCHANGED <<stakingVars, burnt, credited, reserve>>

Transfer(a, b, x) == Move(a, b, x) /\ UNCHANGED <<stakingVars, burnt, credited, reserve>>

\* treasury::sell_ain, x being what the price makes of the payment.
SellAin(a, x) ==
  /\ reserve >= x
  /\ Deposit(a, x)
  /\ reserve' = reserve - x
  /\ UNCHANGED <<stakingVars, burnt, credited>>

\* coin::deduct_gas, by the executor.
DeductGas(a, x) ==
  /\ Withdraw(a, x)
  /\ burnt' = burnt + x
  /\ UNCHANGED <<stakingVars, credited, reserve>>

\* coin::deposit_fee_reward, by the executor: the counter is not asked.
DepositFeeReward(a, x) ==
  /\ credited + x <= MaxCredited
  /\ Deposit(a, x)
  /\ credited' = credited + x
  /\ UNCHANGED <<stakingVars, burnt, reserve>>

Staked(a) == \/ \E x \in Amounts : JoinValidatorSet(a, x) \/ AddStake(a, x) \/ MintReward(a, x)
             \/ LeaveValidatorSet(a)
             \/ WithdrawUnbonded(a)
             \/ SlashValidator(a)

Next ==
  \/ \E a \in Accounts :
       \/ Register(a)
       \/ \E x \in Amounts : SellAin(a, x) \/ DeductGas(a, x) \/ DepositFeeReward(a, x)
       \/ \E b \in Accounts, x \in Amounts : Transfer(a, b, x)
       \/ Staked(a) /\ UNCHANGED reserve
  \/ AdvanceEpoch /\ UNCHANGED reserve

Spec == Init /\ [][Next]_vars

-----------------------------------------------------------------------------
(* Properties *)

StakingTypes ==
  /\ CoinTypes
  /\ validators \in Seq(Config)
  /\ queue \subseteq Request
  /\ tickets \in Nat /\ current_epoch \in Nat

TypeOK ==
  /\ StakingTypes
  /\ {total_supply, burnt, credited, reserve} \subseteq Nat

Circulating == SumFunction(balance) + StakeIn(validators) + OwedIn(queue) + reserve

\* The coins there are exceed the counter by no more than what genesis put in the
\* treasury and the executor credited.  (They may be fewer: the clean-up stops the
\* counter at 0, and the counter does not know of slashes and gas.)
Counted == Circulating + burnt <= total_supply + GenesisReserve + credited

\* The counter never grows past the cap, from wherever genesis puts it.
WithinCap == total_supply <= MaxSupply \/ total_supply <= StakeIn(GenesisValidators)

\* Unbonding, withdrawing, cleaning up and slashing make no coin, although staking.move
\* burns and mints again on the way, and what the epochs and the rewards make is counted
\* below the cap, which the loop over the validators may reach in the middle.
CoinsAccountedFor == Counted /\ WithinCap

\* An account with a due request is never held up by an earlier one of its own that
\* is not due, although withdraw_unbonded aborts at the first request it finds.
DueIsWithdrawable ==
  \A q \in queue : Now >= q.unlock => Now >= Oldest(RequestsOf(q.addr)).unlock

\* What the structure of the contract's state rests on: no validator twice, no stake
\* below the minimum, requests due in the order they were made, none due later than
\* one unbonding period from now or left behind by the clean-up.
OneConfigEach ==
  \A i, j \in DOMAIN validators : validators[i].addr = validators[j].addr => i = j

StakesAboveMinimum == \A i \in DOMAIN validators : validators[i].stake >= MinStake

DueInOrder ==
  /\ \A q \in queue : q.ticket < tickets
  /\ \A q, r \in queue : q.ticket = r.ticket => q = r
  /\ \A q, r \in queue : q.ticket < r.ticket => q.unlock <= r.unlock

RequestsCurrent ==
  \A q \in queue :
    q.unlock <= Now + UnbondingPeriod /\ Now < q.unlock + GracePeriod + EpochSeconds

StakingInv == OneConfigEach /\ StakesAboveMinimum /\ DueInOrder /\ RequestsCurrent

StakeOf(a) ==
  SumFunction([i \in {i \in DOMAIN validators : validators[i].addr = a} |-> validators[i].stake])

Locked(a) == StakeOf(a) + OwedIn(RequestsOf(a))

\* What nobody claimed in the claim period after it fell due (staking.move:148-159).
Forfeited(a) == {q \in RequestsOf(a) : q.unlock + GracePeriod <= Now}

\* What is locked for an account shrinks only into its own balance, by the share
\* that a slash burns, or by requests whose claim period is over. That period is
\* stated here again, so that a clean-up which comes early (staking.move:159) fails.
KeepsLocked(a) ==
  LET loss == Locked(a) - Locked(a)'
  IN  \/ loss <= balance'[a] - balance[a]
      \/ loss <= 0
      \/ IsValidator(a) /\ ~IsValidator(a)' /\ loss * 100 <= SlashPercent * StakeOf(a)
      \/ loss <= OwedIn(Forfeited(a))

LockedIsNotLost == [][\A a \in Accounts : KeepsLocked(a)]_vars
=============================================================================

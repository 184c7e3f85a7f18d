------------------------------ MODULE Delegation ------------------------------
(****************************************************************************)
(* delegation.move: the pool of one validator.  Coins that are delegated go  *)
(* to an escrow, leave it after an unbonding time, and earn a share of what  *)
(* is distributed, kept as an accumulated sum per coin in integers.          *)
(*                                                                           *)
(* A delegation of 0 is none, since the contract removes it.  Requests of    *)
(* one account with one unlock time are added up.                            *)
(****************************************************************************)
EXTENDS CoinLedger, FiniteSets, Functions

CONSTANTS
  Validator,         \* the account whose pool it is
  Delegators,        \* accounts that delegate
  MinDelegation,     \* 10^18 in the code
  Scale,             \* 10^18 in the code: shares are kept in parts of it
  MaxCommission,     \* 3000 in the code
  Commissions,       \* the rates a validator asks for
  CommissionDelay,   \* 604800 in the code
  UnbondingPeriod,   \* 1814400 in the code
  Amounts,           \* amounts that are asked for
  Rewards,           \* amounts that are distributed
  MaxValue,          \* 2^128 - 1 in the code: a call that computes more aborts
  MaxNow,            \* bound: the clock of the contract
  MaxRewards,        \* bound: distributions
  MaxSettlements     \* bound: changes of delegations

ASSUME DelegationAssumption ==
  /\ Delegators \cup {Validator} \subseteq Accounts
  /\ {MinDelegation, Scale} \subseteq Nat \ {0} /\ MaxCommission \in 0..10000
  /\ Commissions \cup Amounts \cup Rewards \cup {CommissionDelay, UnbondingPeriod} \subseteq Nat
  /\ {MaxValue, MaxNow, MaxRewards, MaxSettlements} \subseteq Nat

VARIABLES
  enabled,       \* whether the validator has a pool
  rate,          \* commission_rate
  wanted,        \* pending_commission
  wantedFrom,    \* commission_change_time
  delegated,     \* the amount of each delegation
  debt,          \* its reward_debt
  total,         \* total_delegated
  unbonding,     \* unbonding_queue: what an account may take from a time on
  perShare,      \* accumulated_rewards_per_share
  escrow,        \* escrowed_coins
  now,           \* epoch::now_seconds
  distributed,   \* history: rewards left to the delegators
  rewarded,      \* history: distributions
  claimed,       \* history: rewards minted for delegators
  settlements,   \* history: changes of delegations
  minted         \* history: all coins minted here

pool    == <<enabled, rate, wanted, wantedFrom>>
shares  == <<delegated, debt, total, perShare>>
history == <<distributed, rewarded, claimed, settlements, minted>>
delegationVars == <<pool, shares, unbonding, escrow, now, history>>

Times == 0..MaxNow + UnbondingPeriod

DelegationInit ==
  /\ enabled = FALSE /\ rate = 0 /\ wanted = 0 /\ wantedFrom = 0
  /\ delegated = [d \in Delegators |-> 0] /\ debt = [d \in Delegators |-> 0]
  /\ total = 0 /\ perShare = 0
  /\ unbonding = [d \in Delegators |-> [t \in Times |-> 0]]
  /\ escrow = 0 /\ now = 0
  /\ distributed = 0 /\ rewarded = 0 /\ claimed = 0 /\ settlements = 0 /\ minted = 0

\* Pending(d): calculate_pending_reward; it is never negative.
Pending(d) ==
  LET due == (delegated[d] * perShare) \div Scale - debt[d] IN IF due > 0 THEN due ELSE 0

\* DebtOf(amount): what a delegation of that amount has had already.
DebtOf(amount) == (amount * perShare) \div Scale

\* Computes(amount): the product of which shares and debts are the quotients fits in 128 bits.
Computes(amount) == amount * perShare <= MaxValue

\* Pay(d, coins): mints d its pending reward, or nothing when the cap of the supply is
\* reached, and puts the coins into its store.
Pay(d, coins) ==
  \E reward \in {0, Pending(d)} :
    /\ d \in stores /\ UNCHANGED stores
    /\ balance' = [balance EXCEPT ![d] = @ + coins + reward]
    /\ claimed' = claimed + reward /\ minted' = minted + reward

EnableDelegation ==
  /\ ~enabled /\ enabled' = TRUE
  /\ \E c \in Commissions : c <= MaxCommission /\ rate' = c /\ wanted' = c
  /\ UNCHANGED <<coinVars, wantedFrom, shares, unbonding, escrow, now, history>>

\* Seeded fault: the debt of a delegation that grows stays what it was.
DelegateKeepingDebt(d, x) ==
  /\ enabled /\ settlements < MaxSettlements
  /\ x >= MinDelegation /\ balance[d] >= x
  /\ Computes(delegated[d] + x)
  /\ Pay(d, -x)
  /\ delegated' = [delegated EXCEPT ![d] = @ + x]
  /\ debt' = [debt EXCEPT ![d] = IF delegated[d] = 0 THEN DebtOf(x) ELSE @]
  /\ total' = total + x /\ escrow' = escrow + x
  /\ settlements' = settlements + 1
  /\ UNCHANGED <<pool, perShare, unbonding, now, distributed, rewarded>>

\* Delegate(d, x): a new delegation has nothing pending, so that Pay mints none.
Delegate(d, x) ==
  /\ enabled /\ settlements < MaxSettlements
  /\ x >= MinDelegation /\ balance[d] >= x
  /\ Computes(delegated[d] + x)
  /\ Pay(d, -x)
  /\ delegated' = [delegated EXCEPT ![d] = @ + x]
  /\ debt' = [debt EXCEPT ![d] = DebtOf(delegated[d] + x)]
  /\ total' = total + x /\ escrow' = escrow + x
  /\ settlements' = settlements + 1
  /\ UNCHANGED <<pool, perShare, unbonding, now, distributed, rewarded>>

\* Undelegate(d, x): any amount up to the whole; the coins stay in the escrow.
Undelegate(d, x) ==
  /\ enabled /\ settlements < MaxSettlements
  /\ delegated[d] > 0 /\ delegated[d] >= x
  /\ Computes(delegated[d])
  /\ Pay(d, 0)
  /\ delegated' = [delegated EXCEPT ![d] = @ - x]
  /\ debt' = [debt EXCEPT ![d] = DebtOf(delegated[d] - x)]
  /\ total' = total - x
  /\ unbonding' = [unbonding EXCEPT ![d][now + UnbondingPeriod] = @ + x]
  /\ settlements' = settlements + 1
  /\ UNCHANGED <<pool, perShare, escrow, now, distributed, rewarded>>

\* Seeded fault: requests that are not due yet are removed with the others.
WithdrawRemovingAll(d) ==
  LET due == SumFunctionOnSet(unbonding[d], {t \in Times : t <= now}) IN
  /\ due > 0 /\ Deposit(d, due)
  /\ unbonding' = [unbonding EXCEPT ![d] = [t \in Times |-> 0]]
  /\ escrow' = escrow - due
  /\ UNCHANGED <<pool, shares, now, history>>

\* WithdrawUnbonded(d): all that is due at once.
WithdrawUnbonded(d) ==
  LET due == SumFunctionOnSet(unbonding[d], {t \in Times : t <= now}) IN
  /\ due > 0 /\ Deposit(d, due)
  /\ unbonding' = [unbonding EXCEPT ![d] = [t \in Times |-> IF t <= now THEN 0 ELSE @[t]]]
  /\ escrow' = escrow - due
  /\ UNCHANGED <<pool, shares, now, history>>

ClaimRewards(d) ==
  /\ delegated[d] > 0 /\ Computes(delegated[d])
  /\ Pay(d, 0)
  /\ debt' = [debt EXCEPT ![d] = DebtOf(delegated[d])]
  /\ UNCHANGED <<pool, delegated, total, perShare, unbonding, escrow, now, distributed, rewarded,
                 settlements>>

UpdateCommission ==
  /\ enabled
  /\ \E c \in Commissions : c <= MaxCommission /\ wanted' = c
  /\ wantedFrom' = now + CommissionDelay
  /\ UNCHANGED <<coinVars, enabled, rate, shares, unbonding, escrow, now, history>>

ApplyCommissionChange ==
  /\ enabled /\ now >= wantedFrom
  /\ rate' = wanted
  /\ UNCHANGED <<coinVars, enabled, wanted, wantedFrom, shares, unbonding, escrow, now, history>>

\* Commission(x): the validator's part of a reward, in parts of 10000.
Commission(x) == (x * rate) \div 10000

\* Distribute(x): the commission to the validator, unless the cap is reached, the rest to the
\* shares.  No code calls it.
Distribute(x) ==
  /\ rewarded < MaxRewards /\ rewarded' = rewarded + 1
  /\ enabled /\ total > 0 /\ (x - Commission(x)) * Scale <= MaxValue
  /\ \E paid \in {0, Commission(x)} :
       /\ paid > 0 => Validator \in stores
       /\ balance' = [balance EXCEPT ![Validator] = @ + paid]
       /\ minted' = minted + paid
  /\ perShare' = perShare + ((x - Commission(x)) * Scale) \div total
  /\ perShare' <= MaxValue
  /\ distributed' = distributed + x - Commission(x)
  /\ UNCHANGED <<stores, pool, delegated, debt, total, unbonding, escrow, now, claimed, settlements>>

\* AdvanceClock: epoch::advance_epoch, seen from here.
AdvanceClock ==
  /\ now < MaxNow /\ now' = now + 1
  /\ UNCHANGED <<coinVars, pool, shares, unbonding, escrow, history>>

DelegationNext ==
  \/ EnableDelegation \/ UpdateCommission \/ ApplyCommissionChange \/ AdvanceClock
  \/ \E d \in Delegators : ClaimRewards(d) \/ WithdrawUnbonded(d)
  \/ \E d \in Delegators, x \in Amounts : Delegate(d, x) \/ Undelegate(d, x)
  \/ \E x \in Rewards : Distribute(x)

\* The escrow holds exactly what is delegated and what waits to be withdrawn, so no sequence of
\* delegations, partial undelegations and late withdrawals leaves a request that the escrow
\* cannot pay, or coins nobody can have.
EscrowCovers ==
  /\ total = SumFunction(delegated)
  /\ escrow = total + SumFunction([d \in Delegators |-> SumFunction(unbonding[d])])

\* Delegators together are never paid, or owed, more than was distributed to them, but for one
\* unit for each change of a delegation: the shares are rounded down when a debt is taken, and
\* each such rounding can be gained once.
RewardsWithinRounding ==
  claimed + SumFunction([d \in Delegators |-> Pending(d)]) <= distributed + settlements
=============================================================================

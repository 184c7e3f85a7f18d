------------------------- MODULE AroundTheChainProofs -------------------------
(****************************************************************************)
(* Proofs about what keeps accounts around the chain: the contracts that     *)
(* lock coins, the proposals in the database of a node, and the programs     *)
(* that follow a chain.  They hold for any accounts, amounts, rates, holders *)
(* and periods.                                                              *)
(****************************************************************************)
EXTENDS AroundTheChain, SumTheorems, TLAPS

-----------------------------------------------------------------------------
(* Delegations and locked votes.                                             *)
(*                                                                           *)
(* That rewards stay within rounding needs the debts to be covered by what   *)
(* the shares are worth (DebtsCovered), and the gap between the two, in      *)
(* parts of Scale, to be covered by what was distributed and one unit for    *)
(* each settlement (GapsCovered).                                            *)

LEMMA QuotientFacts ==
  ASSUME NEW n \in Nat, NEW m \in Nat \ {0}
  PROVE  /\ n \div m \in Nat
         /\ m * (n \div m) <= n /\ n < m * (n \div m) + m
OBVIOUS

LEMMA DivideBoth ==
  ASSUME NEW a \in Nat, NEW b \in Nat, NEW m \in Nat \ {0}, m * a <= m * b
  PROVE  a <= b
OBVIOUS

LEMMA FiniteParts ==
  /\ IsFiniteSet(Accounts) /\ IsFiniteSet(Delegators) /\ IsFiniteSet(Voters)
  /\ IsFiniteSet(Times)
  /\ Scale \in Nat \ {0} /\ UnbondingPeriod \in Nat /\ MaxNow \in Nat
<1>1. Delegators \subseteq Accounts /\ Voters \subseteq Accounts
  BY DelegationAssumption, VoteEscrowAssumption
<1>2. Scale \in Nat \ {0} /\ UnbondingPeriod \in Nat /\ MaxNow \in Nat
  BY DelegationAssumption
<1>3. IsFiniteSet(Times)
  BY <1>2, FS_Interval DEF Times
<1>. QED BY <1>1, <1>2, <1>3, AccountsAssumption, FS_Subset

\* A rate, in parts of 10000.
Parts == 0..10000

PoolTypes ==
  /\ rate \in Parts /\ wanted \in Parts /\ now \in 0..MaxNow
  /\ delegated \in [Delegators -> Nat] /\ debt \in [Delegators -> Nat]
  /\ unbonding \in [Delegators -> [Times -> Nat]]
  /\ perShare \in Nat /\ distributed \in Nat /\ claimed \in Nat /\ settlements \in Nat

ContractTypes ==
  /\ CoinTypes /\ PoolTypes
  /\ minted \in Nat /\ locked \in [Voters -> Nat] /\ feesBurned \in Nat

Held    == SumFunction(balance)
Waiting == [d \in Delegators |-> SumFunction(unbonding[d])]
Gaps    == [d \in Delegators |-> delegated[d] * perShare - debt[d] * Scale]

DebtsCovered == \A d \in Delegators : debt[d] * Scale <= delegated[d] * perShare
GapsCovered  == Scale * claimed + SumFunction(Gaps) <= Scale * (distributed + settlements)

ContractsInv ==
  ContractTypes /\ EscrowCovers /\ LockedCoinsReturn /\ DebtsCovered /\ GapsCovered

LEMMA GapFacts ==
  ASSUME PoolTypes, DebtsCovered
  PROVE  /\ Gaps \in [Delegators -> Nat]
         /\ \A d \in Delegators :
              /\ Pending(d) \in Nat
              /\ Scale * Pending(d) <= Gaps[d]
              /\ DebtOf(delegated[d]) = debt[d] + Pending(d)
<1>1. ASSUME NEW d \in Delegators
      PROVE  /\ Gaps[d] \in Nat /\ Pending(d) \in Nat /\ Scale * Pending(d) <= Gaps[d]
             /\ DebtOf(delegated[d]) = debt[d] + Pending(d)
  <2> DEFINE n == delegated[d] * perShare
             q == n \div Scale
  <2>1. delegated[d] \in Nat /\ debt[d] \in Nat /\ perShare \in Nat /\ Scale \in Nat \ {0}
    BY FiniteParts DEF PoolTypes
  <2>2. n \in Nat
    BY <2>1
  <2>3. debt[d] * Scale <= n
    BY DEF DebtsCovered
  <2>4. Gaps[d] = n - debt[d] * Scale
    BY DEF Gaps
  <2>5. Pending(d) = IF q - debt[d] > 0 THEN q - debt[d] ELSE 0
    BY DEF Pending
  <2>6. DebtOf(delegated[d]) = q
    BY DEF DebtOf
  <2> HIDE DEF n
  <2>7. q \in Nat /\ Scale * q <= n /\ n < Scale * q + Scale
    BY <2>1, <2>2, QuotientFacts
  <2> HIDE DEF q
  <2>8. debt[d] * Scale \in Nat /\ debt[d] * Scale = Scale * debt[d]
    BY <2>1
  <2>9. debt[d] <= q
    <3>1. SUFFICES ASSUME debt[d] > q PROVE FALSE
      BY <2>1, <2>7
    <3>2. Scale * debt[d] >= Scale * (q + 1)
      BY <3>1, <2>1, <2>7
    <3>3. Scale * (q + 1) = Scale * q + Scale
      BY <2>1, <2>7
    <3>. QED BY <2>1, <2>2, <2>3, <2>7, <2>8, <3>2, <3>3
  <2>10. Pending(d) = q - debt[d] /\ Pending(d) \in Nat
    BY <2>1, <2>5, <2>7, <2>9
  <2>11. Scale * (q - debt[d]) = Scale * q - Scale * debt[d] /\ Scale * q \in Nat
    BY <2>1, <2>7
  <2>. QED BY <2>1, <2>2, <2>3, <2>4, <2>6, <2>7, <2>8, <2>10, <2>11
<1>. QED BY <1>1 DEF Gaps

\* One store changes.
LEMMA HeldChanged ==
  ASSUME CoinTypes, NEW a \in Accounts, NEW y \in Nat, UNCHANGED stores,
         balance' = [balance EXCEPT ![a] = y]
  PROVE  CoinTypes' /\ Held \in Nat /\ Held' = Held - balance[a] + y
<1>1. /\ balance \in [Accounts -> Nat] /\ balance' \in [Accounts -> Nat] /\ balance'[a] = y
      /\ \A b \in Accounts : b # a => balance'[b] = balance[b]
  BY DEF CoinTypes
<1>a. a \in Accounts /\ IsFiniteSet(Accounts)
  BY FiniteParts
<1>2. SumFunction(balance') = SumFunction(balance) - balance[a] + balance'[a]
  BY ONLY <1>1, <1>a, FunctionSumChanged
<1>3. SumFunction(balance) \in Nat
  BY <1>1, FiniteParts, FunctionSum
<1>. QED BY <1>1, <1>2, <1>3 DEF Held, CoinTypes

LEMMA DepositHeld ==
  ASSUME CoinTypes, NEW a \in Accounts, NEW x \in Nat, Deposit(a, x)
  PROVE  CoinTypes' /\ Held \in Nat /\ Held' = Held + x
<1>1. balance[a] \in Nat /\ balance[a] + x \in Nat
  BY DEF CoinTypes
<1>2. balance' = [balance EXCEPT ![a] = balance[a] + x] /\ UNCHANGED stores
  BY DEF Deposit
<1>3. CoinTypes' /\ Held \in Nat /\ Held' = Held - balance[a] + (balance[a] + x)
  BY <1>1, <1>2, HeldChanged
<1>. QED BY <1>1, <1>3

LEMMA WithdrawHeld ==
  ASSUME CoinTypes, NEW a \in Accounts, NEW x \in Nat, Withdraw(a, x)
  PROVE  CoinTypes' /\ Held \in Nat /\ Held' = Held - x
<1>1. balance[a] \in Nat /\ balance[a] - x \in Nat
  BY DEF CoinTypes, Withdraw
<1>2. balance' = [balance EXCEPT ![a] = balance[a] - x] /\ UNCHANGED stores
  BY DEF Withdraw
<1>3. CoinTypes' /\ Held \in Nat /\ Held' = Held - balance[a] + (balance[a] - x)
  BY <1>1, <1>2, HeldChanged
<1>. QED BY <1>1, <1>3

LEMMA MoveHeld ==
  ASSUME CoinTypes, NEW a \in Accounts, NEW b \in Accounts, NEW x \in Nat, Move(a, b, x)
  PROVE  CoinTypes' /\ Held' = Held
<1> DEFINE debited == [balance EXCEPT ![a] = @ - x]
<1>1. /\ balance \in [Accounts -> Nat] /\ debited \in [Accounts -> Nat]
      /\ debited[a] = balance[a] - x
      /\ \A c \in Accounts : c # a => debited[c] = balance[c]
  BY DEF CoinTypes, Move
<1>2. balance' = [debited EXCEPT ![b] = @ + x] /\ UNCHANGED stores
  BY DEF Move
<1> HIDE DEF debited
<1>3. /\ balance' \in [Accounts -> Nat]
      /\ balance'[b] = debited[b] + x
      /\ \A c \in Accounts : c # b => balance'[c] = debited[c]
  BY <1>1, <1>2
<1>4. SumFunction(debited) = SumFunction(balance) - balance[a] + debited[a]
  BY <1>1, FiniteParts, FunctionSumChanged
<1>5. SumFunction(balance') = SumFunction(debited) - debited[b] + balance'[b]
  BY <1>1, <1>3, FiniteParts, FunctionSumChanged
<1>6. /\ balance[a] \in Nat /\ debited[b] \in Nat
      /\ SumFunction(balance) \in Nat /\ SumFunction(debited) \in Nat
  BY <1>1, FiniteParts, FunctionSum
<1>7. SumFunction(debited) = SumFunction(balance) - x
  BY <1>1, <1>4, <1>6
<1>8. SumFunction(balance') = SumFunction(debited) + x
  BY <1>3, <1>5, <1>6
<1>9. CoinTypes'
  BY <1>2, <1>3 DEF CoinTypes
<1>. QED BY <1>6, <1>7, <1>8, <1>9 DEF Held

LEMMA PayHeld ==
  ASSUME ContractTypes, DebtsCovered, NEW d \in Delegators, NEW c \in Int,
         balance[d] + c >= 0, Pay(d, c)
  PROVE  \E reward \in Nat :
           /\ CoinTypes' /\ Held \in Nat /\ Held' = Held + c + reward
           /\ claimed' = claimed + reward /\ minted' = minted + reward
           /\ reward <= Pending(d)
<1>1. PICK reward \in {0, Pending(d)} :
        /\ UNCHANGED stores
        /\ balance' = [balance EXCEPT ![d] = @ + c + reward]
        /\ claimed' = claimed + reward /\ minted' = minted + reward
  BY DEF Pay
<1>2. Pending(d) \in Nat
  BY GapFacts DEF ContractTypes
<1>3. d \in Accounts
  BY DelegationAssumption
<1>4. balance[d] \in Nat
  BY <1>3 DEF ContractTypes, CoinTypes
<1>5. reward \in Nat /\ reward <= Pending(d) /\ balance[d] + c + reward \in Nat
  BY <1>2, <1>4
<1>6. balance' = [balance EXCEPT ![d] = balance[d] + c + reward]
  BY <1>1
<1>7. CoinTypes' /\ Held \in Nat /\ Held' = Held - balance[d] + (balance[d] + c + reward)
  BY <1>1, <1>3, <1>5, <1>6, HeldChanged DEF ContractTypes
<1>. QED BY <1>1, <1>4, <1>5, <1>7

\* One delegation is settled: its debt becomes what the delegation is worth now.
LEMMA SettledGaps ==
  ASSUME ContractTypes, DebtsCovered, NEW d \in Delegators, NEW y \in Nat, perShare' = perShare,
         delegated' = [delegated EXCEPT ![d] = y], debt' = [debt EXCEPT ![d] = DebtOf(y)]
  PROVE  /\ delegated' \in [Delegators -> Nat] /\ debt' \in [Delegators -> Nat]
         /\ DebtsCovered'
         /\ SumFunction(delegated)' = SumFunction(delegated) - delegated[d] + y
         /\ SumFunction(Gaps) \in Nat /\ SumFunction(Gaps)' \in Nat
         /\ \E gap \in Nat : /\ gap = y * perShare - DebtOf(y) * Scale /\ gap < Scale
                            /\ SumFunction(Gaps)' = SumFunction(Gaps) - Gaps[d] + gap
<1> DEFINE gap == y * perShare - DebtOf(y) * Scale
<1>1. /\ delegated \in [Delegators -> Nat] /\ debt \in [Delegators -> Nat]
      /\ perShare \in Nat /\ Scale \in Nat \ {0} /\ IsFiniteSet(Delegators)
  BY FiniteParts DEF ContractTypes, PoolTypes
<1>2. DebtOf(y) \in Nat /\ Scale * DebtOf(y) <= y * perShare
      /\ y * perShare < Scale * DebtOf(y) + Scale
  <2>1. y * perShare \in Nat
    BY <1>1
  <2>. QED BY <1>1, <2>1, QuotientFacts DEF DebtOf
<1>3. DebtOf(y) * Scale = Scale * DebtOf(y) /\ DebtOf(y) * Scale \in Nat /\ y * perShare \in Nat
  BY <1>1, <1>2
<1>4. gap \in Nat /\ gap < Scale
  BY <1>1, <1>2, <1>3
<1>5. /\ delegated' \in [Delegators -> Nat] /\ delegated'[d] = y
      /\ debt' \in [Delegators -> Nat] /\ debt'[d] = DebtOf(y)
      /\ \A e \in Delegators : e # d => delegated'[e] = delegated[e] /\ debt'[e] = debt[e]
  BY <1>1, <1>2
<1>6. DebtsCovered'
  <2>1. SUFFICES ASSUME NEW e \in Delegators PROVE debt'[e] * Scale <= delegated'[e] * perShare
    BY DEF DebtsCovered
  <2>2. CASE e = d
    BY <2>2, <1>2, <1>3, <1>5
  <2>3. CASE e # d
    BY <2>3, <1>5 DEF DebtsCovered
  <2>. QED BY <2>2, <2>3
<1>a. d \in Delegators
  OBVIOUS
<1>7. SumFunction(delegated') = SumFunction(delegated) - delegated[d] + delegated'[d]
  BY ONLY <1>1, <1>5, <1>a, FunctionSumChanged
<1>8. Gaps \in [Delegators -> Nat]
  BY GapFacts DEF ContractTypes
<1>9. Gaps' = [e \in Delegators |-> delegated'[e] * perShare - debt'[e] * Scale]
  BY DEF Gaps
<1>10. Gaps'[d] = gap
  BY <1>5, <1>9
<1>11. \A e \in Delegators : e # d => Gaps'[e] = Gaps[e]
  BY <1>5, <1>9 DEF Gaps
<1> HIDE DEF gap
<1>12. Gaps' \in [Delegators -> Nat]
  BY <1>4, <1>8, <1>9, <1>10, <1>11
<1>13. /\ SumFunction(Gaps') = SumFunction(Gaps) - Gaps[d] + gap
       /\ SumFunction(Gaps) \in Nat /\ SumFunction(Gaps') \in Nat
  BY <1>1, <1>8, <1>10, <1>11, <1>12, FunctionSum, FunctionSumChanged
<1>. QED BY <1>4, <1>5, <1>6, <1>7, <1>13 DEF gap

\* Scale times what is claimed, and the gaps, grow by no more than the settlements do.
LEMMA GapsKept ==
  ASSUME NEW c \in Nat, NEW g \in Nat, NEW m \in Nat, NEW n \in Nat, NEW r \in Nat,
         NEW h \in Nat, NEW k \in Nat,
         Scale * c + g <= Scale * (m + n), h + Scale * r <= g + Scale * k
  PROVE  Scale * (c + r) + h <= Scale * (m + (n + k))
<1>1. Scale \in Nat
  BY FiniteParts
<1>2. /\ Scale * (c + r) = Scale * c + Scale * r
      /\ Scale * (m + (n + k)) = Scale * (m + n) + Scale * k
  BY <1>1
<1>3. /\ Scale * c \in Nat /\ Scale * r \in Nat /\ Scale * k \in Nat
      /\ Scale * (m + n) \in Nat
  BY <1>1
<1>. QED BY <1>2, <1>3

\* What the sums of a state are, for the steps that change one of them.
LEMMA ContractSums ==
  ASSUME ContractsInv
  PROVE  /\ SumFunction(delegated) \in Nat /\ SumFunction(Waiting) \in Nat
         /\ SumFunction(locked) \in Nat /\ SumFunction(Initial) \in Nat /\ Held \in Nat
         /\ SumFunction(Gaps) \in Nat
         /\ Waiting \in [Delegators -> Nat]
         /\ total = SumFunction(delegated) /\ escrow = total + SumFunction(Waiting)
         /\ Held + escrow + SumFunction(locked) + feesBurned = SumFunction(Initial) + minted
         /\ total \in Nat /\ escrow \in Nat
<1>1. \A d \in Delegators : unbonding[d] \in [Times -> Nat]
  BY DEF ContractsInv, ContractTypes, PoolTypes
<1>2. Waiting \in [Delegators -> Nat]
  BY <1>1, FiniteParts, FunctionSum DEF Waiting
<1>3. /\ SumFunction(delegated) \in Nat /\ SumFunction(Waiting) \in Nat
      /\ SumFunction(locked) \in Nat
  BY <1>2, FiniteParts, FunctionSum DEF ContractsInv, ContractTypes, PoolTypes
<1>4. SumFunction(Initial) \in Nat /\ Held \in Nat
  BY ContractsAssumption, FiniteParts, FunctionSum
     DEF ContractsInv, ContractTypes, CoinTypes, Held
<1>5. SumFunction(Gaps) \in Nat
  BY GapFacts, FiniteParts, FunctionSum DEF ContractsInv, ContractTypes
<1>6. total = SumFunction(delegated) /\ escrow = total + SumFunction(Waiting)
  BY DEF ContractsInv, EscrowCovers, Waiting
<1>7. Held + escrow + SumFunction(locked) + feesBurned = SumFunction(Initial) + minted
  BY DEF ContractsInv, LockedCoinsReturn, Held
<1>. QED BY <1>2, <1>3, <1>4, <1>5, <1>6, <1>7

\* A delegation becomes y, its debt is settled, the rewards and c coins are paid, and what
\* waits to be withdrawn changes by the difference.
LEMMA SettleStep ==
  ASSUME ContractsInv, NEW d \in Delegators, NEW y \in Nat, NEW c \in Int, NEW k \in Nat,
         balance[d] + c >= 0, Pay(d, c), k = 1 \/ y = delegated[d],
         delegated' = [delegated EXCEPT ![d] = y], debt' = [debt EXCEPT ![d] = DebtOf(y)],
         total' = total - delegated[d] + y, escrow' = escrow - c, settlements' = settlements + k,
         unbonding' \in [Delegators -> [Times -> Nat]],
         SumFunction(Waiting)' = SumFunction(Waiting) + (delegated[d] - y - c),
         UNCHANGED <<rate, wanted, perShare, now, distributed, locked, feesBurned>>
  PROVE  ContractsInv'
<1>1. d \in Accounts
  BY DelegationAssumption
<1>2. delegated[d] \in Nat /\ balance[d] \in Nat
  BY <1>1 DEF ContractsInv, ContractTypes, PoolTypes, CoinTypes
<1>3. ContractTypes /\ DebtsCovered /\ GapsCovered
  BY DEF ContractsInv
<1>4. PICK reward \in Nat :
        /\ CoinTypes' /\ Held \in Nat /\ Held' = Held + c + reward
        /\ claimed' = claimed + reward /\ minted' = minted + reward
        /\ reward <= Pending(d)
  BY <1>3, PayHeld
<1>5. /\ delegated' \in [Delegators -> Nat] /\ debt' \in [Delegators -> Nat] /\ DebtsCovered'
      /\ SumFunction(delegated)' = SumFunction(delegated) - delegated[d] + y
      /\ SumFunction(Gaps) \in Nat /\ SumFunction(Gaps)' \in Nat
      /\ \E gap \in Nat : /\ gap = y * perShare - DebtOf(y) * Scale /\ gap < Scale
                         /\ SumFunction(Gaps)' = SumFunction(Gaps) - Gaps[d] + gap
  BY <1>3, SettledGaps
<1>6. ContractTypes'
  <2>1. claimed' \in Nat /\ minted' \in Nat /\ settlements' \in Nat
    BY <1>3, <1>4 DEF ContractTypes, PoolTypes
  <2>2. PoolTypes
    BY <1>3 DEF ContractTypes
  <2>3. /\ UNCHANGED <<rate, wanted, perShare, now, distributed>>
        /\ unbonding' \in [Delegators -> [Times -> Nat]]
    OBVIOUS
  <2>4. delegated' \in [Delegators -> Nat] /\ debt' \in [Delegators -> Nat]
    BY ONLY <1>5
  <2>5. /\ rate' \in Parts /\ wanted' \in Parts /\ now' \in 0..MaxNow
        /\ perShare' \in Nat /\ distributed' \in Nat
    BY ONLY <2>2, <2>3 DEF PoolTypes
  <2>6. PoolTypes'
    BY ONLY <2>1, <2>3, <2>4, <2>5 DEF PoolTypes
  <2>. QED BY <1>3, <1>4, <2>1, <2>6 DEF ContractTypes
<1>7. EscrowCovers'
  <2>1. total' = SumFunction(delegated)'
    BY <1>2, <1>5, ContractSums
  <2>2. escrow' = total' + SumFunction(Waiting)'
    BY <1>2, <1>5, ContractSums
  <2>. QED BY <2>1, <2>2 DEF EscrowCovers, Waiting
<1>8. LockedCoinsReturn'
  <2>1. minted \in Nat /\ feesBurned \in Nat
    BY <1>3 DEF ContractTypes
  <2>2. Held' + escrow' + SumFunction(locked)' + feesBurned' = SumFunction(Initial) + minted'
    BY <1>4, <2>1, ContractSums
  <2>. QED BY <2>2 DEF LockedCoinsReturn, Held
<1>9. GapsCovered'
  <2>1. PICK gap \in Nat : /\ gap = y * perShare - DebtOf(y) * Scale /\ gap < Scale
                           /\ SumFunction(Gaps)' = SumFunction(Gaps) - Gaps[d] + gap
    BY <1>5
  <2>2. /\ Scale * Pending(d) <= Gaps[d] /\ Pending(d) \in Nat /\ Gaps[d] \in Nat
        /\ DebtOf(delegated[d]) = debt[d] + Pending(d)
    BY <1>3, GapFacts DEF ContractTypes
  <2>3. Scale * reward <= Scale * Pending(d) /\ Scale * reward \in Nat /\ Scale * Pending(d) \in Nat
    BY <1>4, <2>2, FiniteParts
  <2>4. SumFunction(Gaps)' + Scale * reward <= SumFunction(Gaps) + Scale * k
    <3>1. CASE k = 1
      BY <1>5, <2>1, <2>2, <2>3, <3>1, FiniteParts
    <3>2. CASE y = delegated[d]
      <4>1. /\ Gaps[d] = delegated[d] * perShare - debt[d] * Scale
            /\ gap = delegated[d] * perShare - (debt[d] + Pending(d)) * Scale
        BY <2>1, <2>2, <3>2 DEF Gaps
      <4>2. debt[d] \in Nat /\ perShare \in Nat /\ Scale \in Nat
        BY <1>3, FiniteParts DEF ContractTypes, PoolTypes
      <4>3. /\ (debt[d] + Pending(d)) * Scale = debt[d] * Scale + Scale * Pending(d)
            /\ debt[d] * Scale \in Nat /\ delegated[d] * perShare \in Nat
        BY <1>2, <2>2, <4>2
      <4>4. gap = Gaps[d] - Scale * Pending(d)
        BY <2>3, <4>1, <4>3
      <4>5. Scale * k \in Nat
        BY <4>2
      <4>. QED BY <1>5, <2>1, <2>2, <2>3, <4>4, <4>5
    <3>. QED BY <3>1, <3>2
  <2>5. claimed \in Nat /\ distributed \in Nat /\ settlements \in Nat
    BY <1>3 DEF ContractTypes, PoolTypes
  <2>6. Scale * claimed + SumFunction(Gaps) <= Scale * (distributed + settlements)
    BY <1>3 DEF GapsCovered
  <2>7. Scale * (claimed + reward) + SumFunction(Gaps)' <= Scale * (distributed + (settlements + k))
    BY <1>5, <2>4, <2>5, <2>6, GapsKept
  <2>. QED BY <1>4, <2>7 DEF GapsCovered
<1>. QED BY <1>5, <1>6, <1>7, <1>8, <1>9 DEF ContractsInv

LEMMA DelegateStep ==
  ASSUME ContractsInv, NEW d \in Delegators, NEW x \in Amounts, Delegate(d, x), UNCHANGED voteVars
  PROVE  ContractsInv'
<1> DEFINE y == delegated[d] + x
           c == -x
<1>1. x \in Nat /\ d \in Accounts
  BY DelegationAssumption
<1>2. delegated[d] \in Nat /\ balance[d] \in Nat
  BY <1>1 DEF ContractsInv, ContractTypes, PoolTypes, CoinTypes
<1>3. total \in Nat /\ escrow \in Nat /\ SumFunction(Waiting) \in Nat
  BY ContractSums
<1>4. /\ y \in Nat /\ c \in Int /\ balance[d] + c >= 0 /\ Pay(d, c)
      /\ total' = total - delegated[d] + y /\ escrow' = escrow - c
      /\ settlements' = settlements + 1
      /\ delegated[d] - y - c = 0
  BY <1>1, <1>2, <1>3 DEF Delegate
<1>5. delegated' = [delegated EXCEPT ![d] = y] /\ debt' = [debt EXCEPT ![d] = DebtOf(y)]
  BY DEF Delegate
<1>6. UNCHANGED <<rate, wanted, perShare, unbonding, now, distributed, locked, feesBurned>>
  BY DEF Delegate, pool, voteVars
<1>7. unbonding' \in [Delegators -> [Times -> Nat]]
  BY <1>6 DEF ContractsInv, ContractTypes, PoolTypes
<1>8. SumFunction(Waiting)' = SumFunction(Waiting)
  BY <1>6 DEF Waiting
<1> HIDE DEF y, c
<1>9. SumFunction(Waiting)' = SumFunction(Waiting) + (delegated[d] - y - c)
  BY <1>3, <1>4, <1>8
<1>. QED BY <1>4, <1>5, <1>6, <1>7, <1>9, SettleStep

LEMMA ClaimStep ==
  ASSUME ContractsInv, NEW d \in Delegators, ClaimRewards(d), UNCHANGED voteVars
  PROVE  ContractsInv'
<1> DEFINE y == delegated[d]
           c == 0
           k == 0
<1>1. d \in Accounts
  BY DelegationAssumption
<1>2. /\ delegated \in [Delegators -> Nat] /\ y \in Nat /\ balance[d] \in Nat
      /\ settlements \in Nat
  BY <1>1 DEF ContractsInv, ContractTypes, PoolTypes, CoinTypes
<1>3. total \in Nat /\ escrow \in Nat /\ SumFunction(Waiting) \in Nat
  BY ContractSums
<1>4. /\ balance[d] + c >= 0 /\ Pay(d, c) /\ total' = total - delegated[d] + y
      /\ escrow' = escrow - c /\ settlements' = settlements + k
      /\ delegated[d] - y - c = 0 /\ c \in Int /\ k \in Nat
  BY <1>2, <1>3 DEF ClaimRewards
<1>5. delegated' = [delegated EXCEPT ![d] = y] /\ debt' = [debt EXCEPT ![d] = DebtOf(y)]
  BY <1>2 DEF ClaimRewards
<1>6. UNCHANGED <<rate, wanted, perShare, unbonding, now, distributed, locked, feesBurned>>
  BY DEF ClaimRewards, pool, voteVars
<1>7. unbonding' \in [Delegators -> [Times -> Nat]]
  BY <1>6 DEF ContractsInv, ContractTypes, PoolTypes
<1>8. SumFunction(Waiting)' = SumFunction(Waiting)
  BY <1>6 DEF Waiting
<1>9. SumFunction(Waiting)' = SumFunction(Waiting) + (delegated[d] - y - c)
  BY <1>3, <1>4, <1>8
<1>10. y = delegated[d]
  OBVIOUS
<1> HIDE DEF y, c, k
<1>. QED BY <1>2, <1>4, <1>5, <1>6, <1>7, <1>9, <1>10, SettleStep

\* The requests of one account change.
LEMMA WaitingChanged ==
  ASSUME ContractsInv, NEW d \in Delegators, NEW u \in [Times -> Nat],
         unbonding' = [unbonding EXCEPT ![d] = u]
  PROVE  /\ unbonding' \in [Delegators -> [Times -> Nat]]
         /\ SumFunction(unbonding[d]) \in Nat /\ SumFunction(u) \in Nat
         /\ SumFunction(Waiting)' = SumFunction(Waiting) - SumFunction(unbonding[d]) + SumFunction(u)
<1>1. unbonding \in [Delegators -> [Times -> Nat]]
  BY DEF ContractsInv, ContractTypes, PoolTypes
<1>2. /\ unbonding' \in [Delegators -> [Times -> Nat]] /\ unbonding'[d] = u
      /\ \A e \in Delegators : e # d => unbonding'[e] = unbonding[e]
  BY <1>1
<1>3. /\ unbonding[d] \in [Times -> Nat]
      /\ \A e \in Delegators : unbonding'[e] \in [Times -> Nat]
  BY <1>1, <1>2
<1>4. SumFunction(unbonding[d]) \in Nat /\ SumFunction(u) \in Nat
  BY <1>3, FiniteParts, FunctionSum
<1>5. Waiting' = [e \in Delegators |-> SumFunction(unbonding'[e])]
  BY DEF Waiting
<1>6. \A e \in Delegators : SumFunction(unbonding'[e]) \in Nat
  BY <1>3, FiniteParts, FunctionSum
<1>7. Waiting' \in [Delegators -> Nat] /\ Waiting'[d] = SumFunction(u)
  BY <1>2, <1>5, <1>6
<1>8. Waiting \in [Delegators -> Nat] /\ Waiting[d] = SumFunction(unbonding[d])
  BY ContractSums DEF Waiting
<1>9. \A e \in Delegators : e # d => Waiting'[e] = Waiting[e]
  BY <1>2, <1>5 DEF Waiting
<1>10. d \in Delegators /\ IsFiniteSet(Delegators)
  BY FiniteParts
<1>11. SumFunction(Waiting') = SumFunction(Waiting) - Waiting[d] + Waiting'[d]
  BY ONLY <1>7, <1>8, <1>9, <1>10, FunctionSumChanged
<1>. QED BY <1>2, <1>4, <1>7, <1>8, <1>11

LEMMA UndelegateStep ==
  ASSUME ContractsInv, NEW d \in Delegators, NEW x \in Amounts, Undelegate(d, x), UNCHANGED voteVars
  PROVE  ContractsInv'
<1> DEFINE y == delegated[d] - x
           t == now + UnbondingPeriod
           c == 0
           u == [unbonding[d] EXCEPT ![t] = @ + x]
<1>1. x \in Nat /\ d \in Accounts
  BY DelegationAssumption
<1>2. /\ delegated[d] \in Nat /\ balance[d] \in Nat /\ unbonding[d] \in [Times -> Nat]
      /\ t \in Times
  BY <1>1, FiniteParts DEF ContractsInv, ContractTypes, PoolTypes, CoinTypes, Times
<1>3. total \in Nat /\ escrow \in Nat /\ SumFunction(Waiting) \in Nat
  BY ContractSums
<1>4. /\ y \in Nat /\ c \in Int /\ balance[d] + c >= 0 /\ Pay(d, c)
      /\ total' = total - delegated[d] + y /\ escrow' = escrow - c
      /\ settlements' = settlements + 1
      /\ delegated[d] - y - c = x
  BY <1>1, <1>2, <1>3 DEF Undelegate
<1>5. delegated' = [delegated EXCEPT ![d] = y] /\ debt' = [debt EXCEPT ![d] = DebtOf(y)]
  BY DEF Undelegate
<1>6. UNCHANGED <<rate, wanted, perShare, now, distributed, locked, feesBurned>>
  BY DEF Undelegate, pool, voteVars
<1>7. unbonding' = [unbonding EXCEPT ![d] = u]
  BY DEF Undelegate
<1> HIDE DEF t
<1>8. /\ u \in [Times -> Nat] /\ u[t] = unbonding[d][t] + x /\ unbonding[d][t] \in Nat
      /\ \A r \in Times : r # t => u[r] = unbonding[d][r]
  BY <1>1, <1>2
<1> HIDE DEF u
<1>9. SumFunction(u) = SumFunction(unbonding[d]) - unbonding[d][t] + u[t]
  BY ONLY <1>2, <1>8, FiniteParts, FunctionSumChanged
<1>10. /\ unbonding' \in [Delegators -> [Times -> Nat]]
       /\ SumFunction(unbonding[d]) \in Nat /\ SumFunction(u) \in Nat
       /\ SumFunction(Waiting)' = SumFunction(Waiting) - SumFunction(unbonding[d]) + SumFunction(u)
  BY <1>7, <1>8, WaitingChanged
<1> HIDE DEF y, c
<1>11. SumFunction(Waiting)' = SumFunction(Waiting) + (delegated[d] - y - c)
  BY <1>1, <1>3, <1>4, <1>8, <1>9, <1>10
<1>. QED BY <1>4, <1>5, <1>6, <1>10, <1>11, SettleStep

\* A step that leaves the shares alone: what the accounts gain or lose, the escrow, the
\* locked coins and the burned fees lose or gain.
LEMMA SameShares ==
  ASSUME ContractsInv, CoinTypes', UNCHANGED <<shares, distributed, claimed, settlements, minted>>,
         rate' \in Parts, wanted' \in Parts, now' \in 0..MaxNow,
         unbonding' \in [Delegators -> [Times -> Nat]],
         locked' \in [Voters -> Nat], feesBurned' \in Nat,
         escrow' = total + SumFunction(Waiting)',
         Held' + escrow' + SumFunction(locked)' + feesBurned' =
           Held + escrow + SumFunction(locked) + feesBurned
  PROVE  ContractsInv'
<1>1. ContractTypes'
  <2>1. PoolTypes /\ minted \in Nat
    BY DEF ContractsInv, ContractTypes
  <2>2. /\ rate' \in Parts /\ wanted' \in Parts /\ now' \in 0..MaxNow
        /\ UNCHANGED <<delegated, debt, perShare, distributed, claimed, settlements>>
        /\ unbonding' \in [Delegators -> [Times -> Nat]]
    BY DEF shares
  <2>3. /\ delegated' \in [Delegators -> Nat] /\ debt' \in [Delegators -> Nat]
        /\ perShare' \in Nat /\ distributed' \in Nat /\ claimed' \in Nat /\ settlements' \in Nat
    BY ONLY <2>1, <2>2 DEF PoolTypes
  <2>4. PoolTypes'
    BY ONLY <2>2, <2>3 DEF PoolTypes
  <2>. QED BY <2>1, <2>4 DEF ContractTypes
<1>2. EscrowCovers'
  <2>1. total' = SumFunction(delegated)' /\ escrow' = total' + SumFunction(Waiting)'
    BY ContractSums DEF shares
  <2>. QED BY <2>1 DEF EscrowCovers, Waiting
<1>3. LockedCoinsReturn'
  <2>1. Held' + escrow' + SumFunction(locked)' + feesBurned' = SumFunction(Initial) + minted'
    BY ContractSums
  <2>. QED BY <2>1 DEF LockedCoinsReturn, Held
<1>4. DebtsCovered'
  BY DEF ContractsInv, DebtsCovered, shares
<1>5. GapsCovered'
  <2>1. SumFunction(Gaps)' = SumFunction(Gaps)
    BY DEF Gaps, shares
  <2>. QED BY <2>1 DEF ContractsInv, GapsCovered
<1>. QED BY <1>1, <1>2, <1>3, <1>4, <1>5 DEF ContractsInv

LEMMA WithdrawUnbondedStep ==
  ASSUME ContractsInv, NEW d \in Delegators, WithdrawUnbonded(d), UNCHANGED voteVars
  PROVE  ContractsInv'
<1> DEFINE old == unbonding[d]
           T == {t \in Times : t <= now}
           due == SumFunctionOnSet(old, T)
           u == [t \in Times |-> IF t <= now THEN 0 ELSE old[t]]
<1>1. d \in Accounts /\ old \in [Times -> Nat] /\ IsFiniteSet(Times)
  BY DelegationAssumption, FiniteParts DEF ContractsInv, ContractTypes, PoolTypes
<1>2. /\ Deposit(d, due) /\ unbonding' = [unbonding EXCEPT ![d] = u] /\ escrow' = escrow - due
      /\ UNCHANGED <<rate, wanted, shares, now, history, locked, feesBurned>>
  BY DEF WithdrawUnbonded, pool, voteVars
<1>3. u \in [Times -> Nat]
  BY <1>1
<1>4. /\ T \in SUBSET Times
      /\ \A t \in T : u[t] = 0
      /\ \A t \in Times \ T : u[t] = old[t]
      /\ \A t \in Times : u[t] \in Int /\ old[t] \in Int
  BY <1>1
<1> HIDE DEF old, u, T
<1>a. T \in SUBSET Times /\ IsFiniteSet(Times) /\ \A t \in Times : old[t] \in Int
  BY <1>1, <1>4
<1>b. T \in SUBSET Times /\ IsFiniteSet(Times) /\ \A t \in Times : u[t] \in Int
  BY <1>1, <1>4
<1>c. IsFiniteSet(T) /\ IsFiniteSet(Times \ T)
  BY <1>a, FS_Subset
<1>d. SumFunctionOnSet(old, T) \in Int /\ SumFunctionOnSet(old, Times \ T) \in Int
  BY <1>a, <1>c, SumType
<1>e. SumFunctionOnSet(old, Times) = SumFunctionOnSet(old, T) + SumFunctionOnSet(old, Times \ T)
  BY ONLY <1>a, SumSubset
<1>5. /\ IsFiniteSet(T) /\ IsFiniteSet(Times \ T)
      /\ SumFunctionOnSet(old, T) \in Int /\ SumFunctionOnSet(old, Times \ T) \in Int
      /\ SumFunctionOnSet(old, Times) = SumFunctionOnSet(old, T) + SumFunctionOnSet(old, Times \ T)
  BY <1>c, <1>d, <1>e
<1>6. SumFunctionOnSet(u, Times) = SumFunctionOnSet(u, T) + SumFunctionOnSet(u, Times \ T)
  BY ONLY <1>b, SumSubset
<1>7. SumFunctionOnSet(u, Times \ T) = SumFunctionOnSet(old, Times \ T)
  BY <1>4, <1>5, SumSame
<1>8. SumFunctionOnSet(u, T) = 0
  <2> DEFINE z == [t \in T |-> 0]
  <2>1. SumFunctionOnSet(u, T) = SumFunctionOnSet(z, T)
    BY <1>4, <1>5, SumSame
  <2>2. SumFunction(z) = 0
    BY <1>5, FunctionSumZero
  <2>3. z \in [T -> Nat]
    OBVIOUS
  <2>4. SumFunction(z) = SumFunctionOnSet(z, T)
    BY <1>5, <2>3, FunctionSum
  <2>. QED BY <2>1, <2>2, <2>4
<1>9. /\ SumFunction(old) = SumFunctionOnSet(old, Times)
      /\ SumFunction(u) = SumFunctionOnSet(u, Times) /\ SumFunction(u) \in Nat
  BY <1>1, <1>3, FunctionSum
<1>10. due \in Nat
  BY <1>1, <1>4, <1>5, SumNat
<1>11. /\ unbonding' \in [Delegators -> [Times -> Nat]]
       /\ SumFunction(old) \in Nat
       /\ SumFunction(Waiting)' = SumFunction(Waiting) - SumFunction(old) + SumFunction(u)
  BY <1>2, <1>3, WaitingChanged DEF old
<1>12. CoinTypes' /\ Held \in Nat /\ Held' = Held + due
  BY <1>1, <1>2, <1>10, DepositHeld DEF ContractsInv, ContractTypes
<1>13. SumFunction(Waiting)' = SumFunction(Waiting) - due
  BY <1>5, <1>6, <1>7, <1>8, <1>9, <1>11, ContractSums
<1> HIDE DEF due
<1>14. escrow' = total + SumFunction(Waiting)'
  BY <1>2, <1>10, <1>13, ContractSums
<1>15. /\ rate' \in Parts /\ wanted' \in Parts /\ now' \in 0..MaxNow
       /\ locked' \in [Voters -> Nat] /\ feesBurned' \in Nat
       /\ UNCHANGED <<shares, distributed, claimed, settlements, minted>>
  <2>1. /\ rate \in Parts /\ wanted \in Parts /\ now \in 0..MaxNow
        /\ locked \in [Voters -> Nat] /\ feesBurned \in Nat
    BY DEF ContractsInv, ContractTypes, PoolTypes
  <2>2. UNCHANGED <<rate, wanted, now, locked, feesBurned, shares, distributed, claimed,
                    settlements, minted>>
    BY ONLY <1>2, WithdrawUnbonded(d), UNCHANGED voteVars DEF WithdrawUnbonded, history
  <2>. QED BY ONLY <2>1, <2>2
<1>16. Held' + escrow' + SumFunction(locked)' + feesBurned' =
         Held + escrow + SumFunction(locked) + feesBurned
  BY <1>2, <1>10, <1>12, <1>15, ContractSums
<1>. QED BY <1>11, <1>12, <1>14, <1>15, <1>16, SameShares

\* A part of x that is no more than the whole, rounded down, is no more than x.
LEMMA QuotientOfPart ==
  ASSUME NEW x \in Nat, NEW r \in Nat, NEW k \in Nat, r <= k, k > 0
  PROVE  (x * r) \div k \in Nat /\ (x * r) \div k <= x
<1> DEFINE q == (x * r) \div k
<1>1. x * r \in Nat /\ x * r <= x * k
  OBVIOUS
<1>2. q \in Nat /\ k * q <= x * r
  BY <1>1, QuotientFacts
<1> HIDE DEF q
<1>3. k * q <= k * x
  <2> DEFINE p == x * r
             w == x * k
  <2>1. p \in Nat /\ w \in Nat /\ p <= w /\ k * q <= p /\ w = k * x
    BY <1>1, <1>2
  <2> HIDE DEF p, w
  <2>. QED BY <1>2, <2>1
<1>4. q <= x
  BY <1>2, <1>3
<1>. QED BY <1>2, <1>4 DEF q

LEMMA CommissionFacts ==
  ASSUME NEW x \in Nat, rate \in Parts
  PROVE  Commission(x) \in Nat /\ Commission(x) <= x
<1> DEFINE k == 10000
<1>1. rate \in Nat /\ rate <= k /\ k \in Nat /\ k > 0
  BY DEF Parts
<1>2. Commission(x) = (x * rate) \div k
  BY DEF Commission
<1> HIDE DEF k
<1>. QED BY <1>1, <1>2, QuotientOfPart

LEMMA DistributeStep ==
  ASSUME ContractsInv, NEW x \in Rewards, Distribute(x), UNCHANGED voteVars
  PROVE  ContractsInv'
<1> DEFINE commission == Commission(x)
           part == ((x - commission) * Scale) \div total
<1>1. /\ x \in Nat /\ rate \in Parts /\ total \in Nat /\ total > 0 /\ perShare \in Nat
      /\ Validator \in Accounts /\ Scale \in Nat
  <2>1. x \in Nat /\ Validator \in Accounts
    BY DelegationAssumption
  <2>2. rate \in Parts /\ perShare \in Nat
    BY DEF ContractsInv, ContractTypes, PoolTypes
  <2>3. total \in Nat /\ total > 0
    BY ContractSums DEF Distribute
  <2>. QED BY <2>1, <2>2, <2>3, FiniteParts
<1>2. commission \in Nat /\ x - commission \in Nat
  <2>1. commission \in Nat /\ commission <= x
    BY <1>1, CommissionFacts
  <2> HIDE DEF commission
  <2>. QED BY <1>1, <2>1
<1>3. PICK paid \in {0, commission} :
        /\ UNCHANGED stores /\ minted' = minted + paid
        /\ balance' = [balance EXCEPT ![Validator] = @ + paid]
  <2>1. \E paid \in {0, commission} :
          /\ balance' = [balance EXCEPT ![Validator] = @ + paid] /\ minted' = minted + paid
    BY Zenon DEF Distribute
  <2>2. UNCHANGED stores
    BY DEF Distribute
  <2> HIDE DEF commission
  <2>. QED BY <2>1, <2>2
<1>4. /\ perShare' = perShare + part /\ distributed' = distributed + x - commission
      /\ UNCHANGED <<rate, wanted, now, delegated, debt, total, unbonding, escrow,
                     claimed, settlements, locked, feesBurned>>
  BY DEF Distribute, pool, voteVars
<1> HIDE DEF commission
<1>5. part \in Nat /\ total * part <= (x - commission) * Scale
  <2>1. (x - commission) * Scale \in Nat /\ total \in Nat \ {0}
    BY <1>1, <1>2
  <2>. QED BY <2>1, QuotientFacts
<1> HIDE DEF part
<1>6. ContractTypes /\ DebtsCovered /\ GapsCovered
  BY DEF ContractsInv
<1>7. CoinTypes' /\ Held \in Nat /\ Held' = Held + paid
  <2> DEFINE y == balance[Validator] + paid
  <2>1. balance[Validator] \in Nat /\ paid \in Nat /\ y \in Nat
    BY <1>1, <1>2, <1>6 DEF ContractTypes, CoinTypes
  <2>2. balance' = [balance EXCEPT ![Validator] = y]
    BY <1>3
  <2>3. y = balance[Validator] + paid
    OBVIOUS
  <2> HIDE DEF y
  <2>4. CoinTypes /\ Validator \in Accounts /\ y \in Nat /\ UNCHANGED stores
    BY <1>1, <1>3, <1>6, <2>1 DEF ContractTypes
  <2>5. CoinTypes' /\ Held \in Nat /\ Held' = Held - balance[Validator] + y
    BY ONLY <2>2, <2>4, HeldChanged
  <2>. QED BY <2>1, <2>3, <2>5
<1>8. ContractTypes'
  <2>1. PoolTypes /\ minted \in Nat /\ paid \in Nat
    BY <1>2, <1>6 DEF ContractTypes
  <2>2. perShare' \in Nat /\ distributed' \in Nat /\ minted' \in Nat
    BY <1>2, <1>3, <1>4, <1>5, <2>1 DEF PoolTypes
  <2>3. PoolTypes'
    BY ONLY <1>4, <2>1, <2>2 DEF PoolTypes
  <2>. QED BY <1>4, <1>6, <1>7, <2>2, <2>3 DEF ContractTypes
<1>9. EscrowCovers'
  BY <1>4 DEF ContractsInv, EscrowCovers
<1>10. LockedCoinsReturn'
  <2>1. minted \in Nat /\ feesBurned \in Nat /\ paid \in Nat
    BY <1>2, <1>6 DEF ContractTypes
  <2>2. Held' + escrow' + SumFunction(locked)' + feesBurned' = SumFunction(Initial) + minted'
    BY <1>3, <1>4, <1>7, <2>1, ContractSums
  <2>. QED BY <2>2 DEF LockedCoinsReturn, Held
<1>11. ASSUME NEW d \in Delegators
       PROVE  /\ delegated[d] * perShare' = delegated[d] * perShare + part * delegated[d]
              /\ part * delegated[d] \in Nat
              /\ Gaps[d] = delegated[d] * perShare - debt[d] * Scale
              /\ Gaps'[d] = delegated[d] * perShare' - debt[d] * Scale
              /\ debt[d] * Scale \in Nat /\ delegated[d] * perShare \in Nat
  <2>1. delegated[d] \in Nat /\ debt[d] \in Nat
    BY <1>6 DEF ContractTypes, PoolTypes
  <2>2. delegated[d] * perShare' = delegated[d] * perShare + part * delegated[d]
    BY <1>1, <1>4, <1>5, <2>1
  <2>. QED BY <1>1, <1>4, <1>5, <2>1, <2>2 DEF Gaps
<1>12. DebtsCovered'
  <2>1. SUFFICES ASSUME NEW d \in Delegators PROVE debt[d] * Scale <= delegated[d] * perShare'
    BY <1>4 DEF DebtsCovered
  <2>2. debt[d] * Scale <= delegated[d] * perShare
    BY <1>6 DEF DebtsCovered
  <2>. QED BY <1>11, <2>2
<1>13. GapsCovered'
  <2>1. \A d \in Delegators : Gaps'[d] = Gaps[d] + part * delegated[d]
    BY <1>11
  <2>2. Gaps \in [Delegators -> Nat] /\ delegated \in [Delegators -> Nat]
    BY <1>6, GapFacts DEF ContractTypes, PoolTypes
  <2>3. Gaps' \in [Delegators -> Nat]
    <3>1. Gaps' = [d \in Delegators |-> delegated'[d] * perShare' - debt'[d] * Scale]
      BY DEF Gaps
    <3>2. ASSUME NEW d \in Delegators PROVE Gaps'[d] \in Nat
      BY <1>5, <1>11, <2>1, <2>2
    <3>. QED BY <3>1, <3>2
  <2>4. IsFiniteSet(Delegators)
    BY FiniteParts
  <2>5. SumFunction(Gaps') = SumFunction(Gaps) + part * SumFunction(delegated)
    BY ONLY <1>5, <2>1, <2>2, <2>3, <2>4, FunctionSumCombined
  <2>6. part * SumFunction(delegated) = total * part /\ SumFunction(Gaps) \in Nat
    BY <1>5, ContractSums
  <2>7. SumFunction(Gaps)' + Scale * 0 <= SumFunction(Gaps) + Scale * (x - commission)
    BY <1>1, <1>2, <1>5, <2>5, <2>6
  <2>8. claimed \in Nat /\ distributed \in Nat /\ settlements \in Nat
    BY <1>6 DEF ContractTypes, PoolTypes
  <2>9. Scale * claimed + SumFunction(Gaps) <= Scale * (settlements + distributed)
    BY <1>6, <2>8 DEF GapsCovered
  <2>10. SumFunction(Gaps') \in Nat
    BY <2>3, <2>4, FunctionSum
  <2> DEFINE r == 0
             k == x - commission
  <2>11. r \in Nat /\ k \in Nat /\ SumFunction(Gaps)' + Scale * r <= SumFunction(Gaps) + Scale * k
    BY <1>2, <2>7
  <2>12. k = x - commission /\ r = 0
    OBVIOUS
  <2> HIDE DEF r, k
  <2>13. Scale * (claimed + r) + SumFunction(Gaps)' <= Scale * (settlements + (distributed + k))
    BY <2>6, <2>8, <2>9, <2>10, <2>11, GapsKept
  <2>14. claimed' = claimed + r /\ distributed' + settlements' = settlements + (distributed + k)
    BY <1>1, <1>2, <1>4, <2>8, <2>12
  <2>. QED BY <2>13, <2>14 DEF GapsCovered
<1>. QED BY <1>8, <1>9, <1>10, <1>12, <1>13 DEF ContractsInv

\* A step of the votes, or of the ledger alone, leaves the pool as it is.
LEMMA SamePool ==
  ASSUME ContractsInv, CoinTypes', UNCHANGED delegationVars,
         locked' \in [Voters -> Nat], feesBurned' \in Nat,
         Held' + SumFunction(locked)' + feesBurned' = Held + SumFunction(locked) + feesBurned,
         SumFunction(locked)' \in Nat, Held' \in Nat
  PROVE  ContractsInv'
<1>1. /\ UNCHANGED <<shares, distributed, claimed, settlements, minted, escrow>>
      /\ rate' \in Parts /\ wanted' \in Parts /\ now' \in 0..MaxNow
      /\ unbonding' \in [Delegators -> [Times -> Nat]] /\ unbonding' = unbonding
  BY DEF ContractsInv, ContractTypes, PoolTypes, delegationVars, pool, history
<1>2. SumFunction(Waiting)' = SumFunction(Waiting)
  BY <1>1 DEF Waiting
<1>3. escrow' = total + SumFunction(Waiting)'
  BY <1>1, <1>2, ContractSums
<1>4. feesBurned \in Nat /\ escrow' = escrow
  BY <1>1 DEF ContractsInv, ContractTypes
<1>5. Held \in Nat /\ escrow \in Nat /\ SumFunction(locked) \in Nat
  BY ContractSums
<1>6. Held' + escrow' + SumFunction(locked)' + feesBurned' =
        Held + escrow + SumFunction(locked) + feesBurned
  BY <1>4, <1>5
<1>. QED BY <1>1, <1>3, <1>6, SameShares

LEMMA HeldTypeNext == ASSUME CoinTypes' PROVE Held' \in Nat
<1>1. balance' \in [Accounts -> Nat]
  BY DEF CoinTypes
<1>. QED BY <1>1, FiniteParts, FunctionSum DEF Held

\* The locked amount of one voter changes.
LEMMA LockedChanged ==
  ASSUME ContractsInv, NEW v \in Voters, NEW y \in Nat, locked' = [locked EXCEPT ![v] = y]
  PROVE  /\ locked' \in [Voters -> Nat] /\ SumFunction(locked)' \in Nat
         /\ locked[v] \in Nat
         /\ SumFunction(locked)' = SumFunction(locked) - locked[v] + y
<1>1. locked \in [Voters -> Nat]
  BY DEF ContractsInv, ContractTypes
<1>2. /\ locked' \in [Voters -> Nat] /\ locked'[v] = y
      /\ \A w \in Voters : w # v => locked'[w] = locked[w]
  BY <1>1
<1>3. v \in Voters /\ IsFiniteSet(Voters)
  BY FiniteParts
<1>4. SumFunction(locked') = SumFunction(locked) - locked[v] + locked'[v]
  BY ONLY <1>1, <1>2, <1>3, FunctionSumChanged
<1>5. SumFunction(locked') \in Nat
  BY <1>2, <1>3, FunctionSum
<1>. QED BY <1>1, <1>2, <1>4, <1>5

LEMMA LockVoteStep ==
  ASSUME ContractsInv, NEW v \in Voters, NEW p \in Ids, NEW agree \in BOOLEAN,
         Vote(v, p, agree), UNCHANGED delegationVars
  PROVE  ContractsInv'
<1> DEFINE weight == balance[v]
           y == locked[v] + weight
<1>1. v \in Accounts
  BY VoteEscrowAssumption
<1>2. weight \in Nat /\ locked[v] \in Nat /\ y \in Nat /\ CoinTypes /\ feesBurned \in Nat
  BY <1>1 DEF ContractsInv, ContractTypes, CoinTypes
<1>3. Withdraw(v, weight) /\ locked' = [locked EXCEPT ![v] = y] /\ feesBurned' = feesBurned
  BY DEF Vote
<1>4. y = locked[v] + weight
  OBVIOUS
<1> HIDE DEF y, weight
<1>5. CoinTypes' /\ Held \in Nat /\ Held' = Held - weight
  BY <1>1, <1>2, <1>3, WithdrawHeld
<1>6. /\ locked' \in [Voters -> Nat] /\ SumFunction(locked)' \in Nat
      /\ SumFunction(locked)' = SumFunction(locked) - locked[v] + y
  BY <1>2, <1>3, LockedChanged
<1>7. Held' + SumFunction(locked)' + feesBurned' = Held + SumFunction(locked) + feesBurned
  BY <1>2, <1>3, <1>4, <1>5, <1>6, ContractSums
<1>8. Held' \in Nat
  BY <1>5, HeldTypeNext
<1>. QED BY <1>2, <1>3, <1>5, <1>6, <1>7, <1>8, SamePool

LEMMA ClaimVoteTokensStep ==
  ASSUME ContractsInv, NEW v \in Voters, ClaimVoteTokens(v), UNCHANGED delegationVars
  PROVE  ContractsInv'
<1> DEFINE y == 0
<1>1. v \in Accounts
  BY VoteEscrowAssumption
<1>2. locked[v] \in Nat /\ y \in Nat /\ CoinTypes /\ feesBurned \in Nat
  BY DEF ContractsInv, ContractTypes
<1>3. Deposit(v, locked[v]) /\ locked' = [locked EXCEPT ![v] = y] /\ feesBurned' = feesBurned
  BY DEF ClaimVoteTokens
<1>4. y = 0
  OBVIOUS
<1> HIDE DEF y
<1>5. CoinTypes' /\ Held \in Nat /\ Held' = Held + locked[v]
  BY <1>1, <1>2, <1>3, DepositHeld
<1>6. /\ locked' \in [Voters -> Nat] /\ SumFunction(locked)' \in Nat
      /\ SumFunction(locked)' = SumFunction(locked) - locked[v] + y
  BY <1>2, <1>3, LockedChanged
<1>7. Held' + SumFunction(locked)' + feesBurned' = Held + SumFunction(locked) + feesBurned
  BY <1>2, <1>3, <1>4, <1>5, <1>6, ContractSums
<1>8. Held' \in Nat
  BY <1>5, HeldTypeNext
<1>. QED BY <1>2, <1>3, <1>5, <1>6, <1>7, <1>8, SamePool

LEMMA CreateProposalStep ==
  ASSUME ContractsInv, NEW v \in Voters, NEW system \in BOOLEAN,
         CreateProposal(v, system), UNCHANGED delegationVars
  PROVE  ContractsInv'
<1>1. v \in Accounts /\ ProposalFee \in Nat
  BY VoteEscrowAssumption
<1>2. CoinTypes /\ feesBurned \in Nat /\ locked \in [Voters -> Nat]
  BY DEF ContractsInv, ContractTypes
<1>3. Withdraw(v, ProposalFee) /\ locked' = locked /\ feesBurned' = feesBurned + ProposalFee
  BY DEF CreateProposal
<1>4. CoinTypes' /\ Held \in Nat /\ Held' = Held - ProposalFee
  BY <1>1, <1>2, <1>3, WithdrawHeld
<1>5. SumFunction(locked)' = SumFunction(locked) /\ SumFunction(locked)' \in Nat
  BY <1>3, ContractSums
<1>6. Held' + SumFunction(locked)' + feesBurned' = Held + SumFunction(locked) + feesBurned
  BY <1>1, <1>2, <1>3, <1>4, <1>5
<1>7. Held' \in Nat /\ locked' \in [Voters -> Nat] /\ feesBurned' \in Nat
  BY <1>1, <1>2, <1>3, <1>4, HeldTypeNext
<1>. QED BY <1>4, <1>5, <1>6, <1>7, SamePool

\* Steps that move no coins to or from the accounts as a whole.
LEMMA LedgerStep ==
  ASSUME ContractsInv, CoinTypes', Held' = Held, UNCHANGED <<delegationVars, locked, feesBurned>>
  PROVE  ContractsInv'
<1>1. feesBurned \in Nat /\ locked \in [Voters -> Nat]
  BY DEF ContractsInv, ContractTypes
<1>2. SumFunction(locked)' = SumFunction(locked) /\ SumFunction(locked)' \in Nat /\ Held' \in Nat
  BY ContractSums
<1>3. Held' + SumFunction(locked)' + feesBurned' = Held + SumFunction(locked) + feesBurned
  BY <1>2
<1>4. UNCHANGED delegationVars
  OBVIOUS
<1>. QED BY <1>1, <1>2, <1>3, <1>4, SamePool

\* Rates stay within the largest commission, and the clock within its bound.
RatesTyped == rate \in Parts /\ wanted \in Parts /\ now \in 0..MaxNow

RatesAction == EnableDelegation \/ UpdateCommission \/ ApplyCommissionChange \/ AdvanceClock

LEMMA RatesKept == ASSUME RatesTyped, RatesAction PROVE RatesTyped'
<1>1. MaxNow \in Nat
  BY DelegationAssumption
<1>2. \A c \in Commissions : c <= MaxCommission => c \in Parts
  <2> DEFINE k == 10000
  <2>1. Commissions \subseteq Nat /\ MaxCommission \in 0..k
    BY DelegationAssumption
  <2>2. Parts = 0..k /\ k \in Nat
    BY DEF Parts
  <2> HIDE DEF k
  <2>. QED BY ONLY <2>1, <2>2
<1>3. CASE EnableDelegation
  <2>1. PICK c \in Commissions : c <= MaxCommission /\ rate' = c /\ wanted' = c
    BY <1>3 DEF EnableDelegation
  <2>2. c \in Parts /\ now' = now
    BY <1>2, <1>3, <2>1 DEF EnableDelegation
  <2>. QED BY <2>1, <2>2 DEF RatesTyped
<1>4. CASE UpdateCommission
  <2>1. PICK c \in Commissions : c <= MaxCommission /\ wanted' = c
    BY <1>4 DEF UpdateCommission
  <2>2. c \in Parts /\ now' = now /\ rate' = rate
    BY <1>2, <1>4, <2>1 DEF UpdateCommission
  <2>. QED BY <2>1, <2>2 DEF RatesTyped
<1>5. CASE ApplyCommissionChange
  BY <1>5 DEF ApplyCommissionChange, RatesTyped
<1>6. CASE AdvanceClock
  BY <1>1, <1>6 DEF AdvanceClock, pool, RatesTyped
<1>. QED BY <1>3, <1>4, <1>5, <1>6 DEF RatesAction

LEMMA RatesStep ==
  ASSUME ContractsInv, UNCHANGED voteVars, RatesAction
  PROVE  ContractsInv'
<1>1. /\ UNCHANGED <<coinVars, shares, unbonding, escrow, history, locked, feesBurned>>
  BY DEF EnableDelegation, UpdateCommission, ApplyCommissionChange, AdvanceClock, voteVars, RatesAction
<1>2. /\ rate \in Parts /\ wanted \in Parts /\ now \in 0..MaxNow
      /\ CoinTypes /\ locked \in [Voters -> Nat] /\ feesBurned \in Nat
      /\ unbonding \in [Delegators -> [Times -> Nat]]
  BY DEF ContractsInv, ContractTypes, PoolTypes
<1>4. rate' \in Parts /\ wanted' \in Parts /\ now' \in 0..MaxNow
  <2>1. RatesTyped
    BY <1>2 DEF RatesTyped
  <2>2. RatesTyped'
    BY <2>1, RatesKept
  <2>. QED BY <2>2 DEF RatesTyped
<1>5. CoinTypes' /\ Held' = Held
  BY <1>1, <1>2 DEF CoinTypes, coinVars, Held
<1>6. SumFunction(Waiting)' = SumFunction(Waiting) /\ SumFunction(locked)' = SumFunction(locked)
  BY <1>1 DEF Waiting
<1>7. escrow' = total + SumFunction(Waiting)'
  BY <1>1, <1>6, ContractSums
<1>8. Held' + escrow' + SumFunction(locked)' + feesBurned' =
        Held + escrow + SumFunction(locked) + feesBurned
  BY <1>1, <1>5, <1>6
<1>9. /\ unbonding' \in [Delegators -> [Times -> Nat]]
      /\ locked' \in [Voters -> Nat] /\ feesBurned' \in Nat
      /\ UNCHANGED <<shares, distributed, claimed, settlements, minted>>
  BY <1>1, <1>2 DEF history
<1>. QED BY <1>4, <1>5, <1>7, <1>8, <1>9, SameShares

LEMMA InitContracts == ContractsInit => ContractsInv
<1> SUFFICES ASSUME ContractsInit PROVE ContractsInv
  OBVIOUS
<1> USE DEF ContractsInit, DelegationInit, VoteInit
<1>1. Initial \in [Accounts -> Nat] /\ MaxNow \in Nat /\ 0 \in 0..MaxNow
  BY ContractsAssumption, FiniteParts
<1>2. ContractTypes
  <2>1. 0 \in Parts
    BY DEF Parts
  <2>2. CoinTypes /\ minted \in Nat /\ locked \in [Voters -> Nat] /\ feesBurned \in Nat
    BY <1>1 DEF CoinTypes
  <2>3. PoolTypes
    BY <1>1, <2>1 DEF PoolTypes
  <2>. QED BY <2>2, <2>3 DEF ContractTypes
<1>3. SumFunction(delegated) = 0 /\ SumFunction(locked) = 0
  BY FiniteParts, FunctionSumZero
<1>4. SumFunction(Waiting) = 0
  <2>1. SumFunction([t \in Times |-> 0]) = 0
    BY FiniteParts, FunctionSumZero
  <2>2. Waiting = [d \in Delegators |-> 0]
    BY <2>1 DEF Waiting
  <2>. QED BY <2>2, FiniteParts, FunctionSumZero
<1>5. EscrowCovers
  BY <1>3, <1>4 DEF EscrowCovers, Waiting
<1>6. LockedCoinsReturn
  <2>1. SumFunction(Initial) \in Nat
    BY <1>1, FiniteParts, FunctionSum
  <2>. QED BY <1>3, <2>1 DEF LockedCoinsReturn
<1>7. \A d \in Delegators : delegated[d] * perShare = 0 /\ debt[d] * Scale = 0
  BY FiniteParts
<1>8. DebtsCovered
  BY <1>7 DEF DebtsCovered
<1>9. GapsCovered
  <2>1. Gaps = [d \in Delegators |-> 0]
    BY <1>7 DEF Gaps
  <2>2. SumFunction(Gaps) = 0
    BY <2>1, FiniteParts, FunctionSumZero
  <2>. QED BY <2>2, FiniteParts DEF GapsCovered
<1>. QED BY <1>2, <1>5, <1>6, <1>8, <1>9 DEF ContractsInv

LEMMA NextContracts == ContractsInv /\ [ContractsNext]_contractVars => ContractsInv'
<1> SUFFICES ASSUME ContractsInv, [ContractsNext]_contractVars PROVE ContractsInv'
  OBVIOUS
<1>1. CASE UNCHANGED contractVars
  <2>1. CoinTypes' /\ Held' = Held /\ UNCHANGED <<delegationVars, locked, feesBurned>>
    BY <1>1 DEF ContractsInv, ContractTypes, CoinTypes, Held, contractVars, coinVars, voteVars
  <2>. QED BY <2>1, LedgerStep
<1>2. CASE \E from, to \in Accounts, x \in Gifts : Give(from, to, x)
  <2>1. PICK from \in Accounts, to \in Accounts, x \in Gifts : Give(from, to, x)
    BY <1>2
  <2>2. x \in Nat /\ CoinTypes
    BY ContractsAssumption DEF ContractsInv, ContractTypes
  <2>3. CoinTypes' /\ Held' = Held
    BY <2>1, <2>2, MoveHeld DEF Give
  <2>4. UNCHANGED <<delegationVars, locked, feesBurned>>
    BY <2>1 DEF Give, voteVars
  <2>. QED BY <2>3, <2>4, LedgerStep
<1>3. CASE DelegationNext /\ UNCHANGED voteVars
  <2>1. CASE RatesAction
    BY <1>3, <2>1, RatesStep
  <2>2. ASSUME NEW d \in Delegators, ClaimRewards(d) PROVE ContractsInv'
    BY <1>3, <2>2, ClaimStep
  <2>3. ASSUME NEW d \in Delegators, WithdrawUnbonded(d) PROVE ContractsInv'
    BY <1>3, <2>3, WithdrawUnbondedStep
  <2>4. ASSUME NEW d \in Delegators, NEW x \in Amounts, Delegate(d, x) PROVE ContractsInv'
    BY <1>3, <2>4, DelegateStep
  <2>5. ASSUME NEW d \in Delegators, NEW x \in Amounts, Undelegate(d, x) PROVE ContractsInv'
    BY <1>3, <2>5, UndelegateStep
  <2>6. ASSUME NEW x \in Rewards, Distribute(x) PROVE ContractsInv'
    BY <1>3, <2>6, DistributeStep
  <2>. QED BY <1>3, <2>1, <2>2, <2>3, <2>4, <2>5, <2>6 DEF DelegationNext, RatesAction
<1>4. CASE VoteNext /\ UNCHANGED delegationVars
  <2>1. ASSUME NEW v \in Voters, NEW b \in BOOLEAN, CreateProposal(v, b) PROVE ContractsInv'
    BY <1>4, <2>1, CreateProposalStep
  <2>2. ASSUME NEW v \in Voters, NEW p \in Ids, NEW agree \in BOOLEAN, Vote(v, p, agree)
        PROVE  ContractsInv'
    BY <1>4, <2>2, LockVoteStep
  <2>3. ASSUME NEW v \in Voters, ClaimVoteTokens(v) PROVE ContractsInv'
    BY <1>4, <2>3, ClaimVoteTokensStep
  <2>4. ASSUME NEW p \in Ids, ExecuteProposal(p) PROVE ContractsInv'
    <3>1. CoinTypes' /\ Held' = Held /\ UNCHANGED <<delegationVars, locked, feesBurned>>
      BY <1>4, <2>4
         DEF ContractsInv, ContractTypes, CoinTypes, Held, ExecuteProposal, coinVars
    <3>. QED BY <3>1, LedgerStep
  <2>. QED BY <1>4, <2>1, <2>2, <2>3, <2>4 DEF VoteNext
<1>. QED BY <1>1, <1>2, <1>3, <1>4 DEF ContractsNext

\* What is still pending is covered by the gaps.
LEMMA PendingCovered == ContractsInv => RewardsWithinRounding
<1> SUFFICES ASSUME ContractsInv PROVE RewardsWithinRounding
  OBVIOUS
<1> DEFINE due == [d \in Delegators |-> Pending(d)]
           zero == [d \in Delegators |-> 0]
           scaled == [d \in Delegators |-> Scale * Pending(d)]
<1>1. /\ Gaps \in [Delegators -> Nat]
      /\ \A d \in Delegators : Pending(d) \in Nat /\ Scale * Pending(d) <= Gaps[d]
  BY GapFacts DEF ContractsInv, ContractTypes
<1>2. Scale \in Nat \ {0} /\ Scale \in Nat /\ IsFiniteSet(Delegators)
  BY FiniteParts
<1>3. due \in [Delegators -> Nat] /\ zero \in [Delegators -> Nat] /\ scaled \in [Delegators -> Nat]
  BY <1>1, <1>2
<1>4. \A d \in Delegators : scaled[d] = zero[d] + Scale * due[d] /\ scaled[d] <= Gaps[d]
  BY <1>1, <1>2
<1>5. SumFunction(zero) = 0
  BY <1>2, FunctionSumZero
<1> HIDE DEF due, zero, scaled
<1>6. SumFunction(scaled) = SumFunction(zero) + Scale * SumFunction(due)
  BY ONLY <1>2, <1>3, <1>4, FunctionSumCombined
<1>7. SumFunction(scaled) <= SumFunction(Gaps)
  BY ONLY <1>1, <1>2, <1>3, <1>4, FunctionSumBounded
<1>8. SumFunction(due) \in Nat /\ SumFunction(Gaps) \in Nat
  BY ONLY <1>1, <1>2, <1>3, FunctionSum
<1>9. claimed \in Nat /\ distributed \in Nat /\ settlements \in Nat
  BY DEF ContractsInv, ContractTypes, PoolTypes
<1>10. Scale * claimed + SumFunction(Gaps) <= Scale * (distributed + settlements)
  BY DEF ContractsInv, GapsCovered
<1>11. /\ Scale * (claimed + SumFunction(due)) = Scale * claimed + Scale * SumFunction(due)
       /\ Scale * claimed \in Nat /\ Scale * SumFunction(due) \in Nat
       /\ Scale * (distributed + settlements) \in Nat
  BY <1>2, <1>8, <1>9
<1>12. Scale * (claimed + SumFunction(due)) <= Scale * (distributed + settlements)
  BY <1>5, <1>6, <1>7, <1>8, <1>10, <1>11
<1>13. claimed + SumFunction(due) \in Nat /\ distributed + settlements \in Nat
  BY <1>8, <1>9
<1>14. claimed + SumFunction(due) <= distributed + settlements
  BY <1>2, <1>12, <1>13, DivideBoth
<1>. QED BY <1>14 DEF RewardsWithinRounding, due

LEMMA ContractsInvariant == ContractsSpec => []ContractsInv
<1>. QED BY InitContracts, NextContracts, PTL DEF ContractsSpec

-----------------------------------------------------------------------------
(* Proposals and votes in the database of a node, which may end after any    *)
(* put.                                                                      *)
(*                                                                           *)
(* That no name counts twice needs what a call has still to save to be right  *)
(* (SavesCounted): the receipt is put before the proposal, so that a voter   *)
(* without a receipt counts for nothing, in whatever database the call finds.*)


\* An action that changes what is counted for nobody keeps the invariant.
LEMMA FrameStep ==
  ASSUME GovInv, UNCHANGED <<disk, durable, call, cast>>,
         coins' \in [Holders -> Nat], clock' \in Nat, created' \in Nat, crashes' \in Nat
  PROVE  GovInv'
BY DEF GovInv, GovTypeOK, BallotsCountedOnce, CountedOnce, SavesCounted

\* A put of a database in which everything is counted once.
LEMMA PutStep ==
  ASSUME GovInv, NEW d, d \in Database, Put(d), UNCHANGED <<coins, clock>>,
         created' \in Nat, crashes' \in Nat,
         call' = NoCall \/ call' \in [kind : {"save"}, id : Proposals, proposal : Proposal],
         cast' \in [Proposals -> [Names -> SUBSET Nat]],
         \A p \in Proposals, v \in Names : cast[p][v] \subseteq cast'[p][v],
         \A p \in Proposals : Counts(d.proposals[p], d.receipts[p], cast'[p]),
         call' # NoCall => Counts(call'.proposal, d.receipts[call'.id], cast'[call'.id])
  PROVE  GovInv'
<1>1. disk' = d /\ (durable' = durable \/ durable' = d)
  BY DEF Put
<1>2. GovTypeOK'
  BY <1>1 DEF GovInv, GovTypeOK
<1>3. CountedOnce(disk)'
  BY <1>1 DEF CountedOnce
<1>4. CountedOnce(durable)'
  <2>1. CASE durable' = d
    BY <2>1 DEF CountedOnce
  <2>2. CASE durable' = durable
    <3>1. SUFFICES ASSUME NEW p \in Proposals
                   PROVE  Counts(durable.proposals[p], durable.receipts[p], cast'[p])
      BY <2>2 DEF CountedOnce
    <3>2. Counts(durable.proposals[p], durable.receipts[p], cast[p])
      BY DEF GovInv, BallotsCountedOnce, CountedOnce
    <3>. QED BY <3>2 DEF Counts
  <2>. QED BY <1>1, <2>1, <2>2
<1>5. SavesCounted'
  BY <1>1 DEF SavesCounted
<1>. QED BY <1>2, <1>3, <1>4, <1>5 DEF GovInv, BallotsCountedOnce

\* Replacing one proposal of the database by one that is counted rightly.
LEMMA ReplaceProposal ==
  ASSUME GovInv, NEW q \in Proposals, NEW pr \in Proposal,
         Counts(pr, disk.receipts[q], cast[q])
  PROVE  LET d == [disk EXCEPT !.proposals[q] = pr] IN
         /\ d \in Database
         /\ \A p \in Proposals : Counts(d.proposals[p], d.receipts[p], cast[p])
<1> DEFINE d == [disk EXCEPT !.proposals[q] = pr]
<1>1. disk \in Database
  BY DEF GovInv, GovTypeOK
<1>2. d \in Database
  BY <1>1 DEF Database
<1>3. /\ d.receipts = disk.receipts
      /\ \A p \in Proposals : d.proposals[p] = IF p = q THEN pr ELSE disk.proposals[p]
  BY <1>1 DEF Database
<1> HIDE DEF d
<1>4. ASSUME NEW p \in Proposals PROVE Counts(d.proposals[p], d.receipts[p], cast[p])
  <2>1. Counts(disk.proposals[p], disk.receipts[p], cast[p])
    BY DEF GovInv, BallotsCountedOnce, CountedOnce
  <2>. QED BY <1>3, <2>1
<1>. QED BY <1>2, <1>4 DEF d

LEMMA NothingCounted ==
  NoVotes \in [Names -> Nat] /\ \A v \in Names : NoVotes[v] = 0
BY DEF NoVotes

LEMMA CreateStep ==
  ASSUME GovInv, NEW p \in Proposals, NEW v \in Names, NEW duration \in Durations,
         NEW acts \in BOOLEAN, create_proposal(p, v, duration, acts)
  PROVE  GovInv'
<1> DEFINE pr == [status |-> "Active", yes |-> NoVotes, no |-> NoVotes,
                  end |-> clock + duration, ready |-> 0, acts |-> acts]
<1>1. /\ clock \in Nat /\ duration \in Nat /\ created \in Nat /\ crashes \in Nat
      /\ cast \in [Proposals -> [Names -> SUBSET Nat]]
  BY GovernanceAssumption DEF GovInv, GovTypeOK
<1>2. pr.yes = NoVotes /\ pr.no = NoVotes
  OBVIOUS
<1>3. pr \in Proposal
  BY <1>1, NothingCounted DEF Proposal
<1> HIDE DEF pr
<1>4. Counts(pr, disk.receipts[p], cast[p])
  BY <1>2, NothingCounted DEF Counts
<1>5. /\ Put([disk EXCEPT !.proposals[p] = pr]) /\ call' = NoCall
      /\ UNCHANGED <<coins, clock, cast>> /\ created' \in Nat /\ crashes' \in Nat
  BY <1>1 DEF create_proposal, pr
<1>6. /\ [disk EXCEPT !.proposals[p] = pr] \in Database
      /\ \A q \in Proposals : Counts([disk EXCEPT !.proposals[p] = pr].proposals[q],
                                     [disk EXCEPT !.proposals[p] = pr].receipts[q], cast[q])
  BY <1>3, <1>4, ReplaceProposal
<1>. QED BY <1>1, <1>5, <1>6, PutStep

\* What the vote of a voter who has none makes of a proposal.
LEMMA FirstVote ==
  ASSUME NEW pr \in Proposal, NEW v \in Names, NEW approve \in BOOLEAN,
         Weight(v) \in Nat, pr.yes[v] = 0, pr.no[v] = 0,
         NEW w, w = WithVote(pr, v, approve)
  PROVE  /\ w \in Proposal
         /\ \A u \in Names : u # v => w.yes[u] = pr.yes[u] /\ w.no[u] = pr.no[u]
         /\ \/ w.yes[v] = Weight(v) /\ w.no[v] = 0
            \/ w.yes[v] = 0 /\ w.no[v] = Weight(v)
<1>1. pr.yes \in [Names -> Nat] /\ pr.no \in [Names -> Nat] /\ Weight(v) \in Nat
  BY DEF Proposal
<1>2. ASSUME NEW f \in [Names -> Nat]
      PROVE  /\ [pr EXCEPT !.yes = f] \in Proposal /\ [pr EXCEPT !.yes = f].yes = f
             /\ [pr EXCEPT !.yes = f].no = pr.no
             /\ [pr EXCEPT !.no = f] \in Proposal /\ [pr EXCEPT !.no = f].no = f
             /\ [pr EXCEPT !.no = f].yes = pr.yes
  BY DEF Proposal
<1>3. CASE approve
  <2> DEFINE f == [pr.yes EXCEPT ![v] = @ + Weight(v)]
  <2>1. w = [pr EXCEPT !.yes = f]
    BY <1>3 DEF WithVote
  <2>2. /\ f \in [Names -> Nat] /\ f[v] = Weight(v)
        /\ \A u \in Names : u # v => f[u] = pr.yes[u]
    BY <1>1
  <2> HIDE DEF f
  <2>3. w \in Proposal /\ w.yes = f /\ w.no = pr.no
    BY ZenonT(20), <1>2, <2>1, <2>2
  <2>. QED BY <2>2, <2>3
<1>4. CASE ~approve
  <2> DEFINE f == [pr.no EXCEPT ![v] = @ + Weight(v)]
  <2>1. w = [pr EXCEPT !.no = f]
    BY <1>4 DEF WithVote
  <2>2. /\ f \in [Names -> Nat] /\ f[v] = Weight(v)
        /\ \A u \in Names : u # v => f[u] = pr.no[u]
    BY <1>1
  <2> HIDE DEF f
  <2>3. w \in Proposal /\ w.no = f /\ w.yes = pr.yes
    BY ZenonT(20), <1>2, <2>1, <2>2
  <2>. QED BY <2>2, <2>3
<1>. QED BY <1>3, <1>4

\* A vote adds the weight of a voter who counts for nothing yet.
LEMMA VoteStep ==
  ASSUME GovInv, NEW p \in Proposals, NEW v \in Names, NEW approve \in BOOLEAN,
         vote(p, v, approve)
  PROVE  GovInv'
<1> DEFINE pr == disk.proposals[p]
           d  == [disk EXCEPT !.receipts[p] = @ \cup {v}]
           c  == [cast EXCEPT ![p][v] = @ \cup {Weight(v)}]
           w  == WithVote(pr, v, approve)
<1>1. /\ disk \in Database /\ coins \in [Holders -> Nat] /\ created \in Nat /\ crashes \in Nat
      /\ cast \in [Proposals -> [Names -> SUBSET Nat]] /\ pr \in Proposal
      /\ Weight(v) \in Nat
  BY GovernanceAssumption DEF GovInv, GovTypeOK, Database, Weight
<1>2. /\ v \notin disk.receipts[p] /\ Put(d) /\ cast' = c
      /\ call' = [kind |-> "save", id |-> p, proposal |-> w]
      /\ UNCHANGED <<coins, clock, created, crashes>>
  BY DEF vote
<1>3. /\ d \in Database /\ d.proposals = disk.proposals
      /\ \A q \in Proposals : d.receipts[q] = IF q = p THEN disk.receipts[p] \cup {v} ELSE disk.receipts[q]
  BY <1>1 DEF Database
<1>4. /\ c \in [Proposals -> [Names -> SUBSET Nat]]
      /\ \A q \in Proposals, u \in Names :
           c[q][u] = IF q = p /\ u = v THEN cast[p][v] \cup {Weight(v)} ELSE cast[q][u]
  BY <1>1
<1>5. \A q \in Proposals : Counts(disk.proposals[q], disk.receipts[q], cast[q])
  BY DEF GovInv, BallotsCountedOnce, CountedOnce
<1>6. pr.yes[v] = 0 /\ pr.no[v] = 0
  <2>1. Counts(pr, disk.receipts[p], cast[p]) /\ pr.yes[v] \in Nat /\ pr.no[v] \in Nat
    BY <1>1, <1>5 DEF Proposal
  <2>2. pr.yes[v] + pr.no[v] = 0
    BY <1>2, <2>1 DEF Counts
  <2>3. \A m, n \in Nat : m + n = 0 => m = 0 /\ n = 0
    BY SMT
  <2>. QED BY <2>1, <2>2, <2>3
<1>7. /\ w \in Proposal
      /\ \A u \in Names : u # v => w.yes[u] = pr.yes[u] /\ w.no[u] = pr.no[u]
      /\ \/ w.yes[v] = Weight(v) /\ w.no[v] = 0
         \/ w.yes[v] = 0 /\ w.no[v] = Weight(v)
  <2>1. w = WithVote(pr, v, approve)
    OBVIOUS
  <2> HIDE DEF pr, w
  <2>. QED BY <1>1, <1>6, <2>1, FirstVote
<1> HIDE DEF d, c, w
<1>8. ASSUME NEW q \in Proposals PROVE Counts(d.proposals[q], d.receipts[q], c[q])
  <2>1. Counts(disk.proposals[q], disk.receipts[q], cast[q])
    BY <1>5
  <2>2. /\ disk.receipts[q] \subseteq d.receipts[q]
        /\ \A u \in Names : cast[q][u] \subseteq c[q][u]
    BY <1>3, <1>4
  <2>. QED BY <1>3, <2>1, <2>2 DEF Counts
<1>9. Counts(w, d.receipts[p], c[p])
  <2>1. SUFFICES ASSUME NEW u \in Names
                 PROVE  /\ w.yes[u] = 0 \/ w.no[u] = 0
                        /\ w.yes[u] + w.no[u] # 0 =>
                             u \in d.receipts[p] /\ w.yes[u] + w.no[u] \in c[p][u]
    BY DEF Counts
  <2>2. CASE u = v
    <3>1. w.yes[v] + w.no[v] = Weight(v) /\ (w.yes[v] = 0 \/ w.no[v] = 0)
      BY <1>1, <1>7
    <3>2. v \in d.receipts[p] /\ Weight(v) \in c[p][v]
      BY <1>3, <1>4
    <3>. QED BY <2>2, <3>1, <3>2
  <2>3. CASE u # v
    <3>1. w.yes[u] = pr.yes[u] /\ w.no[u] = pr.no[u]
      BY <1>7, <2>3
    <3>2. Counts(pr, disk.receipts[p], cast[p])
      BY <1>5
    <3>3. disk.receipts[p] \subseteq d.receipts[p] /\ cast[p][u] = c[p][u]
      BY <1>3, <1>4, <2>3
    <3>. QED BY <3>1, <3>2, <3>3 DEF Counts
  <2>. QED BY <2>2, <2>3
<1>10. /\ call' \in [kind : {"save"}, id : Proposals, proposal : Proposal]
       /\ call'.proposal = w /\ call'.id = p
  BY <1>2, <1>7
<1>11. \A q \in Proposals, u \in Names : cast[q][u] \subseteq c[q][u]
  BY <1>4
<1>. QED BY <1>1, <1>2, <1>3, <1>4, <1>8, <1>9, <1>10, <1>11, PutStep

LEMMA SaveStep == GovInv /\ save_proposal => GovInv'
<1> SUFFICES ASSUME GovInv, save_proposal PROVE GovInv'
  OBVIOUS
<1>1. /\ call.id \in Proposals /\ call.proposal \in Proposal
      /\ Counts(call.proposal, disk.receipts[call.id], cast[call.id])
  BY DEF GovInv, GovTypeOK, SavesCounted, save_proposal
<1>2. /\ [disk EXCEPT !.proposals[call.id] = call.proposal] \in Database
      /\ \A q \in Proposals : Counts([disk EXCEPT !.proposals[call.id] = call.proposal].proposals[q],
                                     [disk EXCEPT !.proposals[call.id] = call.proposal].receipts[q], cast[q])
  BY <1>1, ReplaceProposal
<1>3. /\ Put([disk EXCEPT !.proposals[call.id] = call.proposal]) /\ call' = NoCall
      /\ UNCHANGED <<coins, clock, cast>> /\ created' \in Nat /\ crashes' \in Nat
      /\ cast \in [Proposals -> [Names -> SUBSET Nat]]
  BY DEF save_proposal, GovInv, GovTypeOK
<1>. QED BY <1>2, <1>3, PutStep

LEMMA TallyStep ==
  ASSUME GovInv, NEW p \in Proposals, tally(p)
  PROVE  GovInv'
<1> DEFINE pr == disk.proposals[p]
           won == Total(pr.yes) + Total(pr.no) >= MinimumQuorum /\ Total(pr.yes) > Total(pr.no)
           w == IF won THEN [pr EXCEPT !.status = "Queued", !.ready = clock + TimelockDelay]
                       ELSE [pr EXCEPT !.status = "Rejected"]
<1>1. /\ Put([disk EXCEPT !.proposals[p] = w]) /\ call' = NoCall
      /\ UNCHANGED <<coins, clock, created, crashes, cast>>
  BY DEF tally
<1>2. /\ pr \in Proposal /\ clock \in Nat /\ TimelockDelay \in Nat /\ created \in Nat /\ crashes \in Nat
      /\ cast \in [Proposals -> [Names -> SUBSET Nat]]
      /\ Counts(pr, disk.receipts[p], cast[p])
  BY GovernanceAssumption DEF GovInv, GovTypeOK, Database, BallotsCountedOnce, CountedOnce
<1> HIDE DEF won
<1>3. w \in Proposal /\ w.yes = pr.yes /\ w.no = pr.no
  <2>1. CASE won
    <3>1. w = [pr EXCEPT !.status = "Queued", !.ready = clock + TimelockDelay]
      BY <2>1
    <3> DEFINE q == [pr EXCEPT !.status = "Queued"]
    <3>2. w = [q EXCEPT !.ready = clock + TimelockDelay]
      BY <3>1
    <3>3. clock + TimelockDelay \in Nat
      BY <1>2
    <3> HIDE DEF pr, w
    <3>4. q \in Proposal /\ q.yes = pr.yes /\ q.no = pr.no
      BY <1>2 DEF Proposal
    <3> HIDE DEF q
    <3>. QED BY <3>2, <3>3, <3>4 DEF Proposal
  <2>2. CASE ~won
    <3>1. w = [pr EXCEPT !.status = "Rejected"]
      BY <2>2
    <3> HIDE DEF pr, w
    <3>. QED BY <1>2, <3>1 DEF Proposal
  <2>. QED BY <2>1, <2>2
<1> HIDE DEF w
<1>4. Counts(w, disk.receipts[p], cast[p])
  BY <1>2, <1>3 DEF Counts
<1>5. /\ [disk EXCEPT !.proposals[p] = w] \in Database
      /\ \A q \in Proposals : Counts([disk EXCEPT !.proposals[p] = w].proposals[q],
                                     [disk EXCEPT !.proposals[p] = w].receipts[q], cast[q])
  BY <1>3, <1>4, ReplaceProposal
<1>. QED BY <1>1, <1>2, <1>5, PutStep

LEMMA ExecuteStep ==
  ASSUME GovInv, NEW p \in Proposals, execute_proposal(p)
  PROVE  GovInv'
<1> DEFINE pr == disk.proposals[p]
           w  == [pr EXCEPT !.status = "Executed"]
<1>1. /\ pr \in Proposal /\ disk \in Database /\ created \in Nat /\ crashes \in Nat
      /\ cast \in [Proposals -> [Names -> SUBSET Nat]]
      /\ \A q \in Proposals : Counts(disk.proposals[q], disk.receipts[q], cast[q])
  BY DEF GovInv, GovTypeOK, Database, BallotsCountedOnce, CountedOnce
<1>2. w \in Proposal /\ w.yes = pr.yes /\ w.no = pr.no
  BY <1>1 DEF Proposal
<1>3. /\ call' = [kind |-> "save", id |-> p, proposal |-> w]
      /\ UNCHANGED <<coins, clock, created, crashes, cast>>
      /\ IF pr.acts THEN Put([disk EXCEPT !.key = {p}]) ELSE UNCHANGED <<disk, durable>>
  BY DEF execute_proposal
<1> HIDE DEF w
<1>4. /\ call' \in [kind : {"save"}, id : Proposals, proposal : Proposal]
      /\ call'.proposal = w /\ call'.id = p
  BY <1>2, <1>3
<1>5. Counts(w, disk.receipts[p], cast[p])
  BY <1>1, <1>2 DEF Counts
<1>6. CASE pr.acts
  <2> DEFINE d == [disk EXCEPT !.key = {p}]
  <2>1. d \in Database /\ d.proposals = disk.proposals /\ d.receipts = disk.receipts
    BY <1>1 DEF Database
  <2>2. Put(d)
    BY <1>3, <1>6
  <2> HIDE DEF d
  <2>3. \A q \in Proposals : Counts(d.proposals[q], d.receipts[q], cast[q])
    BY <1>1, <2>1
  <2>. QED BY <1>1, <1>3, <1>4, <1>5, <2>1, <2>2, <2>3, PutStep
<1>7. CASE ~pr.acts
  <2>1. Put(disk)
    BY <1>3, <1>7 DEF Put
  <2>. QED BY <1>1, <1>3, <1>4, <1>5, <2>1, PutStep
<1>. QED BY <1>6, <1>7

LEMMA CrashStep == GovInv /\ Crash => GovInv'
<1> SUFFICES ASSUME GovInv, Crash PROVE GovInv'
  OBVIOUS
<1>1. GovTypeOK'
  BY DEF GovInv, GovTypeOK, Crash
<1>2. BallotsCountedOnce'
  BY DEF GovInv, BallotsCountedOnce, CountedOnce, Crash
<1>3. SavesCounted'
  BY DEF SavesCounted, Crash
<1>. QED BY <1>1, <1>2, <1>3 DEF GovInv

LEMMA TransferStep ==
  ASSUME GovInv, NEW a \in Holders, NEW b \in Holders, Transfer(a, b)
  PROVE  GovInv'
<1>1. coins' \in [Holders -> Nat] /\ clock' \in Nat /\ created' \in Nat /\ crashes' \in Nat
  BY DEF GovInv, GovTypeOK, Transfer
<1>. QED BY <1>1, FrameStep DEF Transfer

LEMMA InitGov == GovInit => GovInv
<1> SUFFICES ASSUME GovInit PROVE GovInv
  OBVIOUS
<1>1. NoProposal \in Proposal
  BY NothingCounted DEF NoProposal, Proposal
<1>2. GovTypeOK
  BY <1>1, GovernanceAssumption DEF GovInit, GovTypeOK, Database
<1>3. \A p \in Proposals : Counts(disk.proposals[p], disk.receipts[p], cast[p])
  BY NothingCounted DEF GovInit, Counts, NoProposal
<1>. QED BY <1>2, <1>3 DEF GovInv, BallotsCountedOnce, CountedOnce, SavesCounted, GovInit

LEMMA NextGov == GovInv /\ [GovNext]_govVars => GovInv'
<1> SUFFICES ASSUME GovInv, [GovNext]_govVars PROVE GovInv'
  OBVIOUS
<1>1. CASE \E p \in Proposals, v \in Names : \E d \in Durations, acts \in BOOLEAN :
             create_proposal(p, v, d, acts)
  BY <1>1, CreateStep
<1>2. CASE \E p \in Proposals, v \in Names : \E approve \in BOOLEAN : vote(p, v, approve)
  BY <1>2, VoteStep
<1>3. CASE save_proposal
  BY <1>3, SaveStep
<1>4. CASE \E p \in Proposals : tally(p)
  BY <1>4, TallyStep
<1>5. CASE \E p \in Proposals : execute_proposal(p)
  BY <1>5, ExecuteStep
<1>6. CASE \E a, b \in Holders : Transfer(a, b)
  BY <1>6, TransferStep
<1>7. CASE Tick
  <2>1. coins' \in [Holders -> Nat] /\ clock' \in Nat /\ created' \in Nat /\ crashes' \in Nat
    BY <1>7 DEF GovInv, GovTypeOK, Tick
  <2>. QED BY <1>7, <2>1, FrameStep DEF Tick
<1>8. CASE Crash
  BY <1>8, CrashStep
<1>9. CASE UNCHANGED govVars
  <2>1. coins' \in [Holders -> Nat] /\ clock' \in Nat /\ created' \in Nat /\ crashes' \in Nat
    BY <1>9 DEF GovInv, GovTypeOK, govVars
  <2>. QED BY <1>9, <2>1, FrameStep DEF govVars
<1>. QED BY <1>1, <1>2, <1>3, <1>4, <1>5, <1>6, <1>7, <1>8, <1>9 DEF GovNext

\* The types of what GovernanceManager keeps.
THEOREM GovTypes == GovSpec => []GovTypeOK
<1>1. GovInv => GovTypeOK
  BY DEF GovInv
<1>. QED BY <1>1, InitGov, NextGov, PTL DEF GovSpec

LEMMA GovInvariant == GovSpec => []GovInv
<1>. QED BY InitGov, NextGov, PTL DEF GovSpec

-----------------------------------------------------------------------------
(* The indexer and the bridge.                                               *)
(*                                                                           *)
(* The indexer does its blocks without a gap, and all below the first of     *)
(* them are done or were missed (TodoFollows).                               *)

InReach == rows \cup missed

TodoFollows ==
  /\ \A i \in 1..Len(todo) : todo[i] = todo[1] + i - 1
  /\ todo # <<>> => \A h \in 1..(todo[1] - 1) : h \in InReach
  /\ inserted => todo # <<>> /\ todo[1] \in InReach

IndexerTypes ==
  /\ height \in Nat /\ last_height \in Nat /\ todo \in Seq(Nat) /\ inserted \in BOOLEAN

IndexerInv == IndexerTypes /\ TodoFollows /\ RecordedIsIndexed

LEMMA IntervalIs ==
  ASSUME NEW a \in Int, NEW b \in Int, NEW S, S \subseteq Int,
         \A h \in Int : h \in S <=> a <= h /\ h <= b
  PROVE  S = a..b
<1>1. \A h : h \in S => h \in a..b
  OBVIOUS
<1>2. \A h : h \in a..b => h \in S
  OBVIOUS
<1>. QED BY <1>1, <1>2, Zenon

\* What a poll finds are the blocks from some height on, and all below it are recorded or
\* out of reach.
LEMMA BlocksFollow ==
  ASSUME IndexerTypes, Blocks # <<>>
  PROVE  /\ Blocks \in Seq(Nat)
         /\ \A i \in 1..Len(Blocks) : Blocks[i] = Blocks[1] + i - 1
         /\ \A h \in 1..(Blocks[1] - 1) : h <= last_height \/ h <= height - Window
<1> DEFINE found == {h \in 1..height : h > height - Window /\ h > last_height}
           low == height - Window
           n == Cardinality(found)
<1>1. height \in Nat /\ last_height \in Nat /\ Window \in Nat \ {0} /\ low \in Int
  BY FollowersAssumption DEF IndexerTypes
<1>2. PICK m \in Nat : /\ m <= height
                       /\ found = (m + 1)..height
                       /\ \A h \in 1..m : h <= last_height \/ h <= low
  <2>1. CASE last_height >= height
    BY <1>1, <2>1
  <2>2. CASE last_height < height /\ low <= last_height
    <3>1. found = (last_height + 1)..height
      BY <1>1, <2>2
    <3>. QED BY <1>1, <2>2, <3>1
  <2>3. CASE last_height < height /\ low > last_height
    <3>1. low \in Nat /\ low <= height
      BY <1>1, <2>3
    <3>2. \A h \in Int : h \in found <=> low + 1 <= h /\ h <= height
      BY <1>1, <2>3, <3>1
    <3>3. found \subseteq Int
      BY <1>1
    <3>4. found = (low + 1)..height
      <4>1. low + 1 \in Int /\ height \in Int
        BY <1>1
      <4> HIDE DEF found, low
      <4>. QED BY ONLY <3>2, <3>3, <4>1, IntervalIs
    <3>. QED BY SMTT(20), <1>1, <2>3, <3>1, <3>4
  <2>4. \/ last_height >= height
        \/ last_height < height /\ low <= last_height
        \/ last_height < height /\ low > last_height
    BY <1>1
  <2>. QED BY <2>1, <2>2, <2>3, <2>4, Zenon
<1>3. n = height - m /\ n \in Nat
  <2>1. Cardinality((m + 1)..height) = IF m + 1 > height THEN 0 ELSE height - (m + 1) + 1
    BY <1>1, <1>2, FS_Interval
  <2>2. n = Cardinality((m + 1)..height)
    BY <1>2
  <2> HIDE DEF n
  <2>. QED BY <1>1, <1>2, <2>1, <2>2
<1>4. Blocks = [i \in 1..n |-> height - n + i]
  BY DEF Blocks
<1> HIDE DEF found, n
<1>5. Blocks = [i \in 1..n |-> m + i]
  <2>1. height - n = m
    BY <1>1, <1>2, <1>3
  <2>. QED BY <1>4, <2>1
<1>6. Blocks \in Seq(Nat) /\ Len(Blocks) = n
  BY <1>2, <1>3, <1>5
<1>7. n >= 1 /\ Blocks[1] = m + 1
  BY <1>2, <1>3, <1>5, <1>6
<1>8. ASSUME NEW i \in 1..Len(Blocks) PROVE Blocks[i] = Blocks[1] + i - 1
  <2>1. i \in 1..n /\ i \in Nat
    BY <1>3, <1>6
  <2>2. Blocks[i] = m + i
    BY <1>5, <2>1
  <2>. QED BY <1>2, <1>7, <2>1, <2>2
<1>9. \A h \in 1..(Blocks[1] - 1) : h <= last_height \/ h <= height - Window
  BY <1>2, <1>7
<1>. QED BY <1>6, <1>8, <1>9

LEMMA PollStep == ASSUME IndexerInv, Poll PROVE IndexerInv'
<1>1. /\ Blocks # <<>> /\ todo' = Blocks
      /\ missed' = missed \cup {h \in 1..height : h > last_height /\ h <= height - Window}
      /\ UNCHANGED <<height, rows, last_height>> /\ inserted' = inserted /\ todo = <<>>
  BY DEF Poll
<1>2. ~inserted
  BY <1>1 DEF IndexerInv, TodoFollows
<1>3. /\ Blocks \in Seq(Nat)
      /\ \A i \in 1..Len(Blocks) : Blocks[i] = Blocks[1] + i - 1
      /\ \A h \in 1..(Blocks[1] - 1) : h <= last_height \/ h <= height - Window
  BY <1>1, BlocksFollow DEF IndexerInv
<1>4. IndexerTypes' /\ RecordedIsIndexed'
  BY <1>1, <1>3 DEF IndexerInv, IndexerTypes, RecordedIsIndexed
<1>5. ASSUME NEW h \in 1..(Blocks[1] - 1) PROVE h \in InReach'
  <2>1. Blocks[1] \in Nat
    BY <1>1, <1>3
  <2>2. h \in Nat /\ h >= 1
    BY <2>1
  <2>3. height \in Nat /\ last_height \in Nat /\ Window \in Nat \ {0}
    BY FollowersAssumption DEF IndexerInv, IndexerTypes
  <2>4. CASE h <= last_height
    <3>1. h \in 1..last_height
      BY <2>2, <2>3, <2>4
    <3>. QED BY <1>1, <3>1 DEF IndexerInv, RecordedIsIndexed, InReach
  <2>5. CASE h > last_height
    <3>1. h <= height - Window
      BY <1>3, <2>2, <2>3, <2>5
    <3>2. h \in 1..height
      BY <2>2, <2>3, <3>1
    <3>. QED BY <1>1, <2>5, <3>1, <3>2 DEF InReach
  <2>. QED BY <2>2, <2>3, <2>4, <2>5
<1>6. TodoFollows'
  BY <1>1, <1>2, <1>3, <1>5 DEF TodoFollows
<1>. QED BY <1>4, <1>6 DEF IndexerInv

LEMMA InsertBlockStep == ASSUME IndexerInv, InsertBlock PROVE IndexerInv'
<1>1. /\ todo # <<>> /\ inserted' = TRUE /\ UNCHANGED <<height, last_height, todo>>
      /\ \/ rows' = rows \cup {Head(todo)} /\ missed' = missed
         \/ rows' = rows /\ missed' = missed \cup ({Head(todo)} \ rows)
  BY DEF InsertBlock, Fails
<1>2. todo \in Seq(Nat) /\ Head(todo) = todo[1]
  BY <1>1 DEF IndexerInv, IndexerTypes
<1>3. InReach \subseteq InReach' /\ todo[1] \in InReach'
  BY <1>1, <1>2 DEF InReach
<1>4. IndexerTypes'
  BY <1>1 DEF IndexerInv, IndexerTypes
<1>5. RecordedIsIndexed'
  BY <1>1, <1>3 DEF IndexerInv, RecordedIsIndexed, InReach
<1>6. TodoFollows'
  BY <1>1, <1>3 DEF IndexerInv, TodoFollows
<1>. QED BY <1>4, <1>5, <1>6 DEF IndexerInv

LEMMA SetLastHeightStep == ASSUME IndexerInv, SetLastHeight PROVE IndexerInv'
<1>1. /\ inserted /\ inserted' = FALSE /\ todo' = Tail(todo)
      /\ last_height' = Head(todo) \/ last_height' = last_height
      /\ UNCHANGED <<height, rows, missed>>
  BY DEF SetLastHeight
<1>2. todo \in Seq(Nat) /\ todo # <<>> /\ todo[1] \in InReach
  BY <1>1 DEF IndexerInv, IndexerTypes, TodoFollows
<1>3. Head(todo) = todo[1] /\ todo[1] \in Nat /\ Len(todo) \in Nat /\ Len(todo) >= 1
  BY <1>2
<1>4. /\ Tail(todo) \in Seq(Nat) /\ Len(Tail(todo)) = Len(todo) - 1
      /\ \A i \in 1..Len(Tail(todo)) : Tail(todo)[i] = todo[i + 1]
  BY <1>2
<1>5. ASSUME NEW h \in 1..todo[1] PROVE h \in InReach
  BY <1>2, <1>3 DEF IndexerInv, TodoFollows
<1>6. InReach' = InReach
  BY <1>1 DEF InReach
<1>7. IndexerTypes'
  BY <1>1, <1>3, <1>4 DEF IndexerInv, IndexerTypes
<1>8. RecordedIsIndexed'
  BY <1>1, <1>3, <1>5 DEF IndexerInv, RecordedIsIndexed, InReach
<1>9. TodoFollows'
  <2>1. \A i \in 1..Len(todo) : todo[i] = todo[1] + i - 1
    BY DEF IndexerInv, TodoFollows
  <2>2. ASSUME NEW i \in 1..Len(Tail(todo))
        PROVE  Tail(todo)[i] = todo[1] + i
    <3>1. i + 1 \in 1..Len(todo) /\ i \in Nat
      BY <1>3, <1>4
    <3>2. todo[i + 1] = todo[1] + (i + 1) - 1
      BY <2>1, <3>1
    <3>. QED BY <1>3, <1>4, <3>1, <3>2
  <2>3. ASSUME Len(Tail(todo)) >= 1
        PROVE  Tail(todo)[1] = todo[1] + 1
    <3>1. 1 \in 1..Len(Tail(todo))
      BY <1>3, <1>4, <2>3
    <3>. QED BY <2>2, <3>1
  <2>4. \A i \in 1..Len(Tail(todo)) : Tail(todo)[i] = Tail(todo)[1] + i - 1
    <3>1. SUFFICES ASSUME NEW i \in 1..Len(Tail(todo)) PROVE Tail(todo)[i] = Tail(todo)[1] + i - 1
      OBVIOUS
    <3>2. Len(Tail(todo)) >= 1 /\ i \in Nat
      BY <1>3, <1>4
    <3>3. Tail(todo)[1] = todo[1] + 1
      BY <2>3, <3>2
    <3>4. Tail(todo)[i] = todo[1] + i
      BY <2>2
    <3>. QED BY <1>3, <3>2, <3>3, <3>4
  <2>5. Tail(todo) # <<>> => \A h \in 1..(Tail(todo)[1] - 1) : h \in InReach
    <3>1. SUFFICES ASSUME Tail(todo) # <<>>, NEW h \in 1..(Tail(todo)[1] - 1) PROVE h \in InReach
      OBVIOUS
    <3>2. Len(Tail(todo)) >= 1
      BY <1>4, <3>1
    <3>3. Tail(todo)[1] - 1 = todo[1]
      BY <1>3, <2>3, <3>2
    <3>. QED BY <1>5, <3>3
  <2>. QED BY <1>1, <1>6, <2>4, <2>5 DEF TodoFollows
<1>. QED BY <1>7, <1>8, <1>9 DEF IndexerInv

\* An indexer that has nothing to do.
LEMMA IdleFollows == ASSUME NEW t, t = <<>> PROVE Len(t) = 0 /\ t \in Seq(Nat)
OBVIOUS

LEMMA InitIndexer == FollowersInit => IndexerInv
<1> SUFFICES ASSUME FollowersInit PROVE IndexerInv
  OBVIOUS
<1>1. height = 0 /\ last_height = 0 /\ inserted = FALSE /\ todo = <<>>
  BY DEF FollowersInit
<1>2. Len(todo) = 0 /\ todo \in Seq(Nat)
  BY <1>1, IdleFollows
<1>3. IndexerTypes
  BY ONLY <1>1, <1>2 DEF IndexerTypes
<1>4. TodoFollows
  BY ONLY <1>1, <1>2 DEF TodoFollows
<1>5. RecordedIsIndexed
  BY ONLY <1>1 DEF RecordedIsIndexed
<1>. QED BY <1>3, <1>4, <1>5 DEF IndexerInv

LEMMA NextIndexer == IndexerInv /\ [FollowersNext]_followerVars => IndexerInv'
<1> SUFFICES ASSUME IndexerInv, [FollowersNext]_followerVars PROVE IndexerInv'
  OBVIOUS
<1>1. CASE UNCHANGED <<height, indexerVars>>
  BY <1>1 DEF IndexerInv, IndexerTypes, TodoFollows, RecordedIsIndexed, InReach, indexerVars
<1>2. CASE Grow
  BY <1>2 DEF IndexerInv, IndexerTypes, TodoFollows, RecordedIsIndexed, InReach, indexerVars, Grow
<1>3. CASE StopIndexer
  <2>1. /\ todo' = <<>> /\ inserted' = FALSE
        /\ UNCHANGED <<height, last_height, rows, missed>>
    BY <1>3 DEF StopIndexer
  <2>2. Len(todo') = 0 /\ todo' \in Seq(Nat)
    BY <2>1, IdleFollows
  <2>3. IndexerTypes'
    BY <2>1, <2>2 DEF IndexerInv, IndexerTypes
  <2>4. TodoFollows'
    BY ONLY <2>1, <2>2 DEF TodoFollows
  <2>5. RecordedIsIndexed'
    BY <2>1 DEF IndexerInv, RecordedIsIndexed
  <2>. QED BY <2>3, <2>4, <2>5 DEF IndexerInv
<1>4. CASE Poll \/ InsertBlock \/ SetLastHeight
  BY <1>4, PollStep, InsertBlockStep, SetLastHeightStep
<1>5. CASE Confirm \/ GetDeposits \/ MarkProcessed \/ StopBridge
           \/ \E d \in Deposits : Skip(d) \/ MintWbtc(d)
  <2>1. UNCHANGED <<height, indexerVars>>
    BY <1>5 DEF Confirm, GetDeposits, MarkProcessed, StopBridge, Skip, MintWbtc
  <2>. QED BY <1>1, <2>1
<1>. QED BY <1>1, <1>2, <1>3, <1>4, <1>5 DEF FollowersNext, followerVars

LEMMA IndexerInvariant == FollowersSpec => []IndexerInv
<1>. QED BY InitIndexer, NextIndexer, PTL DEF FollowersSpec

\* A deposit that the bridge knows of has been minted once more than it was forgotten or
\* not answered; one it does not know of has not.
BridgeTypes ==
  /\ mints \in [Deposits -> Nat] /\ forgotten \in [Deposits -> Nat]
  /\ unanswered \in [Deposits -> Nat]

Known == processed \cup unsaved

MintsAddUp ==
  \A d \in Deposits :
    /\ mints[d] <= 1 + forgotten[d] + unanswered[d]
    /\ d \notin Known => mints[d] <= forgotten[d] + unanswered[d]

BridgeInv == BridgeTypes /\ MintsAddUp

LEMMA MintsAreBounded == BridgeInv => MintedAgainOnlyIfForgotten
BY DEF BridgeInv, MintsAddUp, MintedAgainOnlyIfForgotten

LEMMA MintStep == ASSUME BridgeInv, NEW d \in Deposits, MintWbtc(d) PROVE BridgeInv'
<1>1. /\ d \notin Known /\ processed' = processed /\ forgotten' = forgotten
      /\ \/ mints' = mints /\ Known' = Known /\ unanswered' = unanswered
         \/ /\ mints' = [mints EXCEPT ![d] = @ + 1] /\ Known' = Known \cup {d}
            /\ unanswered' = unanswered
         \/ /\ mints' = [mints EXCEPT ![d] = @ + 1] /\ Known' = Known
            /\ unanswered' = [unanswered EXCEPT ![d] = @ + 1]
  BY DEF MintWbtc, Fails, Known
<1>2. BridgeTypes'
  BY <1>1 DEF BridgeInv, BridgeTypes
<1>3. MintsAddUp'
  <2>1. SUFFICES ASSUME NEW x \in Deposits
                 PROVE  /\ mints'[x] <= 1 + forgotten[x] + unanswered'[x]
                        /\ x \notin Known' => mints'[x] <= forgotten[x] + unanswered'[x]
    BY <1>1 DEF MintsAddUp
  <2>2. /\ mints[x] \in Nat /\ forgotten[x] \in Nat /\ unanswered[x] \in Nat
        /\ mints[x] <= 1 + forgotten[x] + unanswered[x]
        /\ x \notin Known => mints[x] <= forgotten[x] + unanswered[x]
    BY DEF BridgeInv, BridgeTypes, MintsAddUp
  <2>3. mints'[x] \in Nat /\ unanswered'[x] \in Nat
    BY <1>2 DEF BridgeTypes
  <2>4. CASE x = d
    BY <1>1, <2>2, <2>3, <2>4 DEF BridgeInv, BridgeTypes
  <2>5. CASE x # d
    BY <1>1, <2>2, <2>3, <2>5 DEF BridgeInv, BridgeTypes
  <2>. QED BY <2>4, <2>5
<1>. QED BY <1>2, <1>3 DEF BridgeInv

LEMMA StopBridgeStep == ASSUME BridgeInv, StopBridge PROVE BridgeInv'
<1>1. /\ Known' = file' /\ UNCHANGED <<mints, unanswered>>
      /\ forgotten' = [d \in Deposits |-> forgotten[d] + IF d \in Known \ file' THEN 1 ELSE 0]
  BY DEF StopBridge, Known
<1>2. BridgeTypes'
  BY <1>1 DEF BridgeInv, BridgeTypes
<1>3. MintsAddUp'
  <2>1. SUFFICES ASSUME NEW x \in Deposits
                 PROVE  /\ mints[x] <= 1 + forgotten'[x] + unanswered[x]
                        /\ x \notin file' => mints[x] <= forgotten'[x] + unanswered[x]
    BY <1>1 DEF MintsAddUp
  <2>2. /\ mints[x] \in Nat /\ forgotten[x] \in Nat /\ unanswered[x] \in Nat
        /\ mints[x] <= 1 + forgotten[x] + unanswered[x]
        /\ x \notin Known => mints[x] <= forgotten[x] + unanswered[x]
    BY DEF BridgeInv, BridgeTypes, MintsAddUp
  <2>3. forgotten'[x] = forgotten[x] + IF x \in Known \ file' THEN 1 ELSE 0
    BY <1>1
  <2>. QED BY <2>2, <2>3
<1>. QED BY <1>2, <1>3 DEF BridgeInv

LEMMA InitBridge == FollowersInit => BridgeInv
BY DEF FollowersInit, BridgeInv, BridgeTypes, MintsAddUp

LEMMA NextBridge == BridgeInv /\ [FollowersNext]_followerVars => BridgeInv'
<1> SUFFICES ASSUME BridgeInv, [FollowersNext]_followerVars PROVE BridgeInv'
  OBVIOUS
<1>1. CASE UNCHANGED <<mints, forgotten, unanswered>> /\ Known' = Known
  BY <1>1 DEF BridgeInv, BridgeTypes, MintsAddUp
<1>2. CASE StopBridge
  BY <1>2, StopBridgeStep
<1>3. ASSUME NEW d \in Deposits, MintWbtc(d) PROVE BridgeInv'
  BY <1>3, MintStep
<1>4. CASE \/ Grow \/ Poll \/ InsertBlock \/ SetLastHeight \/ StopIndexer \/ Confirm
           \/ GetDeposits \/ MarkProcessed \/ \E d \in Deposits : Skip(d)
  <2>1. UNCHANGED <<mints, forgotten, unanswered>> /\ Known' = Known
    BY <1>4 DEF Grow, Poll, InsertBlock, SetLastHeight, StopIndexer, Confirm, GetDeposits,
                MarkProcessed, Skip, Known, bridgeVars
  <2>. QED BY <1>1, <2>1
<1>5. CASE UNCHANGED followerVars
  BY <1>1, <1>5 DEF followerVars, bridgeVars, Known
<1>. QED BY <1>2, <1>3, <1>4, <1>5 DEF FollowersNext

LEMMA BridgeInvariant == FollowersSpec => []BridgeInv
<1>. QED BY InitBridge, NextBridge, PTL DEF FollowersSpec

-----------------------------------------------------------------------------
(* The parts side by side: only one is awake, so a behaviour of them all is  *)
(* a behaviour of each.                                                      *)

LEMMA PartsBehave == Spec => ContractsSpec /\ GovSpec /\ FollowersSpec
<1>1. Init => ContractsInit /\ GovInit /\ FollowersInit
  BY DEF Init
<1>2. [Next]_<<awake, outerVars>> =>
        /\ [ContractsNext]_contractVars /\ [GovNext]_govVars /\ [FollowersNext]_followerVars
  BY DEF Next, outerVars
<1>. QED BY <1>1, <1>2, PTL DEF Spec, ContractsSpec, GovSpec, FollowersSpec

\* The escrow of a pool holds exactly what is delegated and what waits to be withdrawn, for
\* any delegators, amounts, delays and rates.
THEOREM EscrowExact == Spec => []EscrowCovers
<1>1. ContractsInv => EscrowCovers
  BY DEF ContractsInv
<1>. QED BY <1>1, PartsBehave, ContractsInvariant, PTL

\* What delegators were paid and may still ask for is within what was distributed and one unit
\* for each change of a delegation, for any scale and any amounts.
THEOREM RewardsAreCovered == Spec => []RewardsWithinRounding
<1>. QED BY PendingCovered, PartsBehave, ContractsInvariant, PTL

\* No coin is made or lost by delegating, voting and claiming, in any order.
THEOREM CoinsComeBack == Spec => []LockedCoinsReturn
<1>1. ContractsInv => LockedCoinsReturn
  BY DEF ContractsInv
<1>. QED BY <1>1, PartsBehave, ContractsInvariant, PTL

\* GovernanceManager::vote counts no name twice, although the receipt and the proposal are two
\* puts, a proposal may be created again, and a process may end between any two puts.
THEOREM NoNameCountsTwice == Spec => []BallotsCountedOnce
<1>1. GovInv => BallotsCountedOnce
  BY DEF GovInv
<1>. QED BY <1>1, PartsBehave, GovInvariant, PTL

\* The indexer's record of how far it has come never runs ahead of what is in its table or was
\* out of its reach, for any window, failed write and crash.
THEOREM IndexedUpToRecord == Spec => []RecordedIsIndexed
<1>1. IndexerInv => RecordedIsIndexed
  BY DEF IndexerInv
<1>. QED BY <1>1, PartsBehave, IndexerInvariant, PTL

\* A deposit is minted once, and once more for each answer that was lost and each restart that
\* did not find it, for any deposits and crashes.
THEOREM MintedOnceEach == Spec => []MintedAgainOnlyIfForgotten
<1>. QED BY MintsAreBounded, PartsBehave, BridgeInvariant, PTL
=============================================================================

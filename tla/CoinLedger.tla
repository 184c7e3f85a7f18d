----------------------------- MODULE CoinLedger -----------------------------
(****************************************************************************)
(* The coin stores of AINCORE: coin.move for the coin AincoreCoin.  An      *)
(* account has a store once it has registered, and a transaction that debits *)
(* too much or credits an account without a store aborts as a whole, so that *)
(* an abort is a disabled action here.                                       *)
(****************************************************************************)
EXTENDS Integers, FiniteSets

CONSTANT Accounts

\* An address has 32 bytes.
ASSUME AccountsAssumption == IsFiniteSet(Accounts)

VARIABLES
  stores,    \* the accounts with a CoinStore
  balance    \* the value of each store, 0 without one

coinVars == <<stores, balance>>

CoinTypes ==
  /\ stores \subseteq Accounts
  /\ balance \in [Accounts -> Nat]

CoinInit ==
  /\ stores = {}
  /\ balance = [a \in Accounts |-> 0]

\* coin::deposit
Deposit(a, x) ==
  /\ a \in stores
  /\ balance' = [balance EXCEPT ![a] = @ + x]
  /\ UNCHANGED stores

\* Seeded fault: the balance is not looked at.
WithdrawUnchecked(a, x) ==
  /\ a \in stores
  /\ balance' = [balance EXCEPT ![a] = @ - x]
  /\ UNCHANGED stores

\* coin::withdraw, and the body of coin::deduct_gas
Withdraw(a, x) ==
  /\ a \in stores
  /\ balance[a] >= x
  /\ balance' = [balance EXCEPT ![a] = @ - x]
  /\ UNCHANGED stores

\* coin::register
RegisterStore(a) ==
  /\ a \notin stores
  /\ stores' = stores \cup {a}
  /\ UNCHANGED balance

\* coin::transfer: a withdrawal, then a deposit, of one account even.
Move(a, b, x) ==
  LET debited == [balance EXCEPT ![a] = @ - x] IN
  /\ {a, b} \subseteq stores
  /\ balance[a] >= x
  /\ balance' = [debited EXCEPT ![b] = @ + x]
  /\ UNCHANGED stores
=============================================================================

----------------------------- MODULE CoinContracts -----------------------------
(****************************************************************************)
(* The pool of delegations and the vote escrow over one ledger: an account   *)
(* delegates and votes with the same coins, in any order.                    *)
(****************************************************************************)
EXTENDS Delegation, VoteEscrow

CONSTANTS
  Initial,        \* the coins each account starts with
  Gifts,          \* amounts that are transferred
  MaxOperations   \* bound: changes of delegations, distributions and proposals together, one of these as two

ASSUME ContractsAssumption ==
  Initial \in [Accounts -> Nat] /\ Gifts \subseteq Nat /\ MaxOperations \in Nat

contractVars == <<coinVars, delegationVars, voteVars>>

ContractsInit ==
  /\ stores = Accounts /\ balance = Initial
  /\ DelegationInit /\ VoteInit

\* coin::transfer between any two of them.
Give(from, to, x) ==
  /\ Move(from, to, x)
  /\ UNCHANGED <<delegationVars, voteVars>>

Operations == settlements + rewarded + 2 * Cardinality({i \in Ids : proposals[i].stage # "none"})

ContractsNext ==
  /\ \/ \E from, to \in Accounts, x \in Gifts : Give(from, to, x)
     \/ DelegationNext /\ UNCHANGED voteVars
     \/ VoteNext /\ UNCHANGED delegationVars
  /\ Operations' <= MaxOperations

ContractsSpec == ContractsInit /\ [][ContractsNext]_contractVars

\* Locking is not spending: whatever is delegated, unbonded, voted with and claimed back, in any
\* order, every coin is with an account, in the escrow of the pool, in the record of a vote or
\* burned as a fee, and there are no more than there were and rewards have added.  Votes burn
\* and mint their coins, so that a record claimed twice or lost would make or destroy some.
LockedCoinsReturn ==
  SumFunction(balance) + escrow + SumFunction(locked) + feesBurned = SumFunction(Initial) + minted
=============================================================================

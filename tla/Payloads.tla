------------------------------- MODULE Payloads -------------------------------
(****************************************************************************)
(* The payloads of Executor::execute_transaction (core/executor/src/lib.rs): *)
(* which of them reach a function of the Move VM, with which arguments, and  *)
(* what a registration leaves behind, once in the ValidatorSet of the        *)
(* staking contract and once in sys:validators, the list that the consensus  *)
(* reads.  BlockExecutor models the coins; here they are left out.           *)
(*                                                                           *)
(* The VM passes the arguments on as they are and adds no signer             *)
(* (execute_public_entry_function), so a call whose arguments are not the    *)
(* parameters of the function is refused.  One that fits may still be        *)
(* refused for want of coins or gas.                                         *)
(*                                                                           *)
(* Accounts are those that have an account object.  Genesis stores one for   *)
(* its first account and for each of its validators, and no other code of    *)
(* the node makes one; a transaction of any other sender is dropped, as one  *)
(* signed with a scheme of which a signature has not 64 bytes.               *)
(****************************************************************************)
EXTENDS Integers, Sequences, TLC

CONSTANTS
  Accounts,       \* addresses
  Federation,     \* the account of sys:config:federation_addr
  Founders,       \* validators of the genesis
  InitialWeight,  \* 100 in the code
  Txs,            \* the transactions there are
  MaxExecuted,    \* bound: batches executed
  MaxSlashes      \* bound: slashes carried out

Malformed == "malformed"   \* a text that is no address
Kinds == {"0x", "transfer", "mint_btc", "submit_proof", "register_validator", "delegate",
          "undelegate", "claim_rewards", "withdraw_unbonded", "enable_delegation", "create_token",
          "mint_token", "burn_token", "transfer_token", "init_token_wallet", "unknown"}

ASSUME PayloadsAssumption ==
  /\ Federation \in Accounts /\ Founders \subseteq Accounts /\ Malformed \notin Accounts
  /\ InitialWeight \in Nat \ {0} /\ MaxExecuted \in Nat /\ MaxSlashes \in Nat
  /\ Txs \subseteq [sender : Accounts, number : Nat, signed : BOOLEAN, sponsored : BOOLEAN,
                    kind : Kinds, complete : BOOLEAN, to : Accounts \cup {Malformed}, amount : Nat]

VARIABLES
  number,    \* disk: AccountData.sequence_number
  joined,    \* disk: the members of staking::ValidatorSet
  weight,    \* disk: sys:validators
  executed,  \* history
  slashes    \* history

payloadVars == <<number, joined, weight, executed, slashes>>

-----------------------------------------------------------------------------
(* Where a payload goes: nowhere, with the transaction dropped or only charged, or to a  *)
(* function, with arguments of these types and this many type arguments.                *)

Dropped == [fate |-> "dropped"]
Charged == [fate |-> "charged"]
Call(module, function, coins, args) ==
  [fate |-> "call", function |-> <<module, function>>, coins |-> coins, args |-> args]

\* Parameters: of the functions called, as the Move sources declare them.
Parameters ==
  [f \in {<<"coin", "transfer">>, <<"coin", "deposit_fee_reward">>, <<"wbtc", "mint">>,
          <<"delegation", "delegate">>, <<"delegation", "undelegate">>}
     |-> <<"signer", "address", "u128">>] @@
  [f \in {<<"delegation", "claim_rewards">>, <<"delegation", "withdraw_unbonded">>}
     |-> <<"signer", "address">>] @@
  [f \in {<<"token_factory", "mint">>, <<"token_factory", "transfer">>}
     |-> <<"signer", "bytes", "address", "u128">>] @@
  <<"staking", "join_validator_set">>    :> <<"signer", "u128", "bytes">> @@
  <<"delegation", "enable_delegation">>  :> <<"signer", "u64">> @@
  <<"token_factory", "create_token">>    :> <<"signer", "bytes", "bytes", "u8", "u128", "u128">> @@
  <<"token_factory", "burn">>            :> <<"signer", "bytes", "u128">> @@
  <<"token_factory", "init_wallet">>     :> <<"signer">>

Fits(c) == /\ c.args = Parameters[c.function]
           /\ c.coins = IF c.function[1] = "coin" THEN 1 ELSE 0

\* The fields of a payload are split at its colons; one with too few is only charged.  A
\* number that cannot be read is 0.  The code that ran a script is there still, under `if false`.
RawScript == Charged
Unknown   == Charged

\* The genesis lock and a recipient that is no address drop the transaction.
Transfer(t) ==
  IF ~t.complete                  THEN Charged
  ELSE IF t.sender = Federation   THEN Dropped
  ELSE IF t.amount = 0            THEN Charged
  ELSE IF t.to = Malformed        THEN Dropped
  ELSE Call("coin", "transfer", 1, <<"signer", "address", "u128">>)

\* A recipient that is no address becomes the address zero.
MintBtc(t) ==
  IF t.sender # Federation \/ ~t.complete
  THEN Charged
  ELSE Call("wbtc", "mint", 0, <<"signer", "address", "u128">>)

\* The device is the sender, the score at most 100; the signer is 0x1.
SubmitProof(t) ==
  IF ~t.complete \/ t.to # t.sender \/ t.amount \notin 1..100
  THEN Charged
  ELSE Call("coin", "deposit_fee_reward", 1, <<"signer", "address", "u128">>)

RegisterValidator == Call("staking", "join_validator_set", 0, <<"signer", "u128", "bytes">>)

\* RefundGas: what a registration calls next, to pay back the gas it has not used.
RefundGas == Call("coin", "deposit_fee_reward", 0, <<"u128">>)

\* The calls that name a validator; without an amount they have two fields.
WithAmount(t, function) ==
  IF ~t.complete \/ t.amount = 0 THEN Charged
  ELSE IF t.to = Malformed       THEN Dropped
  ELSE Call("delegation", function, 0, <<"address", "u128">>)
WithoutAmount(t, function) ==
  IF ~t.complete           THEN Charged
  ELSE IF t.to = Malformed THEN Dropped
  ELSE Call("delegation", function, 0, <<"address">>)

Delegate(t)         == WithAmount(t, "delegate")
Undelegate(t)       == WithAmount(t, "undelegate")
ClaimRewards(t)     == WithoutAmount(t, "claim_rewards")
WithdrawUnbonded(t) == WithoutAmount(t, "withdraw_unbonded")

EnableDelegation(t) ==
  IF t.complete THEN Call("delegation", "enable_delegation", 0, <<"u64">>) ELSE Charged

CreateToken(t) ==
  IF t.complete
  THEN Call("token_factory", "create_token", 0, <<"bytes", "bytes", "u8", "u128", "u128">>)
  ELSE Charged

\* The calls that send tokens to an account.
TokensTo(t, function) ==
  IF ~t.complete           THEN Charged
  ELSE IF t.to = Malformed THEN Dropped
  ELSE Call("token_factory", function, 0, <<"bytes", "address", "u128">>)

MintToken(t)     == TokensTo(t, "mint")
TransferToken(t) == TokensTo(t, "transfer")
BurnToken(t)     == IF t.complete THEN Call("token_factory", "burn", 0, <<"bytes", "u128">>) ELSE Charged
InitTokenWallet  == Call("token_factory", "init_wallet", 0, <<>>)

Payload(t) ==
  CASE t.kind = "0x"                 -> RawScript
    [] t.kind = "transfer"           -> Transfer(t)
    [] t.kind = "mint_btc"           -> MintBtc(t)
    [] t.kind = "submit_proof"       -> SubmitProof(t)
    [] t.kind = "register_validator" -> RegisterValidator
    [] t.kind = "delegate"           -> Delegate(t)
    [] t.kind = "undelegate"         -> Undelegate(t)
    [] t.kind = "claim_rewards"      -> ClaimRewards(t)
    [] t.kind = "withdraw_unbonded"  -> WithdrawUnbonded(t)
    [] t.kind = "enable_delegation"  -> EnableDelegation(t)
    [] t.kind = "create_token"       -> CreateToken(t)
    [] t.kind = "mint_token"         -> MintToken(t)
    [] t.kind = "burn_token"         -> BurnToken(t)
    [] t.kind = "transfer_token"     -> TransferToken(t)
    [] t.kind = "init_token_wallet"  -> InitTokenWallet
    [] OTHER                         -> Unknown

\* Admitted(t): chain, key, signature and number are right.  A paymaster is a key of 64 hex
\* digits, which is no address, so that a sponsored transaction is always turned away.
Admitted(t) == t.signed /\ ~t.sponsored /\ t.number = number[t.sender]

\* MayRun(t): the VM can carry the call out: of the functions that are reached, mint of wbtc
\* finds no BridgeConfig and join_validator_set refuses a member.
MayRun(t) ==
  LET c == Payload(t) IN
  /\ c.fate = "call" /\ Fits(c)
  /\ c.function[1] # "wbtc"
  /\ t.kind = "register_validator" => t.sender \notin joined

-----------------------------------------------------------------------------
(* Execution. *)

Newest(S) == {i \in S : \A j \in S : j <= i}

\* Seeded fault: the native list follows whatever the VM answers.
HookedAlways(batch, charged, ran) ==
  {batch[i].sender : i \in Newest({j \in charged : /\ batch[j].kind = "register_validator"
                                                  /\ batch[j].sender \notin DOMAIN weight})}

\* Hooked(batch, charged, ran): the account whose entry in sys:validators the merged batch
\* holds: every registration writes the whole list, as it was before the batch and longer by
\* one, and the last one remains.
Hooked(batch, charged, ran) ==
  {batch[i].sender : i \in Newest({j \in ran : /\ batch[j].kind = "register_validator"
                                              /\ batch[j].sender \notin DOMAIN weight})}

\* ExecuteBatch: transactions of different senders, side by side on the committed state.
ExecuteBatch ==
  /\ executed < MaxExecuted
  /\ \E batch \in Txs \X Txs :
       /\ batch[1].sender # batch[2].sender
       /\ \E charged \in SUBSET {i \in 1..2 : Admitted(batch[i]) /\ Payload(batch[i]) # Dropped} :
          \E ran \in SUBSET {i \in charged : MayRun(batch[i])} :
            LET members == {batch[i].sender :
                             i \in Newest({j \in ran : batch[j].kind = "register_validator"})}
                senders == {batch[i].sender : i \in charged}
            IN  /\ number' = [a \in Accounts |-> number[a] + IF a \in senders THEN 1 ELSE 0]
                /\ joined' = joined \cup members
                /\ weight' = [v \in DOMAIN weight \cup Hooked(batch, charged, ran) |->
                                IF v \in DOMAIN weight THEN weight[v] ELSE InitialWeight]
  /\ executed' = executed + 1
  /\ UNCHANGED slashes

\* Slash: the drain of the slash queue takes a twentieth of the weight, and a validator without
\* any off the list; slash_validator is no entry function, so the contract keeps the stake.
Slash ==
  /\ slashes < MaxSlashes
  /\ \E v \in DOMAIN weight :
       LET rest == (weight[v] * 95) \div 100 IN
       weight' = [u \in {u \in DOMAIN weight : u # v \/ rest > 0} |->
                    IF u = v THEN rest ELSE weight[u]]
  /\ slashes' = slashes + 1
  /\ UNCHANGED <<number, joined, executed>>

PayloadsInit ==
  /\ number = [a \in Accounts |-> 0]
  /\ joined = Founders
  /\ weight = [v \in Founders |-> InitialWeight]
  /\ executed = 0 /\ slashes = 0

PayloadsNext == ExecuteBatch \/ Slash
PayloadsSpec == PayloadsInit /\ [][PayloadsNext]_payloadVars

\* The validators the consensus counts are among those whose stake the contract holds,
\* although the two lists are separate keys, written by parallel transactions the later of
\* which replaces the earlier, and the VM may refuse either; that a slash takes a validator off
\* one list alone must not let it register again without a stake.
CountedAreStaked == DOMAIN weight \subseteq joined

\* Every payload the executor knows is a call the VM can carry out.  Violated: the calls of
\* delegation and token_factory leave out the signer, the refund its other arguments.
EveryCallFits ==
  /\ \A t \in Txs : Payload(t).fate = "call" => Fits(Payload(t))
  /\ Fits(RefundGas)
=============================================================================

--------------------------- MODULE AroundTheChain ---------------------------
(****************************************************************************)
(* What keeps accounts of the chain without building it: the contracts that  *)
(* lock coins (delegation.move, governance.move), the proposals and votes    *)
(* that the API of a node keeps in its database, and the programs that       *)
(* follow a chain.  No state of one is read by another, so one of them is    *)
(* awake in a behaviour and the others do not move: the states of the run    *)
(* are those of the parts side by side, and not their product.               *)
(****************************************************************************)
EXTENDS CoinContracts, GovernanceStore, ChainFollowers

VARIABLE awake

outerVars == <<contractVars, govVars, followerVars>>

Init ==
  /\ awake \in {"contracts", "proposals", "followers"}
  /\ ContractsInit /\ GovInit /\ FollowersInit

Next ==
  /\ UNCHANGED awake
  /\ \/ awake = "contracts" /\ ContractsNext /\ UNCHANGED <<govVars, followerVars>>
     \/ awake = "proposals" /\ GovNext /\ UNCHANGED <<contractVars, followerVars>>
     \/ awake = "followers" /\ FollowersNext /\ UNCHANGED <<contractVars, govVars>>

Spec == Init /\ [][Next]_<<awake, outerVars>>
=============================================================================

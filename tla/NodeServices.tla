---------------------------- MODULE NodeServices ----------------------------
(****************************************************************************)
(* What a node runs beside the consensus, the executor and the sync of the   *)
(* chain: its locks, its mempool, its connections, the data availability     *)
(* layer, the payloads that it hands to the Move VM, and the older engine of *)
(* its consensus crate.  They share the process and the database, under keys *)
(* of their own, and no state of one is read by another.  So one of them is  *)
(* awake in a behaviour and the others do not move: the states of the run    *)
(* are those of the parts side by side, and not their product.               *)
(****************************************************************************)
EXTENDS NodeLocks, Mempool, PeerNetwork, DataAvailability, Payloads, SimpleConsensus

VARIABLE awake

serviceVars == <<lockVars, poolVars, netVars, daVars, payloadVars, simpleVars>>

\* A network that never wakes has every node off, so that its fairness asks for nothing.
Init ==
  /\ awake \in {"locks", "pool", "network", "availability", "payloads", "engine"}
  /\ LockInit /\ PoolInit /\ NetInit /\ DAInit /\ PayloadsInit /\ SimpleInit

Next ==
  /\ UNCHANGED awake
  /\ \/ /\ awake = "locks" /\ LockNext
        /\ UNCHANGED <<poolVars, netVars, daVars, payloadVars, simpleVars>>
     \/ /\ awake = "pool" /\ PoolNext
        /\ UNCHANGED <<lockVars, netVars, daVars, payloadVars, simpleVars>>
     \/ /\ awake = "network" /\ NetNext
        /\ UNCHANGED <<lockVars, poolVars, daVars, payloadVars, simpleVars>>
     \/ /\ awake = "availability" /\ DANext
        /\ UNCHANGED <<lockVars, poolVars, netVars, payloadVars, simpleVars>>
     \/ /\ awake = "payloads" /\ PayloadsNext
        /\ UNCHANGED <<lockVars, poolVars, netVars, daVars, simpleVars>>
     \/ /\ awake = "engine" /\ SimpleNext
        /\ UNCHANGED <<lockVars, poolVars, netVars, daVars, payloadVars>>

Spec == Init /\ [][Next]_<<awake, serviceVars>> /\ NetFairness
=============================================================================

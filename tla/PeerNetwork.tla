----------------------------- MODULE PeerNetwork -----------------------------
(****************************************************************************)
(* How nodes come to know each other over TCP (common/network/src/lib.rs and *)
(* the reconnect loop of core/node/src/main.rs).  A node dials its bootnodes *)
(* when it starts and every 15 seconds, and the peers it has on disk; both   *)
(* ends of a handshake prove their keys, the dialler says on which port it   *)
(* listens, and each enters the other in its table.  Blocks, vertices and    *)
(* sync requests go to what the table says.                                 *)
(*                                                                          *)
(* A node keeps its host and its port.  Keys are not forged, so an identity  *)
(* is the node itself.                                                       *)
(****************************************************************************)
EXTENDS Integers

CONSTANTS
  Nodes,
  PortOf,    \* the port each node listens on
  Boot,      \* the bootnodes of each
  Plain,     \* the nodes that are given theirs as host:port
  MaxStops   \* bound

ASSUME NetworkAssumption ==
  /\ PortOf \in [Nodes -> Nat \ {0}]
  /\ Boot \in [Nodes -> SUBSET Nodes] /\ \A n \in Nodes : n \notin Boot[n]
  /\ Plain \subseteq Nodes /\ MaxStops \in Nat

VARIABLES
  up,        \* the nodes that run
  peers,     \* memory: the port each node has of each other, 0 for none
  saved,     \* disk: peer:<id>
  knownIp,   \* disk: the ids with a peer_ip:<id>
  dialling,  \* the bootnodes a starting node has still to dial
  stops      \* history

netVars == <<up, peers, saved, knownIp, dialling, stops>>

NoPeers == [m \in Nodes |-> 0]

\* A server that is up answers on its own port only.
Answers(host, port) == host \in up /\ PortOf[host] = port

\* network::handshake against a node that answers, to its end: the dialler enters the
\* server under the port it dialled; start_server enters the dialler under the port it
\* announced, on disk too.
Handshake(n, host, port, announced) ==
  /\ n \in up /\ Answers(host, port)
  /\ peers' = [peers EXCEPT ![host][n] = announced, ![n][host] = port]
  /\ saved' = [saved EXCEPT ![host][n] = announced]
  /\ knownIp' = [knownIp EXCEPT ![host] = @ \cup {n}, ![n] = @ \cup {host}]

\* The connection breaks after the HELLO: only the server has taken note.
HalfHandshake(n, host, port, announced) ==
  /\ n \in up /\ Answers(host, port)
  /\ peers' = [peers EXCEPT ![host][n] = announced]
  /\ saved' = [saved EXCEPT ![host][n] = announced]
  /\ knownIp' = [knownIp EXCEPT ![host] = @ \cup {n}]

Start(n) ==
  /\ n \notin up /\ up' = up \cup {n}
  /\ dialling' = [dialling EXCEPT ![n] = Boot[n]]
  /\ UNCHANGED <<peers, saved, knownIp, stops>>

\* The process ends.  The table goes with it, and what the log of the database had
\* not flushed.
Stop(n) ==
  /\ n \in up /\ stops < MaxStops
  /\ up' = up \ {n} /\ stops' = stops + 1
  /\ peers' = [peers EXCEPT ![n] = NoPeers]
  /\ dialling' = [dialling EXCEPT ![n] = {}]
  /\ \E kept \in SUBSET Nodes :
       /\ saved' = [saved EXCEPT ![n] = [m \in Nodes |-> IF m \in kept THEN @[m] ELSE 0]]
       /\ knownIp' = [knownIp EXCEPT ![n] = @ \cap kept]

\* The dials of a starting node.  The port of the bootnode hides the node's own in
\* this loop, so that the node announces the port of the bootnode as its own.
InitialDial(n, b) ==
  /\ n \in up /\ b \in dialling[n]
  /\ dialling' = [dialling EXCEPT ![n] = @ \ {b}]
  /\ \/ Handshake(n, b, PortOf[b], PortOf[b])
     \/ HalfHandshake(n, b, PortOf[b], PortOf[b])
     \/ UNCHANGED <<peers, saved, knownIp>>
  /\ UNCHANGED <<up, stops>>

\* Seeded fault: the loop leaves out the peers that are in the table already.
DialsUnknown(n, host, port) ==
  /\ port # PortOf[n] /\ peers[n][host] = 0
  /\ \/ host \in Boot[n] /\ n \notin Plain /\ port = PortOf[host]
     \/ \E m \in Nodes : saved[n][m] = port /\ port # 0 /\ host = IF m \in knownIp[n] THEN m ELSE n

\* Whom the reconnect loop dials: the bootnodes, if they were given as multiaddresses,
\* and the peers on disk, at this host when it has no address, but nobody on a port
\* equal to the node's own.
Dials(n, host, port) ==
  /\ port # PortOf[n]
  /\ \/ host \in Boot[n] /\ n \notin Plain /\ port = PortOf[host]
     \/ \E m \in Nodes : saved[n][m] = port /\ port # 0 /\ host = IF m \in knownIp[n] THEN m ELSE n

Redial(n, host) ==
  /\ Dials(n, host, PortOf[host])
  /\ Handshake(n, host, PortOf[host], PortOf[n])
  /\ UNCHANGED <<up, dialling, stops>>

RedialBreaks(n, host) ==
  /\ Dials(n, host, PortOf[host])
  /\ HalfHandshake(n, host, PortOf[host], PortOf[n])
  /\ UNCHANGED <<up, dialling, stops>>

NetInit ==
  /\ up = {}
  /\ peers = [n \in Nodes |-> NoPeers] /\ saved = peers
  /\ knownIp = [n \in Nodes |-> {}]
  /\ dialling = [n \in Nodes |-> {}]
  /\ stops = 0

NetNext ==
  \E n, m \in Nodes :
    \/ Start(n) \/ Stop(n)
    \/ InitialDial(n, m)
    \/ Redial(n, m) \/ RedialBreaks(n, m)

\* The dials of a starting node end, and the loop goes round for ever: of its dials to
\* a node that stays up one gets through.
NetFairness ==
  \A n, m \in Nodes : WF_netVars(InitialDial(n, m)) /\ WF_netVars(Redial(n, m))

NetSpec == NetInit /\ [][NetNext]_netVars /\ NetFairness

----------------------------------------------------------------------------
(* Properties. *)

\* A node and a bootnode of another port, given as a multiaddress, that run on both end
\* up with each other's true port and address, however often they stopped and whatever
\* was announced.
FindsBootnodes ==
  \A n \in Nodes \ Plain : \A b \in Boot[n] :
    PortOf[n] # PortOf[b] =>
      <>[]({n, b} \subseteq up =>
             /\ peers[n][b] = PortOf[b] /\ peers[b][n] = PortOf[n]
             /\ b \in knownIp[n] /\ n \in knownIp[b])

\* The same for equal ports, the default, and for host:port: a node that started while
\* its bootnode was down never finds it.  The code breaks it.
FindsAnyBootnode ==
  \A n \in Nodes : \A b \in Boot[n] : <>[]({n, b} \subseteq up => peers[b][n] # 0)
=============================================================================

--------------------------- MODULE MCNodeServices ---------------------------
(* Instance of NodeServices for TLC. *)
EXTENDS NodeServices

CONSTANTS n1, n2, n3,  \* nodes, accounts
          k1, k2       \* nodes that keep shards

\* Three transactions with signatures of Ed25519, one with a post-quantum one, and one with the
\* prefix that keeps it from being parsed.
Tx(n) == [id |-> n, prefix |-> "{", parses |-> TRUE, chain |-> TRUE, scheme |-> "ed25519",
          valid |-> TRUE, large |-> FALSE]
SomeTexts == {Tx(1), Tx(2), Tx(3), [Tx(4) EXCEPT !.scheme = "pqc"],
              [Tx(5) EXCEPT !.prefix = "TX:", !.parses = FALSE]}

\* n2 and n3 dial n1; n3 listens on the same port as n1 does, on another host.
Ports  == (n1 :> 1) @@ (n2 :> 2) @@ (n3 :> 1)
DialsFirst == [n \in Nodes |-> IF n = n1 THEN {} ELSE {n1}]

\* k1 keeps shards 0 and 1 first, k2 shard 2.
ByShard == [i \in 0..2 |-> IF i = 2 THEN <<k2, k1>> ELSE <<k1, k2>>]

\* n1 is the federation and a founder; n2 and n3 would be validators.  Of the other kinds of
\* payload one transaction each.
Pay(s, n, k, t) == [sender |-> s, number |-> n, signed |-> TRUE, sponsored |-> FALSE,
                    kind |-> k, complete |-> TRUE, to |-> t, amount |-> 1]
SomeTxs ==
  {Pay(s, n, "register_validator", s) : s \in {n2, n3}, n \in 0..2}
    \cup {Pay(n1, 0, k, n2) : k \in Kinds \ {"register_validator"}}
    \cup {Pay(n1, 1, "register_validator", n1), Pay(n2, 0, "transfer", Malformed)}

Stakes == (n1 :> 2) @@ (n2 :> 1) @@ (n3 :> 1)
=============================================================================

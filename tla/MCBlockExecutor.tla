---------------------------- MODULE MCBlockExecutor ----------------------------
(* Instances of BlockExecutor for TLC. *)
EXTENDS BlockExecutor

CONSTANTS a, b, c, B   \* three accounts, and b spelt otherwise

MCNames     == {a, b, c, B}
MCAddressOf == [n \in MCNames |-> IF n = B THEN b ELSE n]
MCRank      == [n \in {a, b, c} |-> CASE n = a -> 1 [] n = b -> 2 [] n = c -> 3]

Tx(s, n, k, t) == [sender |-> s, number |-> n, kind |-> k, to |-> t, inputs |-> {}]
Pay(s, n, t)   == Tx(s, n, "transfer", t)
Join(s, n)     == Tx(s, n, "register_validator", s)

Prove(s, n)    == Tx(s, n, "submit_proof", s)

MCTxs == {Pay(a, 0, b), Pay(a, 1, c), Pay(a, 0, B), Pay(b, 0, c), Join(a, 0), Join(c, 0), Pay(c, 0, a),
          Prove(b, 0)}

\* Two payments of one account in the wrong order, and a device's proof by the one it pays;
\* a payment to a name that the scheduler takes for another account, and two transactions with
\* the same number; a payment of the locked account, and two registrations.
MCBlocks == {<<>>,
             <<Pay(a, 1, c), Pay(a, 0, b), Prove(b, 0)>>,
             <<Pay(b, 0, c), Pay(a, 0, B), Join(a, 0)>>,
             <<Pay(c, 0, a), Join(a, 0), Join(c, 0)>>}
=============================================================================

-------------------------- MODULE MCAroundTheChain --------------------------
(* Instance of AroundTheChain for TLC. *)
EXTENDS AroundTheChain, TLC

CONSTANTS v, d, e,  \* accounts
          g, h,     \* holders of coins that vote, under their addresses
          zg        \* and the address of g without the zero it begins with

\* d pays for proposals, delegates and votes; e delegates, and gives d coins to vote with again.
Coins   == (v :> 0) @@ (d :> 2) @@ (e :> 2)
\* h has coins to vote with once g has moved its own.
Weights == (g :> 2) @@ (h :> 0)
Spelled == (g :> g) @@ (zg :> g) @@ (h :> h)
=============================================================================

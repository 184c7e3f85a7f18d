------------------------------ MODULE BftQuorum ------------------------------
(****************************************************************************)
(* The two quorum sizes of the DAG consensus, as functions of the number n  *)
(* of validators.  A vertex needs ParentQuorum(n) parents; an anchor needs  *)
(* CommitThreshold(n) votes.                                                *)
(****************************************************************************)
EXTENDS Integers

\* f, the number of Byzantine validators that the code means to tolerate.
Faults(n) == (n - 1) \div 3

\* Seeded fault: a simple majority of parents.
MajorityParents(n) == n \div 2 + 1

\* Parents required of every vertex above round 1.
ParentQuorum(n) == 2 * Faults(n) + 1

\* Seeded fault: the threshold of one or two validators used for every set.
AnyVote(n) == 1

\* Votes required to commit an anchor: ceil(2n/3), and 1 for one or two validators.
CommitThreshold(n) == IF n <= 2 THEN 1 ELSE (2 * n + 2) \div 3
=============================================================================

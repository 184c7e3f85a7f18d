------------------------------ MODULE VoteEscrow ------------------------------
(****************************************************************************)
(* governance.move: proposals, votes weighted by the whole balance of the    *)
(* voter, which is burned until the proposal is executed, and the record     *)
(* from which it is minted again.                                            *)
(****************************************************************************)
EXTENDS CoinLedger, FiniteSets, Functions

CONSTANTS
  Voters,        \* accounts that vote
  ProposalFee,   \* 10,000 AIN in the code
  MinQuorum,     \* 1,000,000 AIN in the code
  MaxProposals   \* bound: proposals

ASSUME VoteEscrowAssumption ==
  Voters \subseteq Accounts /\ ProposalFee \in Nat /\ MinQuorum \in Nat /\ MaxProposals \in Nat

VARIABLES
  proposals,   \* GovernanceState.proposals, by their number
  locked,      \* VoteEscrow.locked_amount, 0 without a record
  lockedFor,   \* VoteEscrow.proposal_id
  feesBurned   \* history: fees of proposals

voteVars == <<proposals, locked, lockedFor, feesBurned>>

Ids     == 1..MaxProposals
NoId    == 0
Unborn  == [stage |-> "none", votes_for |-> 0, votes_against |-> 0, voters |-> {}, system |-> FALSE]

VoteInit ==
  /\ proposals = [p \in Ids |-> Unborn]
  /\ locked = [v \in Voters |-> 0] /\ lockedFor = [v \in Voters |-> NoId]
  /\ feesBurned = 0

\* CreateProposal(v): system tells the change of the epoch, which only 0x1 may execute.
CreateProposal(v, system) ==
  \E p \in Ids :
    /\ proposals[p].stage = "none" /\ \A q \in Ids : q < p => proposals[q].stage # "none"
    /\ Withdraw(v, ProposalFee)
    /\ feesBurned' = feesBurned + ProposalFee
    /\ proposals' = [proposals EXCEPT ![p] = [Unborn EXCEPT !.stage = "open", !.system = system]]
    /\ UNCHANGED <<locked, lockedFor>>

\* Vote(v, p, agree): the record of an earlier vote grows, and names the new proposal only.
Vote(v, p, agree) ==
  LET weight == balance[v] IN
  /\ weight > 0
  /\ proposals[p].stage = "open" /\ v \notin proposals[p].voters
  /\ Withdraw(v, weight)
  /\ locked' = [locked EXCEPT ![v] = @ + weight] /\ lockedFor' = [lockedFor EXCEPT ![v] = p]
  /\ proposals' = [proposals EXCEPT
       ![p].votes_for = @ + IF agree THEN weight ELSE 0,
       ![p].votes_against = @ + IF agree THEN 0 ELSE weight,
       ![p].voters = @ \cup {v}]
  /\ UNCHANGED feesBurned

\* Seeded fault: the record is read and not removed.
ClaimKeeping(v) ==
  /\ lockedFor[v] \in Ids /\ proposals[lockedFor[v]].stage = "executed"
  /\ Deposit(v, locked[v])
  /\ UNCHANGED <<locked, lockedFor, proposals, feesBurned>>

ClaimVoteTokens(v) ==
  /\ lockedFor[v] \in Ids /\ proposals[lockedFor[v]].stage = "executed"
  /\ Deposit(v, locked[v])
  /\ locked' = [locked EXCEPT ![v] = 0] /\ lockedFor' = [lockedFor EXCEPT ![v] = NoId]
  /\ UNCHANGED <<proposals, feesBurned>>

\* ExecuteProposal(p): by anybody, but not one for the system: 0x1 signs no transaction.
ExecuteProposal(p) ==
  LET q == proposals[p] IN
  /\ q.stage = "open" /\ ~q.system
  /\ q.votes_for + q.votes_against >= MinQuorum /\ q.votes_for > q.votes_against
  /\ proposals' = [proposals EXCEPT ![p].stage = "executed"]
  /\ UNCHANGED <<coinVars, locked, lockedFor, feesBurned>>

VoteNext ==
  \/ \E v \in Voters, s \in BOOLEAN : CreateProposal(v, s)
  \/ \E v \in Voters, p \in Ids, agree \in BOOLEAN : Vote(v, p, agree)
  \/ \E v \in Voters : ClaimVoteTokens(v)
  \/ \E p \in Ids : ExecuteProposal(p)

\* The weight of a proposal that is still open is locked.  Violated: the record of a voter
\* names its last proposal only, so that executing that one frees the coins that count for
\* the first as well.
OpenVotesAreLocked ==
  \A p \in Ids : proposals[p].stage = "open" =>
    proposals[p].votes_for + proposals[p].votes_against <= SumFunction(locked)
=============================================================================

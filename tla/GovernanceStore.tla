--------------------------- MODULE GovernanceStore ---------------------------
(****************************************************************************)
(* GovernanceManager (governance/governance/src/lib.rs), as the API of a     *)
(* node calls it: proposals and vote receipts in the database of the node,   *)
(* weighed by the coin stores that the executor writes there.  The API holds *)
(* one mutex over a call.  Puts of one call are single steps, a process may  *)
(* end between any two, and what it finds again is the database as it was    *)
(* after some put, for the log of the database is not flushed                *)
(* (common/storage/src/lib.rs).                                              *)
(*                                                                          *)
(* A voter is the text that the caller names it with.  Its receipt is kept   *)
(* under that text, and its weight is read from the coin store of the text   *)
(* padded with zeros to 64 digits, so that one account has many names.  The  *)
(* sums yes_votes and no_votes are kept by name.                             *)
(****************************************************************************)
EXTENDS Integers, FiniteSetsExt

CONSTANTS
  Holders,          \* accounts with a coin store
  Names,            \* texts that callers name a voter or a proposer with
  PaddedTo,         \* query_move_vm_balance: the account that each name is padded to
  Proposals,        \* identifiers, chosen by the callers
  Balances,         \* each coin store at the start
  RequiredStake,    \* 10,000 AIN in the code
  MinimumQuorum,    \* 1,000,000 AIN in the code
  TimelockDelay,    \* a day in the code
  Durations,        \* voting periods asked for
  MaxTime,          \* bound
  MaxCreated,       \* bound: calls of create_proposal
  MaxCrashes        \* bound

ASSUME GovernanceAssumption ==
  /\ PaddedTo \in [Names -> Holders] /\ Balances \in [Holders -> Nat]
  /\ RequiredStake \in Nat /\ MinimumQuorum \in Nat /\ TimelockDelay \in Nat
  /\ Durations \subseteq Nat
  /\ MaxTime \in Nat /\ MaxCreated \in Nat /\ MaxCrashes \in Nat

VARIABLES
  disk,      \* proposals, receipts, and the proposal that has set the federation key, if any
  durable,   \* the database that a new process would find
  coins,     \* the balance in each coin store
  clock,
  call,      \* what the running call has still to save, or no call
  created,   \* history
  crashes,   \* history
  cast       \* history: the weights each name voted with, by proposal

govVars == <<disk, durable, coins, clock, call, created, crashes, cast>>

NoVotes    == [v \in Names |-> 0]
NoProposal == [status |-> "None", yes |-> NoVotes, no |-> NoVotes, end |-> 0, ready |-> 0, acts |-> FALSE]
NoCall     == [kind |-> "none", id |-> 0, proposal |-> NoProposal]

Total(votes) == MapThenSumSet(LAMBDA v : votes[v], Names)

Weight(v) == coins[PaddedTo[v]]

\* A put; whether the log has it on disk by the time the process ends is open.
Put(d) ==
  /\ disk' = d
  /\ durable' \in {durable, d}

\* The executor moves coins while proposals are open.
Transfer(a, b) ==
  /\ a # b /\ coins[a] > 0
  /\ coins' = [coins EXCEPT ![a] = 0, ![b] = @ + coins[a]]
  /\ UNCHANGED <<disk, durable, clock, call, created, crashes, cast>>

Tick ==
  /\ clock < MaxTime /\ clock' = clock + 1
  /\ UNCHANGED <<disk, durable, coins, call, created, crashes, cast>>

\* create_proposal puts a fresh proposal, over one of the same identifier even; the
\* receipts of its votes stay.
create_proposal(p, v, duration, acts) ==
  /\ call = NoCall /\ created < MaxCreated
  /\ Weight(v) >= RequiredStake
  /\ created' = created + 1
  /\ Put([disk EXCEPT !.proposals[p] = [status |-> "Active", yes |-> NoVotes, no |-> NoVotes,
                                        end |-> clock + duration, ready |-> 0, acts |-> acts]])
  /\ UNCHANGED <<coins, clock, call, crashes, cast>>

\* The proposal with the weight of v added to the side it votes for.
WithVote(pr, v, approve) ==
  IF approve THEN [pr EXCEPT !.yes[v] = @ + Weight(v)] ELSE [pr EXCEPT !.no[v] = @ + Weight(v)]

\* Seeded fault: the receipt is not looked at.
vote_again(p, v, approve) ==
  LET pr == disk.proposals[p] IN
  /\ call = NoCall /\ pr.status = "Active" /\ clock <= pr.end
  /\ Weight(v) > 0
  /\ Put([disk EXCEPT !.receipts[p] = @ \cup {v}])
  /\ call' = [kind |-> "save", id |-> p, proposal |-> WithVote(pr, v, approve)]
  /\ cast' = [cast EXCEPT ![p][v] = @ \cup {Weight(v)}]
  /\ UNCHANGED <<coins, clock, created, crashes>>

\* vote: all its checks, then the receipt; the proposal as it was read, with the weight
\* added, is saved next.
vote(p, v, approve) ==
  LET pr == disk.proposals[p] IN
  /\ call = NoCall /\ pr.status = "Active" /\ clock <= pr.end
  /\ v \notin disk.receipts[p] /\ Weight(v) > 0
  /\ Put([disk EXCEPT !.receipts[p] = @ \cup {v}])
  /\ call' = [kind |-> "save", id |-> p, proposal |-> WithVote(pr, v, approve)]
  /\ cast' = [cast EXCEPT ![p][v] = @ \cup {Weight(v)}]
  /\ UNCHANGED <<coins, clock, created, crashes>>

\* save_proposal at the end of vote and of execute_proposal.
save_proposal ==
  /\ call # NoCall
  /\ Put([disk EXCEPT !.proposals[call.id] = call.proposal])
  /\ call' = NoCall
  /\ UNCHANGED <<coins, clock, created, crashes, cast>>

\* tally decides an active proposal whose end has come.
tally(p) ==
  LET pr == disk.proposals[p]
      won == Total(pr.yes) + Total(pr.no) >= MinimumQuorum /\ Total(pr.yes) > Total(pr.no) IN
  /\ call = NoCall /\ pr.status = "Active" /\ clock >= pr.end
  /\ Put([disk EXCEPT !.proposals[p] =
            IF won THEN [pr EXCEPT !.status = "Queued", !.ready = clock + TimelockDelay]
                   ELSE [pr EXCEPT !.status = "Rejected"]])
  /\ UNCHANGED <<coins, clock, call, created, crashes, cast>>

\* execute_proposal: the action is put first, the status after it.
execute_proposal(p) ==
  LET pr == disk.proposals[p] IN
  /\ call = NoCall /\ pr.status = "Queued" /\ clock >= pr.ready
  /\ IF pr.acts THEN Put([disk EXCEPT !.key = {p}]) ELSE UNCHANGED <<disk, durable>>
  /\ call' = [kind |-> "save", id |-> p, proposal |-> [pr EXCEPT !.status = "Executed"]]
  /\ UNCHANGED <<coins, clock, created, crashes, cast>>

Crash ==
  /\ crashes < MaxCrashes /\ crashes' = crashes + 1
  /\ disk' = durable /\ call' = NoCall
  /\ UNCHANGED <<durable, coins, clock, created, cast>>

GovInit ==
  /\ disk = [proposals |-> [p \in Proposals |-> NoProposal], receipts |-> [p \in Proposals |-> {}], key |-> {}]
  /\ durable = disk
  /\ coins = Balances
  /\ clock = 0 /\ call = NoCall /\ created = 0 /\ crashes = 0
  /\ cast = [p \in Proposals |-> [v \in Names |-> {}]]

GovNext ==
  \/ \E p \in Proposals, v \in Names :
       \/ \E d \in Durations, acts \in BOOLEAN : create_proposal(p, v, d, acts)
       \/ \E approve \in BOOLEAN : vote(p, v, approve)
  \/ save_proposal
  \/ \E p \in Proposals : tally(p) \/ execute_proposal(p)
  \/ \E a, b \in Holders : Transfer(a, b)
  \/ Tick
  \/ Crash

GovSpec == GovInit /\ [][GovNext]_govVars

----------------------------------------------------------------------------
(* Properties, of the database now and of what a new process would find. *)

Proposal == [status : {"None", "Active", "Queued", "Rejected", "Executed"},
             yes : [Names -> Nat], no : [Names -> Nat],
             end : Nat, ready : Nat, acts : BOOLEAN]
Database == [proposals : [Proposals -> Proposal], receipts : [Proposals -> SUBSET Names],
             key : SUBSET Proposals]

GovTypeOK ==
  /\ disk \in Database /\ durable \in Database
  /\ coins \in [Holders -> Nat] /\ clock \in Nat /\ created \in Nat /\ crashes \in Nat
  /\ call = NoCall \/ call \in [kind : {"save"}, id : Proposals, proposal : Proposal]
  /\ cast \in [Proposals -> [Names -> SUBSET Nat]]

\* What a proposal counts for a name is one of the weights it voted with, on one side
\* only, and only with a receipt.
Counts(pr, receipts, weights) ==
  \A v \in Names :
    /\ pr.yes[v] = 0 \/ pr.no[v] = 0
    /\ pr.yes[v] + pr.no[v] # 0 => v \in receipts /\ pr.yes[v] + pr.no[v] \in weights[v]

CountedOnce(d) == \A p \in Proposals : Counts(d.proposals[p], d.receipts[p], cast[p])

\* A proposal created again or a process that ends in the middle of a vote lets no name
\* count twice.
BallotsCountedOnce == CountedOnce(disk) /\ CountedOnce(durable)

\* Not so, although vote says "Check for Double Voting" and reads a balance that is
\* "authoritative": no account counts under two of its names.
AccountsCountOnce ==
  \A p \in Proposals : \A v, w \in Names :
    LET pr == disk.proposals[p] IN
      PaddedTo[v] = PaddedTo[w] /\ pr.yes[v] + pr.no[v] # 0 /\ pr.yes[w] + pr.no[w] # 0 => v = w

\* What a call has still to save counts the same.
SavesCounted ==
  call # NoCall => Counts(call.proposal, disk.receipts[call.id], cast[call.id])

GovInv == GovTypeOK /\ BallotsCountedOnce /\ SavesCounted
=============================================================================

------------------------------ MODULE Governance ------------------------------
(***************************************************************************)
(* governance.py of membra-l3: proposals justified by proof book entries,  *)
(* a vote weighted by voting power, and the decision.  Of the proof book   *)
(* only its length and the position of an entry matter: propose looks for  *)
(* its proofs among the latest ProposalWindow entries of any type.  Powers *)
(* are in tenths, so the quorum of 0.2 is QuorumTenths = 2.                *)
(***************************************************************************)
EXTENDS Integers, Sequences, Functions

CONSTANTS
  Voters, Powers,
  ProposalWindow,  \* the limit of get_entries in propose
  VotingWindow,    \* voting_window_seconds
  MaxClock, MaxProposals, MaxBook   \* bounds

ASSUME GovernanceAssumption ==
  /\ Powers \subseteq Nat
  /\ {VotingWindow, MaxClock, MaxProposals, MaxBook} \subseteq Nat

QuorumTenths == 2

VARIABLES
  clock,
  entries,    \* the length of the proof book
  proposals,  \* _proposals, in order of creation
  power       \* _voting_power

govVars == <<clock, entries, proposals, power>>

VoteChoice == {"for", "against", "abstain"}
ProposalStatus == {"review", "voting", "approved", "rejected", "executed"}
Decided == {"approved", "rejected", "executed"}

GovInit ==
  /\ clock = 0
  /\ entries = 0
  /\ proposals = <<>>
  /\ power = [v \in Voters |-> 0]

GovTick == clock < MaxClock /\ clock' = clock + 1 /\ UNCHANGED <<entries, proposals, power>>

\* Every other component appends to the same book.
OthersLog == entries < MaxBook /\ entries' = entries + 1 /\ UNCHANGED <<clock, proposals, power>>

SetVotingPower(v, p) == power' = [power EXCEPT ![v] = p] /\ UNCHANGED <<clock, entries, proposals>>

\* Bounded: the book grows by one with every logged action.
Log == entries < MaxBook /\ entries' = entries + 1

\* The hashes propose can find.
Found(proof) == proof \in 1 .. entries /\ proof > entries - ProposalWindow

\* propose: a missing proof raises before anything is stored; an empty list of
\* proofs is accepted.  It starts in review, and review_ends_at is never read.
Propose(proofs) ==
  /\ Len(proposals) < MaxProposals
  /\ \A p \in proofs : Found(p)
  /\ proposals' = Append(proposals, [status |-> "review", votes |-> <<>>, ends |-> 0, proofs |-> proofs])
  /\ Log
  /\ UNCHANGED <<clock, power>>

StartVoting(i) ==
  /\ proposals[i].status = "review"
  /\ proposals' = [proposals EXCEPT ![i] = [@ EXCEPT !.status = "voting", !.ends = clock + VotingWindow]]
  /\ UNCHANGED <<clock, entries, power>>

HasVoted(i, voter) == \E k \in DOMAIN proposals[i].votes : proposals[i].votes[k].voter = voter

\* Mutant: a vote is taken until the proposal is executed.
OpenLate(i) == proposals[i].status \in {"voting", "approved", "rejected"}

\* The status test of vote; voting_ends_at is not looked at, so votes are taken
\* until somebody finalizes.
OpenForVotes(i) == proposals[i].status = "voting"

\* Mutant: a voter whose power was raised may vote again.
VoteAgain(i, voter, choice) ==
  /\ OpenForVotes(i)
  /\ \A k \in DOMAIN proposals[i].votes :
       proposals[i].votes[k] # [voter |-> voter, choice |-> choice, weight |-> power[voter]]
  /\ power[voter] > 0
  /\ proposals' = [proposals EXCEPT ![i].votes =
       Append(@, [voter |-> voter, choice |-> choice, weight |-> power[voter]])]
  /\ Log
  /\ UNCHANGED <<clock, power>>

\* vote, with the power the voter has now.
Vote(i, voter, choice) ==
  /\ OpenForVotes(i)
  /\ ~ HasVoted(i, voter)
  /\ power[voter] > 0
  /\ proposals' = [proposals EXCEPT ![i].votes =
       Append(@, [voter |-> voter, choice |-> choice, weight |-> power[voter]])]
  /\ Log
  /\ UNCHANGED <<clock, power>>

\* tally, one choice.
Tally(i, choice) ==
  LET votes == proposals[i].votes
  IN  SumFunctionOnSet([k \in DOMAIN votes |-> votes[k].weight], {k \in DOMAIN votes : votes[k].choice = choice})

\* is_approved divides by the votes for and against; with abstentions only it
\* raises ZeroDivisionError once the quorum is met.
Quorate(i) == Tally(i, "for") + Tally(i, "against") + Tally(i, "abstain") >= QuorumTenths
Raises(i) == Quorate(i) /\ Tally(i, "for") + Tally(i, "against") = 0
IsApproved(i) ==
  /\ Quorate(i)
  /\ 10 * Tally(i, "for") >= 6 * (Tally(i, "for") + Tally(i, "against"))

\* finalize; when is_approved raises nothing has been changed.
Finalize(i) ==
  /\ proposals[i].status = "voting"
  /\ clock >= proposals[i].ends
  /\ ~ Raises(i)
  /\ proposals' = [proposals EXCEPT ![i].status = IF IsApproved(i) THEN "approved" ELSE "rejected"]
  /\ Log
  /\ UNCHANGED <<clock, power>>

Execute(i) ==
  /\ proposals[i].status = "approved"
  /\ proposals' = [proposals EXCEPT ![i].status = "executed"]
  /\ Log
  /\ UNCHANGED <<clock, power>>

GovNext ==
  \/ GovTick \/ OthersLog
  \/ \E v \in Voters, p \in Powers : SetVotingPower(v, p)
  \/ \E proofs \in {{}} \cup {{p} : p \in 1 .. entries} : Propose(proofs)
  \/ \E i \in DOMAIN proposals :
       \/ StartVoting(i) \/ Finalize(i) \/ Execute(i)
       \/ \E v \in Voters, c \in VoteChoice : Vote(i, v, c)

GovSpec == GovInit /\ [][GovNext]_govVars
-----------------------------------------------------------------------------
(* Properties *)

\* The ranges of the fields.
GovTypeOK ==
  /\ clock \in 0 .. MaxClock
  /\ entries \in 0 .. MaxBook
  /\ power \in [Voters -> Powers \cup {0}]
  /\ \A i \in DOMAIN proposals : proposals[i].status \in ProposalStatus

\* The weight each side has when every voter is counted once.
SideOf(i, choice) ==
  {k \in DOMAIN proposals[i].votes :
     /\ proposals[i].votes[k].choice = choice
     /\ \A m \in 1 .. k - 1 : proposals[i].votes[m].voter # proposals[i].votes[k].voter}
Weight(i, choice) ==
  SumFunctionOnSet([k \in DOMAIN proposals[i].votes |-> proposals[i].votes[k].weight], SideOf(i, choice))

\* The decision is that of the votes on record: an approved or executed proposal
\* has three fifths of the weight that took sides, over a quorum, with every
\* voter counted once at the power it had when it voted, and a rejected one does
\* not, although powers change while the vote is open.  A vote cast after
\* voting_ends_at and before finalize is on record and counts, and power that is
\* moved from one voter to another between their votes counts for both.
DecidedByVotes ==
  \A i \in DOMAIN proposals :
    LET yes == Weight(i, "for")  no == Weight(i, "against")  all == yes + no + Weight(i, "abstain") IN
    proposals[i].status \in Decided =>
      (proposals[i].status # "rejected" <=> all >= QuorumTenths /\ yes > 0 /\ 5 * yes >= 3 * (yes + no))

\* Nothing about a decided proposal changes but its execution, and what is
\* executed was approved in an earlier step: the votes on record are the votes
\* that were judged.
DecisionKept ==
  [][\A i \in DOMAIN proposals :
       proposals[i].status \in Decided =>
         /\ proposals'[i].votes = proposals[i].votes
         /\ proposals'[i].status # proposals[i].status =>
              proposals[i].status = "approved" /\ proposals'[i].status = "executed"]_govVars
=============================================================================

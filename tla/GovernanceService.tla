------------------------- MODULE GovernanceService -------------------------
(***************************************************************************)
(* Off-chain votes of the back end (backend/apps/src/governance).          *)
(*                                                                         *)
(* Proposals and votes live in the memory of the process: the proposals    *)
(* are the built-in ones and a restart forgets every vote.  castVote       *)
(* awaits only values that are already there, so no other request runs     *)
(* between its checks and addVote and the call is one action.  A voter who *)
(* voted before is looked up among the last RecentVotes votes only.  Each  *)
(* vote weighs what the caller says.                                       *)
(***************************************************************************)
EXTENDS Naturals, SequencesExt

CONSTANTS
    Proposals,      \* the built-in proposals
    Active,         \* those whose status is "active"
    Voters, Weights,
    RecentVotes,    \* 20
    MaxVotes, MaxVoteTime, VotingEnds       \* bounds

ASSUME GovernanceAssumption ==
    /\ Active \subseteq Proposals /\ Weights \subseteq Nat
    /\ RecentVotes \in Nat /\ MaxVotes \in Nat /\ MaxVoteTime \in Nat

VARIABLES votes, tally, voteTime

govVars == <<votes, tally, voteTime>>

Vote == [voter : Voters, support : BOOLEAN, weight : Weights]

GovTypeOK ==
    /\ \A p \in Proposals : \A i \in DOMAIN votes[p] : votes[p][i] \in Vote
    /\ tally \in [Proposals -> [for : Nat, against : Nat]]

GovInit ==
    /\ votes = [p \in Proposals |-> <<>>]
    /\ tally = [p \in Proposals |-> [for |-> 0, against |-> 0]]
    /\ voteTime = 0

\* Mutant: the oldest votes are read, not the latest.
Oldest(p) == SubSeq(votes[p], 1, Min({RecentVotes, Len(votes[p])}))

Recent(p) ==
    LET n == Len(votes[p])
    IN  SubSeq(votes[p], IF n > RecentVotes THEN n - RecentVotes + 1 ELSE 1, n)

HasVoted(voter, p) == \E i \in DOMAIN Recent(p) : Recent(p)[i].voter = voter

AddVote(p, vote) ==
    /\ votes' = [votes EXCEPT ![p] = Append(@, vote)]
    /\ tally' = IF vote.support
                THEN [tally EXCEPT ![p].for = @ + vote.weight]
                ELSE [tally EXCEPT ![p].against = @ + vote.weight]

CastVote(p, voter, support, weight) ==
    /\ Len(votes[p]) < MaxVotes
    /\ p \in Active
    /\ voteTime <= VotingEnds
    /\ ~HasVoted(voter, p)
    /\ AddVote(p, [voter |-> voter, support |-> support, weight |-> weight])
    /\ UNCHANGED voteTime

GovRestart ==
    /\ votes # [p \in Proposals |-> <<>>]
    /\ votes' = [p \in Proposals |-> <<>>]
    /\ tally' = [p \in Proposals |-> [for |-> 0, against |-> 0]]
    /\ UNCHANGED voteTime

GovTick ==
    /\ voteTime < MaxVoteTime
    /\ voteTime' = voteTime + 1
    /\ UNCHANGED <<votes, tally>>

GovNext ==
    \/ \E p \in Proposals, v \in Voters, s \in BOOLEAN, w \in Weights :
          CastVote(p, v, s, w)
    \/ GovRestart
    \/ GovTick

-----------------------------------------------------------------------------
\* The units of weight cast for one side, and their number.
Ballots(p, support) ==
    UNION { {i} \X (1 .. votes[p][i].weight) :
               i \in { j \in DOMAIN votes[p] : votes[p][j].support = support } }
Cast(p, support) == Cardinality(Ballots(p, support))

(***************************************************************************)
(* "Voter ... has already voted", governance.service.ts:27: the check sees *)
(* the last twenty votes, so among any twenty-one consecutive votes nobody *)
(* occurs twice - and only that: a voter may return after twenty others.   *)
(* The tallies are the votes of this process, each counted once and on its *)
(* own side.                                                               *)
(***************************************************************************)
RecentVotersCountOnce ==
    \A p \in Proposals :
        /\ \A i, j \in DOMAIN votes[p] :
              i < j /\ j <= i + RecentVotes => votes[p][i].voter # votes[p][j].voter
        /\ tally[p] = [for |-> Cast(p, TRUE), against |-> Cast(p, FALSE)]
=============================================================================

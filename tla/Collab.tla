-------------------------------- MODULE Collab --------------------------------
(***************************************************************************)
(* CollabService: proposals, their options and the votes on them.  (Its    *)
(* comments are in Itinerary.)  A vote is a toggle: it looks for the       *)
(* user's vote and removes the one it found, or inserts one.  No operation *)
(* closes a proposal; the seeded one is closed from the start.             *)
(***************************************************************************)
EXTENDS TripCalls

CONSTANTS ProposalKeys, OptionKeys, VoteKeys, Voters,
          ClosedProposal, ClosedOption  \* one proposal and its option, as seed.ts makes them

ASSUME CollabAssumption ==
  /\ ProposalKeys \cup OptionKeys \cup VoteKeys \subseteq Keys
  /\ ClosedProposal \in ProposalKeys /\ ClosedOption \in OptionKeys
  /\ None \notin Voters

ProposalStatus == {"OPEN", "CLOSED"}
Proposal == [status : ProposalStatus]
ProposalOption == [proposal : ProposalKeys]
Vote == [option : OptionKeys, user : Voters]

CollabSteps == {"proposal.publish", "option.save", "option.publish",
                "vote.find", "vote.remove", "vote.save", "vote.publish"}

IsOpen(p) == row[p] # None /\ row[p].status = "OPEN"

VotesOf(v) == {k \in VoteKeys : row[k] = v}

-----------------------------------------------------------------------------
ProposalCreate(q, k) ==
  LET proposal == [status |-> "OPEN"] IN
  /\ Begin(q, "proposal.publish", [NoLocals EXCEPT !.op = "PROPOSAL_CREATED", !.key = k,
                                     !.copy = proposal])
  /\ Insert(k, proposal)
  /\ UNCHANGED told

\* addOption(): 404 without the proposal, 400 when it is closed.
OptionFind(q, p) ==
  /\ IsOpen(p)
  /\ Begin(q, "option.save", [NoLocals EXCEPT !.op = "PROPOSAL_OPTION_CREATED",
                                !.copy = [proposal |-> p]])
  /\ UNCHANGED tableVars

OptionSave(q, k) ==
  /\ pc[q] = "option.save"
  /\ Insert(k, loc[q].copy)
  /\ GoWith(q, "option.publish", [loc[q] EXCEPT !.key = k])
  /\ UNCHANGED told

\* Mutant: only the option is looked up.
VoteCheckOption(q, u, o) ==
  /\ row[o] # None
  /\ Begin(q, "vote.find", [NoLocals EXCEPT !.op = "VOTE_TOGGLED",
                              !.copy = [option |-> o, user |-> u]])
  /\ UNCHANGED tableVars

\* vote(): the option and its proposal, which must be open; neither changes.
VoteCheck(q, u, o) ==
  /\ row[o] # None /\ IsOpen(row[o].proposal)
  /\ Begin(q, "vote.find", [NoLocals EXCEPT !.op = "VOTE_TOGGLED",
                              !.copy = [option |-> o, user |-> u]])
  /\ UNCHANGED tableVars

VoteFind(q) ==
  /\ pc[q] = "vote.find"
  /\ IF VotesOf(loc[q].copy) = {}
     THEN GoWith(q, "vote.save", loc[q])
     ELSE \E k \in VotesOf(loc[q].copy) :
            GoWith(q, "vote.remove", [loc[q] EXCEPT !.key = k, !.copy = None])
  /\ UNCHANGED tableVars

VoteRemove(q) ==
  /\ pc[q] = "vote.remove"
  /\ RemoveRow(loc[q].key)
  /\ GoWith(q, "vote.publish", loc[q])
  /\ UNCHANGED told

\* uq_vote_option_user refuses a second vote of one user on one option.
VoteSave(q, k) ==
  /\ pc[q] = "vote.save"
  /\ IF VotesOf(loc[q].copy) = {}
     THEN Insert(k, loc[q].copy) /\ GoWith(q, "vote.publish", [loc[q] EXCEPT !.key = k])
     ELSE End(q) /\ UNCHANGED <<row, used>>
  /\ UNCHANGED told

CollabNext ==
  \E q \in Calls :
    \/ \E k \in ProposalKeys : ProposalCreate(q, k) \/ OptionFind(q, k)
    \/ \E k \in OptionKeys : OptionSave(q, k) \/ \E u \in Voters : VoteCheck(q, u, k)
    \/ \E k \in VoteKeys : VoteSave(q, k)
    \/ VoteFind(q) \/ VoteRemove(q)
    \/ Publish(q, "proposal.publish") \/ Publish(q, "option.publish")
    \/ Publish(q, "vote.publish")
=============================================================================

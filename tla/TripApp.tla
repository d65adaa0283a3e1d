------------------------------- MODULE TripApp -------------------------------
(***************************************************************************)
(* The parts around a trip's contents: the services that share the calling *)
(* machinery of TripCalls, the reminder jobs, the seeding script, and on   *)
(* the client the query cache and the selection of workspace and trip.     *)
(* They meet in no variable, except that the itinerary is split in two     *)
(* ("days" moves items between days, "items" attaches bookings to items    *)
(* and comments on them), so that an interleaving of two parts shows       *)
(* nothing that each does not show alone: a behaviour exercises one part,  *)
(* chosen at the start.                                                    *)
(***************************************************************************)
EXTENDS Tasks, Documents, Itinerary, Collab, Rules, Reminders, Seed, QueryCache, Selection

VARIABLE part

otherVars == <<remVars, seedVars, cacheVars, selVars>>
serviceVars == <<tableVars, callVars, turned, stored, ruleVars>>
appVars == <<serviceVars, otherVars, part>>

CallParts == {"tasks", "documents", "days", "items", "collab", "rules"}
Parts == CallParts \cup {"reminders", "seed", "cache", "selection"}

(* The item that rules are evaluated on, and a proposal that was closed     *)
(* when the database was seeded, are there from the start.                  *)
InitialRow(k) ==
  CASE part = "rules" /\ k = EvaluatedItem -> [day |-> None, booking |-> None]
    [] part = "collab" /\ k = ClosedProposal -> [status |-> "CLOSED"]
    [] part = "collab" /\ k = ClosedOption -> [proposal |-> ClosedProposal]
    [] OTHER -> None

ServicesInit ==
  /\ row = [k \in Keys |-> InitialRow(k)]
  /\ used = {k \in Keys : InitialRow(k) # None}
  /\ told = [k \in Keys |-> [type |-> "none", row |-> InitialRow(k)]]
  /\ CallsInit
  /\ turned = {} /\ stored = {}
  /\ rules = {} /\ upserts = 0 /\ last = {} /\ misjudged = {}

\* What a part may choose at its start is fixed while another is exercised.
AppInit(exercised) ==
  /\ part \in exercised
  /\ ServicesInit
  /\ RemindersInit
  /\ part # "reminders" => utcOffset = CHOOSE c \in Clocks : TRUE
  /\ SeedInit
  /\ CacheInit
  /\ part # "cache" => /\ watched = CHOOSE key \in WatchedKeys : TRUE
                       /\ page = "/"
  /\ SelectionInit
  /\ part # "selection" => founded = {}

ServicesNext ==
  \/ part = "tasks" /\ TaskNext /\ UNCHANGED <<stored, ruleVars>>
  \/ part = "documents" /\ DocNext /\ UNCHANGED <<turned, ruleVars>>
  \/ part = "days" /\ (DayNext \/ ItemNext) /\ UNCHANGED <<turned, stored, ruleVars>>
  \/ part = "items" /\ (ItemNext \/ AttachNext \/ CommentNext)
                    /\ UNCHANGED <<turned, stored, ruleVars>>
  \/ part = "collab" /\ CollabNext /\ UNCHANGED <<turned, stored, ruleVars>>
  \/ part = "rules" /\ RuleNext /\ UNCHANGED <<turned, stored>>
  \/ \E Q \in SUBSET Calls : Cut(Q) /\ UNCHANGED <<turned, stored, ruleVars>>

OthersNext ==
  \/ part = "reminders" /\ RemindersNext /\ UNCHANGED <<seedVars, cacheVars, selVars>>
  \/ part = "seed" /\ SeedNext /\ UNCHANGED <<remVars, cacheVars, selVars>>
  \/ part = "cache" /\ CacheNext /\ UNCHANGED <<remVars, seedVars, selVars>>
  \/ part = "selection" /\ SelectionNext /\ UNCHANGED <<remVars, seedVars, cacheVars>>

AppNext ==
  /\ \/ ServicesNext /\ UNCHANGED otherVars
     \/ OthersNext /\ UNCHANGED serviceVars
  /\ UNCHANGED part

AppSpec == AppInit(Parts) /\ [][AppNext]_appVars

\* The days and items of the itinerary alone.
ItinerarySpec == AppInit({"days"}) /\ [][AppNext]_appVars

-----------------------------------------------------------------------------
Tables ==
  [k \in Keys |->
     CASE k \in TaskKeys -> Task
       [] k \in DocKeys -> Document
       [] k \in DayKeys -> ItineraryDay
       [] k \in ItemKeys -> ItineraryItem
       [] k \in CommentKeys -> Comment
       [] k \in ProposalKeys -> Proposal
       [] k \in OptionKeys -> ProposalOption
       [] k \in VoteKeys -> Vote
       [] k = RuleSetKey -> RuleSet
       [] k \in EvaluationKeys -> RuleEvaluation]

\* A key is one of one table; the item that rules are evaluated on is an item.
ASSUME TripAppAssumption ==
  /\ LET tables == <<TaskKeys, DocKeys, DayKeys, ItemKeys, CommentKeys, ProposalKeys, OptionKeys,
                     VoteKeys, {RuleSetKey}, EvaluationKeys>>
     IN \A i, j \in 1..Len(tables) : i # j => tables[i] \cap tables[j] = {}
  /\ EvaluatedItem \in ItemKeys

CallSteps == {"idle"} \cup TaskSteps \cup DocSteps \cup DaySteps \cup ItemSteps
               \cup CommentSteps \cup CollabSteps \cup RuleSteps

AppTypeOK ==
  /\ \A k \in Keys : row[k] # None => row[k] \in Tables[k] /\ k \in used
  /\ used \subseteq Keys
  /\ \A k \in Keys : told[k].row # None => told[k].row \in Tables[k]
  /\ pc \in [Calls -> CallSteps]
  /\ \A q \in Calls : LET c == loc[q] IN
       /\ pc[q] # "idle" /\ c.key # None => /\ c.key \in Keys
                                            /\ c.copy # None => c.copy \in Tables[c.key]
       /\ c.gone \subseteq used
  /\ cuts \in 0..MaxCuts
  /\ disturbed \in BOOLEAN
  /\ turned \subseteq TaskKeys
  /\ stored \subseteq DocKeys
  /\ rules \subseteq RuleRow /\ last \subseteq RuleRow
  /\ upserts \in 0..MaxUpserts
  /\ misjudged \subseteq EvaluationKeys
  /\ RemindersTypeOK
  /\ seeding \in BOOLEAN /\ saved \in 0..Len(Saves)
  /\ CacheTypeOK
  /\ SelectionTypeOK

(* updateTask, updateDocument, updateItem and attachBookingToItineraryItem  *)
(* save the row that they have read, which inserts it again when it was     *)
(* deleted meanwhile.  However calls overlap or fail, a call never brings   *)
(* back a row that was deleted before the call began.                       *)
DeletedStaysDeleted ==
  [][\A k \in used : row[k] = None /\ row'[k] # None =>
       \A q \in Calls : loc'[q] # loc[q] => k \notin loc[q].gone]_appVars

(* What the services tell the audit log and the members is so: when calls   *)
(* are made one at a time and are done, the last event about each row says  *)
(* what the row is, whether that it was created, changed, voted for or      *)
(* deleted.  Two exceptions: a comment whose item was deleted later, and an *)
(* item taken off its day (see UnassignedIsOnNoDay).  And a task is told to *)
(* be completed exactly if its last save completed it.                      *)
LastEventTrue ==
  ~disturbed /\ Quiescent =>
    /\ \A k \in used : \/ told[k].row = row[k]
                      \/ /\ k \in CommentKeys
                         /\ row[k].item = None /\ told[k].row.item \in Gone
                      \/ /\ k \in ItemKeys /\ None \notin {row[k], told[k].row}
                         /\ told[k].row = [row[k] EXCEPT !.day = None]
    /\ CompletionTold

(* Whatever overlaps or fails, no row refers to one that is not there: an   *)
(* item's day, a comment's item, an option's proposal, a vote's option.     *)
(* Nobody votes, or adds options, where the proposal is closed.             *)
ReferencesHold ==
  /\ \A k \in ItemKeys : row[k] # None => row[k].day \in Days \cup {None}
  /\ \A k \in CommentKeys : row[k] # None /\ row[k].item # None => row[row[k].item] # None
  /\ \A k \in OptionKeys \ {ClosedOption} : row[k] # None => IsOpen(row[k].proposal)
  /\ \A k \in VoteKeys : row[k] # None =>
       row[row[k].option] # None /\ IsOpen(row[row[k].option].proposal)
  /\ SeedReferencesHold
=============================================================================

--------------------------------- MODULE Rules ---------------------------------
(***************************************************************************)
(* RulesService: the one rule set of a trip and its evaluation.  An upsert *)
(* deletes all rules and inserts the request's; an evaluation reads item,  *)
(* rule set and rules one after another.  Every violation is a warning, so *)
(* that an evaluation always passes; what matters is which rules it finds  *)
(* violated.                                                               *)
(***************************************************************************)
EXTENDS TripCalls

CONSTANTS RuleSetKey, EvaluationKeys, EvaluatedItem,
          Requests,   \* bound: the rule lists that requests bring
          MaxUpserts  \* bound: upserts that insert their rules

RuleType == {"VEG_ONLY", "BUDGET_MAX_PER_PERSON", "NO_REDEYE"}

\* The types that the evaluation can find violated.
Enforced == {"VEG_ONLY", "BUDGET_MAX_PER_PERSON"}

Rule == [type : RuleType, enabled : BOOLEAN]

ASSUME RulesAssumption ==
  /\ {RuleSetKey, EvaluatedItem} \cup EvaluationKeys \subseteq Keys
  /\ Requests \subseteq SUBSET Rule
  /\ MaxUpserts \in Nat

VARIABLES
  rules,     \* the rules table: rules with the number of the upsert that inserted them
  upserts,   \* how many upserts have inserted their rules
  last,      \* history: the rows that the latest upsert inserted
  misjudged  \* history: evaluations that do not follow from these rows

ruleVars == <<rules, upserts, last, misjudged>>

RuleRow == [rule : Rule, by : 1..MaxUpserts]
RuleSet == {"a rule set"}
RuleEvaluation == [violations : SUBSET Enforced]

RuleSteps == {"rules.set", "rules.delete", "rules.save", "rules.publish",
              "eval.set", "eval.rules", "eval.save", "eval.publish"}

-----------------------------------------------------------------------------
\* upsertRuleSet(): looks for the rule set of the trip.
UpsertFind(q, request) ==
  /\ Begin(q, "rules.set", [NoLocals EXCEPT !.op = "RULESET_UPSERTED", !.key = RuleSetKey,
                              !.copy = row[RuleSetKey], !.input = request])
  /\ UNCHANGED <<tableVars, ruleVars>>

\* Inserts it, unless another call has done so since (uq_rule_set_trip), or saves it.
UpsertSet(q) ==
  LET set == "a rule set" IN
  /\ pc[q] = "rules.set"
  /\ IF loc[q].copy = None
     THEN IF row[RuleSetKey] = None
          THEN Insert(RuleSetKey, set) /\ GoWith(q, "rules.delete", [loc[q] EXCEPT !.copy = set])
          ELSE End(q) /\ UNCHANGED <<row, used>>
     ELSE SaveBack(RuleSetKey, loc[q].copy) /\ GoWith(q, "rules.delete", loc[q])
  /\ UNCHANGED <<told, ruleVars>>

\* Mutant: the rules in the table are kept.
UpsertDeleteNothing(q) ==
  /\ pc[q] = "rules.delete"
  /\ GoWith(q, "rules.save", loc[q])
  /\ UNCHANGED <<tableVars, ruleVars>>

UpsertDelete(q) ==
  /\ pc[q] = "rules.delete"
  /\ rules' = {}
  /\ GoWith(q, "rules.save", loc[q])
  /\ UNCHANGED <<tableVars, upserts, last, misjudged>>

\* save(array): all the rules in one transaction.
UpsertSave(q) ==
  LET rows == [rule : loc[q].input, by : {upserts + 1}] IN
  /\ pc[q] = "rules.save" /\ upserts < MaxUpserts
  /\ rules' = rules \cup rows
  /\ last' = rows
  /\ upserts' = upserts + 1
  /\ GoWith(q, "rules.publish", loc[q])
  /\ UNCHANGED <<tableVars, misjudged>>

-----------------------------------------------------------------------------
\* evaluateItineraryItem(): the item, of which only matters which rules its
\* type and cost break.
EvalItem(q, broken) ==
  /\ row[EvaluatedItem] # None
  /\ Begin(q, "eval.set", [NoLocals EXCEPT !.op = "RULES_EVALUATED", !.input = broken])
  /\ UNCHANGED <<tableVars, ruleVars>>

\* "No rule set configured."
EvalSet(q) ==
  /\ pc[q] = "eval.set"
  /\ IF row[RuleSetKey] = None THEN End(q) ELSE GoWith(q, "eval.rules", loc[q])
  /\ UNCHANGED <<tableVars, ruleVars>>

Violations(rs, broken) == {r.rule.type : r \in {x \in rs : x.rule.enabled}} \cap broken

EvalRules(q) ==
  /\ pc[q] = "eval.rules"
  /\ GoWith(q, "eval.save",
            [loc[q] EXCEPT !.copy = [violations |-> Violations(rules, loc[q].input)]])
  /\ UNCHANGED <<tableVars, ruleVars>>

EvalSave(q, k) ==
  /\ pc[q] = "eval.save"
  /\ Insert(k, loc[q].copy)
  /\ misjudged' = IF loc[q].copy.violations = Violations(last, loc[q].input)
                  THEN misjudged ELSE misjudged \cup {k}
  /\ GoWith(q, "eval.publish", [loc[q] EXCEPT !.key = k])
  /\ UNCHANGED <<told, rules, upserts, last>>

RuleNext ==
  \E q \in Calls :
    \/ \E request \in Requests : UpsertFind(q, request)
    \/ \E broken \in SUBSET Enforced : EvalItem(q, broken)
    \/ \E k \in EvaluationKeys : EvalSave(q, k)
    \/ UpsertSet(q) \/ UpsertDelete(q) \/ UpsertSave(q) \/ EvalSet(q) \/ EvalRules(q)
    \/ (Publish(q, "rules.publish") \/ Publish(q, "eval.publish")) /\ UNCHANGED ruleVars
-----------------------------------------------------------------------------
(* upsertRuleSet replaces the rules in two steps without a transaction.     *)
(* Unless it is cut short, the rules of the upsert that inserted last are   *)
(* all there when the calls are done, even if upserts overlapped; and with  *)
(* one call at a time there are no others, and every evaluation is one of   *)
(* exactly these rules.                                                     *)
WholeRuleSet ==
  /\ cuts = 0 /\ Quiescent => last \subseteq rules
  /\ ~disturbed => misjudged = {} /\ (Quiescent => rules = last)
=============================================================================

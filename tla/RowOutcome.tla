---------------------------- MODULE RowOutcome -----------------------------
(***************************************************************************)
(* One Compliance Evaluation Run: every row of an Expense Report gets one  *)
(* Evaluation Outcome from the rules of a Compiled Rule Set                *)
(* (compliance_evaluation_runs/runner.py, evaluator.py, aggregation.py),   *)
(* and the page says why (compliance-evaluation-runs/, format.ts).         *)
(*                                                                         *)
(* Of a scope only the category is kept, every dimension is tested alike.  *)
(* key stands for the employee with the day or the trip of a row.  quote   *)
(* is how the citation of a rule relates to its statement: the same text,  *)
(* a part of it ("within"), more than it ("around"), other text ("apart"). *)
(* Exceptions without evidence fields are skipped by the code and are not  *)
(* in the model.                                                           *)
(***************************************************************************)
EXTENDS Naturals, Sequences, FiniteSets, SequencesExt

CONSTANTS RuleSets, \* sequences of entries of Compiled Rule Sets
          Reports,  \* sequences of expense rows
          None

(* A rule has one entry in a set.                                          *)
OutcomeAssumption ==
  /\ \A rs \in RuleSets :
       /\ rs \in Seq(ToSet(rs))
       /\ \A n \in DOMAIN rs : rs[n].id \in Nat /\ rs[n].limit \in Nat
       /\ \A n, m \in DOMAIN rs : rs[n].id = rs[m].id => n = m
       /\ \A n \in DOMAIN rs :
            None \notin [rule : {rs[n]}, suffixed : BOOLEAN, rows : SUBSET Nat,
                         verdict : {"violation", "missing_evidence", "needs_review"}]
  /\ \A rep \in Reports :
       rep \in Seq(ToSet(rep)) /\ \A i \in DOMAIN rep : rep[i].amount \in Nat

VARIABLES rules, report,
          windows, \* the candidates of the aggregation windows by row, or None
          outcomes \* of the rows evaluated so far
vars == <<rules, report, windows, outcomes>>
-----------------------------------------------------------------------------
(* What one rule says of one row.                                          *)
scope_matches(rule, row) == rule.category \in {None, row.category}
currency_mismatch(rule, row) == rule.currency \notin {None, row.currency}

(* The first exception decides.                                            *)
exception_outcome(rule, row) ==
  IF rule.exceptions = <<>> THEN "violation"
  ELSE IF rule.exceptions[1] \subseteq row.evidence THEN "pass"
  ELSE "missing_evidence"

IsMatch(verdict) == verdict # "pass"

Candidate(rule, verdict, suffixed, rows) ==
  [rule |-> rule, verdict |-> verdict, suffixed |-> suffixed, rows |-> rows]
RowMatch(rule, rep, i) ==
  LET row == rep[i]
      verdict == exception_outcome(rule, row)
  IN IF rule.status = "skipped"
     THEN IF scope_matches(rule, row)
          THEN <<Candidate(rule, "needs_review", TRUE, {})>> ELSE <<>>
     ELSE IF currency_mismatch(rule, row)
     THEN <<Candidate(rule, "needs_review", TRUE, {})>>
     ELSE IF rule.window \/ ~scope_matches(rule, row)
             \/ row.amount <= rule.limit \/ ~IsMatch(verdict)
     THEN <<>>
     ELSE <<Candidate(rule, verdict, FALSE, {})>>

(* A window: the rows of one key a rule with an aggregation period is for. *)
WindowOf(rule, rep, i) ==
  {j \in DOMAIN rep : rep[j].key = rep[i].key /\ scope_matches(rule, rep[j])
                      /\ ~currency_mismatch(rule, rep[j])}
Total(rep, S) == MapThenSumSet(LAMBDA j : rep[j].amount, S)
included_rows(rule, rep, i) == WindowOf(rule, rep, i)
WindowMatch(rule, rep, i) ==
  LET verdict == exception_outcome(rule, rep[i])
  IN IF rule.status = "compiled" /\ rule.window
        /\ i \in WindowOf(rule, rep, i)
        /\ Total(rep, WindowOf(rule, rep, i)) > rule.limit
        /\ IsMatch(verdict)
     THEN <<Candidate(rule, verdict, FALSE, included_rows(rule, rep, i))>>
     ELSE <<>>
-----------------------------------------------------------------------------
EvaluableEntries(rs) ==
  FlattenSeq([n \in DOMAIN rs |->
                IF rs[n].status # "compile_error" THEN <<rs[n]>> ELSE <<>>])
Aggregated(rs, rep) ==
  [i \in DOMAIN rep |->
     FlattenSeq([n \in DOMAIN rs |-> WindowMatch(rs[n], rep, i)])]
Candidates(rs, rep, extra, i) ==
  extra \o FlattenSeq([n \in DOMAIN rs |-> RowMatch(rs[n], rep, i)])

Precedence(verdict) == CASE verdict = "violation"        -> 0
                         [] verdict = "missing_evidence" -> 1
                         [] verdict = "needs_review"     -> 2
                         [] verdict = "pass"             -> 3
Worst(c, cs) ==
  \A d \in ToSet(cs) : Precedence(c.verdict) <= Precedence(d.verdict)
FirstWorst(cs) == \* mutant: the rule id does not break ties
  SelectSeq(cs, LAMBDA c : Worst(c, cs))[1]
Winner(cs) ==
  CHOOSE c \in ToSet(cs) :
    Worst(c, cs) /\ \A d \in ToSet(cs) : Worst(d, cs) => c.rule.id <= d.rule.id

Outcome(cs) ==
  IF cs = <<>> THEN [verdict |-> "pass", by |-> None, matching |-> {}]
  ELSE [verdict |-> Winner(cs).verdict, by |-> Winner(cs),
        matching |-> {c.rule.id : c \in ToSet(cs)}]
-----------------------------------------------------------------------------
Init == /\ rules \in RuleSets /\ report \in Reports
        /\ windows = None /\ outcomes = <<>>

Aggregate ==
  /\ windows = None
  /\ windows' = Aggregated(EvaluableEntries(rules), report)
  /\ UNCHANGED <<rules, report, outcomes>>
EvaluateRow ==
  /\ windows # None /\ Len(outcomes) < Len(report)
  /\ LET i == Len(outcomes) + 1
     IN outcomes' = Append(outcomes,
          Outcome(Candidates(EvaluableEntries(rules), report, windows[i], i)))
  /\ UNCHANGED <<rules, report, windows>>
Next == Aggregate \/ EvaluateRow
Spec == Init /\ [][Next]_vars

Done == Len(outcomes) = Len(report)
Rows == DOMAIN outcomes
-----------------------------------------------------------------------------
(* The page: the rule, the other rules and the source of an outcome.       *)
AlsoMatched(o) ==
  IF Cardinality(o.matching) <= 1 THEN {} ELSE o.matching \ {o.by.rule.id}

(* A reason may say more than the statement of its rule.                   *)
ReasonQuote(c) == IF ~c.suffixed THEN c.rule.quote
                  ELSE CASE c.rule.quote = "same"   -> "within"
                         [] c.rule.quote = "around" -> "apart"
                         [] OTHER                   -> c.rule.quote
citationDuplicatesReason(q) == q \in {"same", "within"}
showPolicySource(o) ==
  o.by.rule.quote # None /\ ~citationDuplicatesReason(ReasonQuote(o.by))

CurrencyShown(o, i) ==
  IF o.by.rule.currency = None THEN "not_applicable"
  ELSE IF currency_mismatch(o.by.rule, report[i]) THEN "mismatch" ELSE "match"
(* The matched scope is the scope of the rule with the values of the row.  *)
ScopeShown(o, i) == IF o.by.rule.category = None THEN None ELSE report[i].category
showAggregation(o) == o.by.rows # {}
ComparisonShown(o, i) ==
  IF o.by.suffixed THEN None
  ELSE [limit |-> o.by.rule.limit,
        actual |-> IF showAggregation(o)
                   THEN Total(report, WindowOf(o.by.rule, report, i))
                   ELSE report[i].amount]
-----------------------------------------------------------------------------
TypeOK ==
  /\ windows = None \/ DOMAIN windows = DOMAIN report
  /\ \A i \in Rows :
       /\ outcomes[i].verdict \in
            {"pass", "violation", "missing_evidence", "needs_review"}
       /\ outcomes[i].verdict = "pass" <=> outcomes[i].by = None

(* The outcome of a row depends on neither the order of the rules nor the  *)
(* order of the rows.                                                      *)
OrderIrrelevant ==
  LET rs == Reverse(EvaluableEntries(rules))
      rep == Reverse(report)
      there(i) == Len(report) + 1 - i
      again(i) == Outcome(Candidates(rs, rep, Aggregated(rs, rep)[there(i)], there(i)))
  IN \A i \in Rows :
       /\ again(i).verdict = outcomes[i].verdict
       /\ again(i).matching = outcomes[i].matching
       /\ again(i).by # None => again(i).by.rule = outcomes[i].by.rule

(* Nothing an outcome rests on is kept from the reader: every rule that    *)
(* matched is named, and the whole citation of the deciding rule can be    *)
(* read, in the reason or below it.                                        *)
EveryMatchNamed ==
  \A i \in Rows : LET o == outcomes[i] IN
    o.by # None => {o.by.rule.id} \cup AlsoMatched(o) = o.matching
CitationReadable ==
  \A i \in Rows : LET o == outcomes[i] IN
    o.by # None /\ o.by.rule.quote # None =>
      showPolicySource(o) \/ ReasonQuote(o.by) \in {"same", "within"}

(* The rows listed for a window are the rows of the amount compared, and   *)
(* the rule is found against each of them that has no evidence of its own. *)
WindowAddsUp ==
  Done => \A i \in Rows : LET o == outcomes[i] IN
    o.by # None /\ showAggregation(o) =>
      /\ Total(report, o.by.rows) = ComparisonShown(o, i).actual
      /\ ComparisonShown(o, i).actual > ComparisonShown(o, i).limit
      /\ CurrencyShown(o, i) # "mismatch"
      /\ \A j \in o.by.rows : o.by.rule.id \in outcomes[j].matching
                              \/ exception_outcome(o.by.rule, report[j]) = "pass"
-----------------------------------------------------------------------------
(* Violated.  A rule is found against a row it matches (CONTEXT.md,        *)
(* Evaluation Outcome): the currency is compared before the scope, and the *)
(* page says that the scope matched.                                       *)
OutOfScopeSilent ==
  \A i \in Rows : outcomes[i].by # None =>
    ScopeShown(outcomes[i], i) = outcomes[i].by.rule.category

(* Violated.  An exception whose evidence is present changes the outcome   *)
(* of its rule (CONTEXT.md, Exception): only the first one is looked at.   *)
AnyExceptionExempts ==
  \A i \in Rows : outcomes[i].verdict = "missing_evidence" =>
    \A n \in DOMAIN outcomes[i].by.rule.exceptions :
      ~(outcomes[i].by.rule.exceptions[n] \subseteq report[i].evidence)
=============================================================================

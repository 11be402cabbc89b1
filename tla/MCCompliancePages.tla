-------------------------- MODULE MCCompliancePages --------------------------
(* Small instances of CompliancePages.  A Rule Test Case with every        *)
(* status and outcome, two test runs of this user and one act of another.  *)
(* A version with enforceable rules, one with guidance only and one with   *)
(* no rule that can be evaluated.  A good and a bad file tell the          *)
(* errors of one from the success of the other.  Two reports, one with     *)
(* more rows than a page, and a catalogue of two pages with runs executed  *)
(* while it is read.  Two reviews of two runs, one of them a violation,    *)
(* opened one after the other under changing filters, and another user.    *)
EXTENDS CompliancePages

MCRuleOf == [c \in Cases |-> "r1"]
MCRowCount == [p1 |-> 3, p2 |-> 0]
MCReviewedIn == [q1 |-> "a", q2 |-> "b"]

(* Rules of every kind, three at a time in every order, over two rows: a   *)
(* cap with two exceptions, a daily cap, a guidance rule without currency, *)
(* a daily cap of another category with an exception, a rule that did not  *)
(* compile.                                                                *)
Rule(id, st, category, currency, window, limit, exceptions, quote) ==
  [id |-> id, status |-> st, category |-> category, currency |-> currency,
   window |-> window, limit |-> limit, exceptions |-> exceptions, quote |-> quote]
AllRules ==
  {Rule(1, "compiled", "meals", "USD", FALSE, 2, <<{"approval"}, {"receipt"}>>, "same"),
   Rule(2, "compiled", "meals", "USD", TRUE, 3, <<>>, "around"),
   Rule(3, "skipped", "meals", None, FALSE, 0, <<>>, "within"),
   Rule(4, "compiled", "lodging", "EUR", TRUE, 3, <<{"approval"}>>, "apart"),
   Rule(5, "compile_error", None, None, FALSE, 0, <<>>, None)}
MCRuleSets == {s \in [1..3 -> AllRules] : Cardinality({s[n] : n \in 1..3}) = 3}
Row == [category : {"meals", "lodging"}, currency : {"USD", "EUR"},
        amount : {1, 3}, key : {"k1", "k2"}, evidence : {{}, {"receipt"}}]
MCReports ==
  {<<[category |-> "meals", currency |-> "USD", amount |-> n, key |-> "k1",
      evidence |-> e], row>> :
     n \in {1, 3}, e \in {{}, {"approval"}, {"receipt"}}, row \in Row}
=============================================================================

---------------------------- MODULE MCPolicyDiff ----------------------------
(***************************************************************************)
(* TLC harness of VersionDiff: every pair of lists of at most MaxLen rules *)
(* whose contents come from a small catalogue.                             *)
(***************************************************************************)
EXTENDS VersionDiff

NoScope == [d \in ScopeDims |-> Null]
NoCondition == [field |-> Null, operator |-> Null, value |-> Null]
Cap(v) == [field |-> "meal.amount", operator |-> "<=", value |-> v]
Content(text, sh, cond, sc, exc) ==
  [statement |-> text, shape |-> sh, class |-> "enforceable", scope |-> sc,
   condition |-> cond, applicability |-> "per_day", exceptions |-> exc]

(* Two thresholds of one sentence, an exception-only change, one rule for  *)
(* two departments, and an unrelated sentence.                             *)
Catalogue ==
  {Content("cap 50", "cap <num>", Cap("50"), NoScope, <<>>),
   Content("cap 75", "cap <num>", Cap("75"), NoScope, <<>>),
   Content("cap 50", "cap <num>", Cap("50"), NoScope, <<"client">>),
   Content("cap 50", "cap <num>", Cap("50"),
           [NoScope EXCEPT !["department"] = "sales"], <<>>),
   Content("be modest", "be modest", NoCondition, NoScope, <<>>)}
=============================================================================

----------------------------- MODULE RuleDraft -----------------------------
(***************************************************************************)
(* The form in which a Rule is edited (client/src/rules/ruleDraft.ts): a   *)
(* draft of what was typed is built from a stored rule, compared with it,  *)
(* and turned into the body of a request.  Pure operators; the editor of a *)
(* Candidate Rule is RuleEditor, the Manual Rule form is ManualRules.      *)
(*                                                                         *)
(* A string is a word, "" for none, and whether white space surrounds it:  *)
(* all the code does with strings is to trim them and to compare them.     *)
(***************************************************************************)
EXTENDS Naturals, Sequences, FiniteSets, SequencesExt

CONSTANTS Words,        \* non-empty strings without surrounding white space
          ScopeFields,  \* keys of SCOPE_FIELDS
          Periods,      \* AGGREGATION_PERIOD_OPTIONS
          Currencies,   \* three capital letters
          Fragments,    \* one or two capital letters
          Null

Classes == {"enforceable", "guidance", "subjective"}
Text == [word : Words \cup {""}, pad : BOOLEAN]
Trimmed(w) == [word |-> w, pad |-> FALSE]
Empty == Trimmed("")

normalizeRequiredString(t) == Trimmed(t.word)
normalizeOptionalString(t) ==
  IF t.word = "" THEN Null ELSE normalizeRequiredString(t)
IsBlank(t) == t.word = ""
OrEmpty(t) == IF t = Null THEN Empty ELSE t

(* What is typed is cut down to at most three capital letters at once.     *)
CurrencyDraft == {""} \cup Currencies \cup Fragments
normalizeCurrencyForSave(c) == IF c = "" THEN Null ELSE c

ConditionDraft == [field : Text, operator : Text, value : Text]
ApplicabilityDraft == [period : Periods \cup {""}, unit : Text,
                       currency : CurrencyDraft, basis : Text]
NoApplicability == [period |-> "", unit |-> Empty, currency |-> "",
                    basis |-> Empty]
LessOrEqual == Trimmed("<=")
ResetCondition == [field |-> Empty, operator |-> LessOrEqual, value |-> Empty]
ExceptionDraft == [description : Text, evidence : Seq(Text)]
EmptyException == [description |-> Empty, evidence |-> <<>>]

(* A rule as it is stored.                                                 *)
Applicability == [period : Periods \cup {""}, unit : Text,
                  currency : Currencies \cup Fragments \cup {Null},
                  basis : Text \cup {Null}]
RuleValue == [statement : Text, class : Classes,
              scope : [ScopeFields -> Text \cup {Null}],
              condition : ConditionDraft \cup {Null},
              applicability : Applicability \cup {Null},
              exceptions : Seq(ExceptionDraft)]

DraftAssumption ==
  /\ IsFiniteSet(ScopeFields)
  /\ "<=" \in Words /\ "" \notin Words \cup Currencies \cup Fragments
  /\ Null \notin Text /\ Null \notin Currencies \cup Fragments
  /\ Null \notin ConditionDraft /\ Null \notin Applicability
-----------------------------------------------------------------------------
(* createRuleDraft: a stored rule as the content of the form.              *)
createRuleDraft(rule) ==
  [statement |-> rule.statement,
   class |-> rule.class,
   scope |-> [f \in ScopeFields |-> OrEmpty(rule.scope[f])],
   condition |-> IF rule.condition = Null
                 THEN [field |-> Empty, operator |-> Empty, value |-> Empty]
                 ELSE rule.condition,
   applicability |->
     IF rule.applicability = Null THEN NoApplicability
     ELSE [period |-> rule.applicability.period,
           unit |-> rule.applicability.unit,
           currency |-> IF rule.applicability.currency = Null THEN ""
                        ELSE rule.applicability.currency,
           basis |-> OrEmpty(rule.applicability.basis)],
   exceptions |-> IF rule.exceptions = <<>> THEN <<EmptyException>>
                  ELSE rule.exceptions]

buildScopeFromDraft(scope) ==
  [f \in ScopeFields |-> normalizeOptionalString(scope[f])]

buildRequiredConditionFromDraft(condition) ==
  [k \in {"field", "operator", "value"} |->
     normalizeRequiredString(condition[k])]

buildConditionFromDraft(condition) ==
  LET c == buildRequiredConditionFromDraft(condition)
  IN IF \A k \in DOMAIN c : c[k] = Empty THEN Null ELSE c

ApplicabilityTouched(a) ==
  a.period # "" \/ ~IsBlank(a.unit) \/ a.currency # "" \/ ~IsBlank(a.basis)

AsApplicability(a) ==
  [period |-> a.period, unit |-> normalizeRequiredString(a.unit),
   currency |-> normalizeCurrencyForSave(a.currency),
   basis |-> normalizeOptionalString(a.basis)]

buildApplicabilityFromDraft(a) ==
  IF ApplicabilityTouched(a) THEN AsApplicability(a) ELSE Null

buildManualApplicabilityFromDraft(a) ==
  IF a.period # "" /\ ~IsBlank(a.unit) THEN AsApplicability(a) ELSE Null

(* The elements of a sequence at some positions, in their order.           *)
Chosen(s, positions) ==
  [k \in 1..Cardinality(positions) |->
     s[CHOOSE i \in positions :
         Cardinality({j \in positions : j <= i}) = k]]

Evidence(items) ==
  LET texts == [i \in DOMAIN items |-> normalizeRequiredString(items[i])]
  IN Chosen(texts, {i \in DOMAIN items : texts[i] # Empty})
NormalizedException(e) ==
  [description |-> normalizeRequiredString(e.description),
   evidence |-> Evidence(e.evidence)]
normalizeExceptionPayload(exceptions) ==
  [i \in DOMAIN exceptions |-> NormalizedException(exceptions[i])]

(* An exception with evidence only is kept by the review form and dropped  *)
(* by the Manual Rule form.                                                *)
buildExceptionsFromDraft(exceptions) ==
  LET all == normalizeExceptionPayload(exceptions)
  IN Chosen(all, {i \in DOMAIN exceptions : \/ all[i].description # Empty
                                            \/ all[i].evidence # <<>>})
buildManualExceptionsFromDraft(exceptions) ==
  LET all == normalizeExceptionPayload(exceptions)
  IN Chosen(all, {i \in DOMAIN exceptions : all[i].description # Empty})
-----------------------------------------------------------------------------
(* The parts of a rule as the draft would store them.                      *)
Parts == {"statement", "class", "scope", "condition", "applicability",
          "exceptions"}
DraftValue(draft) ==
  [statement |-> normalizeRequiredString(draft.statement),
   class |-> draft.class,
   scope |-> buildScopeFromDraft(draft.scope),
   condition |-> buildConditionFromDraft(draft.condition),
   applicability |-> buildApplicabilityFromDraft(draft.applicability),
   exceptions |-> buildExceptionsFromDraft(draft.exceptions)]

Normalized(rule, p) ==
  IF p = "exceptions" THEN normalizeExceptionPayload(rule.exceptions)
  ELSE rule[p]

(* mutant *)
UpdateForgettingApplicability(draft, rule) ==
  LET value == DraftValue(draft)
      changed == {p \in Parts \ {"applicability"} :
                    value[p] # Normalized(rule, p)}
  IN [p \in changed |-> value[p]]

(* A body with the parts that changed, and only those.                     *)
buildCandidateRuleUpdatePayload(draft, rule) ==
  LET value == DraftValue(draft)
      changed == {p \in Parts : value[p] # Normalized(rule, p)}
  IN [p \in changed |-> value[p]]

(* Differences from the rule as it was extracted, each scope field one.    *)
countRuleDraftDifferences(extracted, draft) ==
  LET value == DraftValue(draft)
  IN Cardinality({p \in Parts \ {"scope"} :
                    value[p] # Normalized(extracted, p)})
     + Cardinality({f \in ScopeFields :
                      value.scope[f] # extracted.scope[f]})

(* The inputs shown as changed: every comparison is made on its own, after *)
(* trimming what was typed only; an applicability that was not extracted   *)
(* marks nothing.                                                          *)
MarkedScope(extracted, draft) ==
  {f \in ScopeFields : normalizeOptionalString(draft.scope[f])
                         # extracted.scope[f]}
MarkedCondition(extracted, draft) ==
  {k \in {"field", "operator", "value"} :
     normalizeRequiredString(draft.condition[k])
       # IF extracted.condition = Null THEN Empty ELSE extracted.condition[k]}

MarkedApplicability(extracted, draft) ==
  LET a == extracted.applicability
      d == draft.applicability
  IN IF a = Null THEN {}
     ELSE {k \in {"period"} : d.period # a.period}
          \cup {k \in {"unit"} : normalizeRequiredString(d.unit) # a.unit}
          \cup {k \in {"currency"} :
                  normalizeCurrencyForSave(d.currency) # a.currency}
          \cup {k \in {"basis"} :
                  normalizeRequiredString(d.basis) # OrEmpty(a.basis)}

draftAsRuleValue(draft, rule) ==
  [rule EXCEPT !.statement = draft.statement, !.class = draft.class,
               !.condition = buildConditionFromDraft(draft.condition)]

(* applyEnforceabilityChange resets what only enforceable Rules have.      *)
applyEnforceabilityChange(draft, class) ==
  IF class = "enforceable" THEN [draft EXCEPT !.class = class]
  ELSE [draft EXCEPT !.class = class,
                     !.condition = ResetCondition,
                     !.applicability = NoApplicability]

addExceptionToDraft(draft) ==
  [draft EXCEPT !.exceptions = Append(@, EmptyException)]

removeExceptionFromDraft(draft, i) ==
  [draft EXCEPT !.exceptions =
     IF Len(@) = 1 THEN <<EmptyException>> ELSE RemoveAt(@, i)]
-----------------------------------------------------------------------------
(* What the server stores of a rule: rules/models.py.                      *)
ValidCondition(c) == c # Null => \A k \in DOMAIN c : c[k] # Empty
ValidApplicability(a) == a # Null => a.period # "" /\ a.unit # Empty
ValidExceptions(s) == \A i \in DOMAIN s : s[i].description # Empty
StoredCurrency(a) ==
  IF a = Null \/ a.currency \in Currencies THEN a
  ELSE [a EXCEPT !.currency = Null]

CandidateValueValid(rule) ==
  /\ rule.statement # Empty
  /\ ValidCondition(rule.condition)
  /\ ValidApplicability(rule.applicability)
  /\ ValidExceptions(rule.exceptions)
  /\ (rule.class # "enforceable" => rule.condition = Null)

(* The handler of PATCH lays the body over the stored rule.                *)
Patched(rule, body) ==
  LET merged == [p \in DOMAIN rule |->
                   IF p \in DOMAIN body THEN body[p] ELSE rule[p]]
  IN [merged EXCEPT !.applicability = StoredCurrency(@)]
=============================================================================

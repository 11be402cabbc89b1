---------------------------- MODULE ManualRules ----------------------------
(***************************************************************************)
(* The Manual Rule form (client/src/manual-rules/ManualRulesPage.tsx over  *)
(* rules/ruleDraft.ts): what was typed is validated, turned into a request *)
(* and sent; the answer may be a conflict, or may be lost on its way after *)
(* the server created the Rule.                                            *)
(***************************************************************************)
EXTENDS RuleDraft, Integers

CONSTANTS Forms,      \* what a user may have typed
          NotEntered, \* an offset left blank
          NotInteger, \* an offset that is no integer
          MaxRules    \* bound on the Rules stored

VARIABLES draft,       \* the content of the form
          errors,      \* the inputs shown as wrong
          pending,     \* the request in flight, Null for none
          answer,      \* history: how the last submission ended
          createdRule, \* the Rule shown as created, Null for none
          stored       \* the Manual Rules the server has
vars == <<draft, errors, pending, answer, createdRule, stored>>

CitationTexts == {"document", "version", "section", "quote"}
EmptyCitation == [text |-> [k \in CitationTexts |-> Empty],
                  start |-> NotEntered, end |-> NotEntered]
EmptyManualRuleDraft ==
  [rule_id |-> Empty, statement |-> Empty, rationale |-> Empty,
   class |-> "enforceable", scope |-> [f \in ScopeFields |-> Empty],
   condition |-> ResetCondition,
   applicability |-> NoApplicability, exceptions |-> <<EmptyException>>,
   citation |-> EmptyCitation]

Citation == [text : [CitationTexts -> Text], start : Int, end : Int]
FormValue == [rule_id : Text, statement : Text, rationale : Text,
              class : Classes, scope : [ScopeFields -> Text],
              condition : ConditionDraft,
              applicability : ApplicabilityDraft,
              exceptions : Seq(ExceptionDraft), citation : Citation]
(* The inputs of what only enforceable Rules have are reset and disabled   *)
(* for the others.                                                         *)
ManualAssumption ==
  /\ NotEntered # NotInteger
  /\ Null \notin Citation
  /\ \A f \in Forms :
       /\ f \in FormValue
       /\ f.class # "enforceable" => ~ApplicabilityTouched(f.applicability)
-----------------------------------------------------------------------------
citationTouched(c) == \/ \E k \in CitationTexts : ~IsBlank(c.text[k])
                      \/ c.start # NotEntered
                      \/ c.end # NotEntered
IsOffset(n) == n \notin {NotEntered, NotInteger} /\ n >= 0

CitationErrors(c) ==
  IF ~citationTouched(c) THEN {}
  ELSE {k \in CitationTexts : IsBlank(c.text[k])}
       \cup {k \in {"start", "end"} : ~IsOffset(c[k])}
       \cup {k \in {"end"} : /\ IsOffset(c.end)
                             /\ c.start \notin {NotEntered, NotInteger}
                             /\ c.end <= c.start}

HasEvidence(e) == \E i \in DOMAIN e.evidence : ~IsBlank(e.evidence[i])
ExceptionErrors(exceptions) ==
  {"exceptions" : i \in {j \in DOMAIN exceptions :
                           /\ HasEvidence(exceptions[j])
                           /\ IsBlank(exceptions[j].description)}}

validateManualRuleDraft(d) ==
  {k \in {"rule_id", "statement", "rationale"} : IsBlank(d[k])}
  \cup (IF d.class = "enforceable"
        THEN {k \in {"field", "operator", "value"} : IsBlank(d.condition[k])}
        ELSE {})
  \cup (IF ApplicabilityTouched(d.applicability)
        THEN {k \in {"unit"} : IsBlank(d.applicability.unit)}
             \cup {k \in {"period"} : d.applicability.period = ""}
        ELSE {})
  \cup CitationErrors(d.citation)
  \cup ExceptionErrors(d.exceptions)

buildManualRuleRequest(d) ==
  [rule_id |-> d.rule_id.word,
   statement |-> normalizeRequiredString(d.statement),
   rationale |-> normalizeRequiredString(d.rationale),
   class |-> d.class,
   scope |-> buildScopeFromDraft(d.scope),
   condition |-> IF d.class = "enforceable"
                 THEN buildRequiredConditionFromDraft(d.condition) ELSE Null,
   applicability |-> IF d.class = "enforceable"
                     THEN buildManualApplicabilityFromDraft(d.applicability)
                     ELSE Null,
   exceptions |-> buildManualExceptionsFromDraft(d.exceptions),
   citation |->
     IF citationTouched(d.citation)
     THEN [d.citation EXCEPT !.text = [k \in CitationTexts |->
             normalizeRequiredString(d.citation.text[k])]]
     ELSE Null]

(* The models of POST /api/rules/manual accept the request.                *)
CitationValid(c) ==
  c # Null => /\ \A k \in CitationTexts : c.text[k] # Empty
              /\ IsOffset(c.start) /\ IsOffset(c.end)
              /\ c.end > c.start
RequestValid(r) ==
  /\ r.rule_id # "" /\ r.statement # Empty /\ r.rationale # Empty
  /\ ValidCondition(r.condition)
  /\ ValidApplicability(r.applicability)
  /\ ValidExceptions(r.exceptions)
  /\ CitationValid(r.citation)
  /\ (r.class = "enforceable") <=> (r.condition # Null)
-----------------------------------------------------------------------------
Init == /\ draft = EmptyManualRuleDraft
        /\ errors = {}
        /\ pending = Null
        /\ answer = "none"
        /\ createdRule = Null
        /\ stored = {}

(* All the edits before a submission, as one step.  Every input is         *)
(* disabled while a request is in flight.                                  *)
Type == /\ pending = Null
        /\ draft = EmptyManualRuleDraft \/ errors # {} \/ answer # "none"
        /\ draft' \in Forms
        /\ answer' = "none"
        /\ UNCHANGED <<errors, pending, createdRule, stored>>

handleSubmit ==
  /\ pending = Null
  /\ errors' = validateManualRuleDraft(draft)
  /\ answer' = "none"
  /\ pending' = IF errors' = {} THEN buildManualRuleRequest(draft) ELSE Null
  /\ UNCHANGED <<draft, createdRule, stored>>

Conflict(id) == \E r \in stored : r.rule_id = id

Store(r) == [r EXCEPT !.applicability = StoredCurrency(@)]

Succeed == /\ createdRule' = Store(pending)
           /\ draft' = EmptyManualRuleDraft
           /\ errors' = {}
           /\ answer' = "created"

Fail(how) == /\ answer' = how
             /\ UNCHANGED <<draft, errors, createdRule>>

(* The server answers, and the answer arrives or is lost on its way.  A    *)
(* rule id that is taken ends in an IntegrityError nobody handles, not in  *)
(* the 409 describeManualRuleError has a message for.                      *)
Created ==
  /\ pending # Null
  /\ RequestValid(pending)
  /\ ~Conflict(pending.rule_id)
  /\ Cardinality(stored) < MaxRules
  /\ stored' = stored \cup {Store(pending)}
  /\ \/ Succeed
     \/ Fail("lost")
  /\ pending' = Null

Refused ==
  /\ pending # Null
  /\ \/ ~RequestValid(pending) /\ Fail("invalid")
     \/ RequestValid(pending) /\ Conflict(pending.rule_id) /\ Fail("error")
     \/ Fail("lost")
  /\ pending' = Null
  /\ UNCHANGED stored

Next == Type \/ handleSubmit \/ Created \/ Refused
Spec == Init /\ [][Next]_vars
-----------------------------------------------------------------------------
(* The form holds what a user typed, or nothing; what is stored is valid.  *)
TypeOK == /\ draft \in Forms \cup {EmptyManualRuleDraft}
          /\ pending # Null => draft \in Forms
          /\ answer \in {"none", "created", "invalid", "error", "lost"}
          /\ createdRule \in stored \cup {Null}
          /\ \A r \in stored : RequestValid(r)

(* The form checks everything the models of the server check: no request   *)
(* that passed validateManualRuleDraft is refused as malformed.            *)
ValidatedRequestAccepted == answer # "invalid" /\
                            (pending # Null => RequestValid(pending))

(* The builders leave out what is incomplete (ruleDraft.ts:651).  The      *)
(* validation stops before that happens: the request says what the form    *)
(* says, up to the white space around it and to blank exceptions.          *)
SentAsTyped ==
  /\ pending.rule_id = draft.rule_id.word
  /\ pending.statement.word = draft.statement.word
  /\ pending.rationale.word = draft.rationale.word
  /\ pending.class = draft.class
  /\ draft.class = "enforceable" =>
       \A k \in {"field", "operator", "value"} :
         pending.condition[k].word = draft.condition[k].word
  /\ \A f \in ScopeFields :
       OrEmpty(pending.scope[f]).word = draft.scope[f].word
NothingTypedIsDropped ==
  pending # Null =>
    /\ SentAsTyped
    /\ \A i \in DOMAIN draft.exceptions :
         LET e == NormalizedException(draft.exceptions[i])
         IN e # EmptyException =>
              \E j \in DOMAIN pending.exceptions : pending.exceptions[j] = e
    /\ ApplicabilityTouched(draft.applicability)
         => pending.applicability = AsApplicability(draft.applicability)
    /\ citationTouched(draft.citation) =>
         /\ pending.citation # Null
         /\ \A k \in CitationTexts :
              pending.citation.text[k].word = draft.citation.text[k].word
         /\ pending.citation.start = draft.citation.start
         /\ pending.citation.end = draft.citation.end

(* Sending the form again after a lost answer never makes a second Rule.   *)
OneRulePerId == \A r, s \in stored : r.rule_id = s.rule_id => r = s
=============================================================================

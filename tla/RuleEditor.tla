----------------------------- MODULE RuleEditor -----------------------------
(***************************************************************************)
(* The review form of one Candidate Rule (candidate-rules/                 *)
(* CandidateRuleDetail.tsx with rules/RuleFormFields.tsx): the draft, its  *)
(* comparison with the stored rule, and what may be saved and decided.     *)
(* One reviewer edits; other reviewers are in ReviewCatalog.               *)
(***************************************************************************)
EXTENDS RuleDraft

CONSTANTS ExtractedRules,  \* rules as they were extracted
          Flagged,         \* is there an unresolvable_citation flag
          MaxEdits         \* bound on the edits of one behaviour

EditorAssumption == /\ \A r \in ExtractedRules :
                          r \in RuleValue /\ CandidateValueValid(r)
                    /\ MaxEdits \in Nat

VARIABLES extracted,  \* the rule as extracted
          rule,       \* the rule as stored
          draft,      \* the content of the form
          edits,      \* history: edits so far
          answer      \* how the last save ended
vars == <<extracted, rule, draft, edits, answer>>

TypeOK ==
  /\ CandidateValueValid(rule)
  /\ {rule.condition, draft.condition} \subseteq ConditionDraft \cup {Null}
  /\ draft.applicability \in ApplicabilityDraft
  /\ draft.scope \in [ScopeFields -> Text]
  /\ draft.class \in Classes
  /\ draft.exceptions # <<>>
  /\ edits \in 0..MaxEdits
  /\ answer \in {"none", "saved", "refused"}

Init == /\ extracted \in ExtractedRules
        /\ rule = extracted
        /\ draft = createRuleDraft(rule)
        /\ edits = 0
        /\ answer = "none"

Payload == buildCandidateRuleUpdatePayload(draft, rule)
unsavedChangeCount == Cardinality(DOMAIN Payload)
decisionBlockersFor == IF unsavedChangeCount = 0 THEN {} ELSE {"unsaved"}

(* approvalBlockersForRule over the rule as drafted.                       *)
approvalBlockersForRule ==
  LET r == draftAsRuleValue(draft, rule)
  IN {b \in {"statement", "incomplete", "superfluous", "citation"} :
        \/ b = "statement" /\ IsBlank(r.statement)
        \/ b = "incomplete" /\ r.class = "enforceable" /\ r.condition = Null
        \/ b = "superfluous" /\ r.class # "enforceable" /\ r.condition # Null
        \/ b = "citation" /\ Flagged}
ApproveEnabled == approvalBlockersForRule = {} /\ decisionBlockersFor = {}

(* The inputs of RuleFormFields; those of the condition are disabled       *)
(* unless the draft is enforceable.                                        *)
Edit(new) == /\ edits < MaxEdits
             /\ draft' = new
             /\ edits' = edits + 1
             /\ answer' = "none"
             /\ UNCHANGED <<extracted, rule>>

EditStatement == \E t \in Text : Edit([draft EXCEPT !.statement = t])
EditScope == \E f \in ScopeFields, t \in Text :
               Edit([draft EXCEPT !.scope[f] = t])
EditClass == \E c \in Classes : Edit(applyEnforceabilityChange(draft, c))
EditCondition ==
  /\ draft.class = "enforceable"
  /\ \E k \in {"field", "operator", "value"}, t \in Text :
       Edit([draft EXCEPT !.condition[k] = t])
EditApplicability ==
  /\ draft.class = "enforceable"
  /\ \/ \E p \in Periods \cup {""} :
          Edit([draft EXCEPT !.applicability.period = p])
     \/ \E t \in Text : Edit([draft EXCEPT !.applicability.unit = t])
     \/ \E t \in Text : Edit([draft EXCEPT !.applicability.basis = t])
     \/ \E c \in CurrencyDraft :
          Edit([draft EXCEPT !.applicability.currency = c])
EditExceptions ==
  \/ Edit(addExceptionToDraft(draft))
  \/ \E i \in DOMAIN draft.exceptions :
       \/ Edit(removeExceptionFromDraft(draft, i))
       \/ \E t \in Text :
            \/ Edit([draft EXCEPT !.exceptions[i].description = t])
            \/ Edit([draft EXCEPT !.exceptions[i].evidence = <<t>>])

(* handleSave takes the answer as the new content of the form.             *)
DraftOfAnswer(new) == createRuleDraft(new)

Save ==
  /\ unsavedChangeCount > 0
  /\ LET new == Patched(rule, Payload)
     IN IF CandidateValueValid(new)
        THEN /\ rule' = new
             /\ draft' = DraftOfAnswer(new)
             /\ answer' = "saved"
        ELSE /\ answer' = "refused"
             /\ UNCHANGED <<rule, draft>>
  /\ UNCHANGED <<extracted, edits>>

Next == \/ EditStatement \/ EditScope \/ EditClass \/ EditCondition
        \/ EditApplicability \/ EditExceptions \/ Save
Spec == Init /\ [][Next]_vars
-----------------------------------------------------------------------------
(* Deciding is blocked while there are unsaved changes (decisionBlockersFor*)
(* in ruleDraft.ts).  So when Approve is offered, the form shows the rule  *)
(* that is stored: every part, up to white space and blank exceptions,     *)
(* equals the stored one.                                                  *)
ApplicabilityAsShown ==
  LET d == draft.applicability
      a == rule.applicability
  IN IF a = Null THEN ~ApplicabilityTouched(d)
     ELSE /\ d.period = a.period
          /\ d.unit.word = a.unit.word
          /\ normalizeCurrencyForSave(d.currency) = a.currency
          /\ d.basis.word = OrEmpty(a.basis).word
DecidedAsShown ==
  ApproveEnabled =>
    /\ draft.class = rule.class
    /\ draft.statement.word = rule.statement.word
    /\ \A f \in ScopeFields :
         draft.scope[f].word = OrEmpty(rule.scope[f]).word
    /\ buildConditionFromDraft(draft.condition) = rule.condition
    /\ ApplicabilityAsShown
    /\ buildExceptionsFromDraft(draft.exceptions)
         = normalizeExceptionPayload(rule.exceptions)

(* A rule that was just saved shows no unsaved changes: otherwise the form *)
(* would ask to save before deciding for ever.                             *)
SavedFormIsClean == answer = "saved" => decisionBlockersFor = {}

(* The two counts the header shows agree: nothing diverges from the        *)
(* extracted rule exactly when a save over it would send nothing.          *)
DivergenceMatchesPayload ==
  (countRuleDraftDifferences(extracted, draft) = 0)
    <=> (DOMAIN buildCandidateRuleUpdatePayload(draft, extracted) = {})

(* An input shown as changed is counted as a difference, whichever way the *)
(* two comparisons treat white space and missing values.                   *)
MarkedIsCounted ==
  MarkedScope(extracted, draft) \cup MarkedCondition(extracted, draft)
    \cup MarkedApplicability(extracted, draft) # {}
  => countRuleDraftDifferences(extracted, draft) > 0

(* Approving never meets the validation of the server: what the blockers   *)
(* let through is a Rule that can be published.                            *)
ApproveIsAccepted ==
  ApproveEnabled => /\ CandidateValueValid(rule)
                    /\ rule.class = "enforceable" => rule.condition # Null

(* Violated, as the README says:                                           *)
(* "If you switch away from enforceable, clear the machine-checkable       *)
(* condition before saving." (CandidateRuleDetail.tsx:1135)  A condition   *)
(* that was cleared stays clear.                                           *)
ClearedConditionStaysClear ==
  [][/\ buildConditionFromDraft(draft.condition) = Null
     /\ draft'.class # "enforceable"
     => buildConditionFromDraft(draft'.condition) = Null]_vars
=============================================================================

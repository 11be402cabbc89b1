---------------------------- MODULE RuleTestEdit ----------------------------
(***************************************************************************)
(* Editing one Rule Test Case: the draft the dialog makes of the stored    *)
(* fixture, the request it makes of the draft                              *)
(* (client/src/rule-test-cases/edits.ts, RuleTestCaseEditModal.tsx) and    *)
(* what the server makes of the request.  Numbers are typed as text.       *)
(***************************************************************************)
CONSTANTS None, Flags,          \* manager_approval, receipt_attached
          Decimals, Words,      \* amounts that are numbers, and one that is not
          Purposes,             \* business purposes
          Days                  \* submission days, as they are typed

Outcomes == {"pass", "violation", "needs_review", "missing_evidence"}
Negative == "negative"
Variants == {"positive", Negative}   \* an exception case counts as negative
Empty == "empty"                     \* a text field with nothing but spaces
Refused == "-1"                      \* a number the server does not accept
AmountTexts == Decimals \cup Words \cup {Empty}
PurposeTexts == Purposes \cup {Empty}
DaysTexts == Days \cup {Empty, Refused}

(* What a fixture holds is not empty, and no field of it is None but by    *)
(* being left out.                                                         *)
TextAssumption ==
  /\ Refused \notin Days
  /\ Empty \notin Decimals \cup Words \cup Purposes \cup Days
  /\ None \notin Purposes \cup Days

Fixtures == [amount : Decimals \cup Words,
             business_purpose : Purposes \cup {None},
             submission_days : Days \cup {None},
             flags : [Flags -> BOOLEAN \cup {None}]]
TestCases == [fixture : Fixtures, outcome : Outcomes, variant : Variants]
Drafts == [amount : AmountTexts, outcome : Outcomes, purpose : PurposeTexts,
           days : DaysTexts, flags : [Flags -> BOOLEAN], rationale : BOOLEAN]

VARIABLES testCase,  \* stored
          target,    \* the case as the page had read it, None if closed
          draft,
          sent       \* the edit in flight, or None
vars == <<testCase, target, draft, sent>>
-----------------------------------------------------------------------------
Text(v) == IF v = None THEN Empty ELSE v
Value(t) == IF t = Empty THEN None ELSE t
DaysText(v) == Text(v)

buildEditDraft(c) ==
  [amount |-> c.fixture.amount,
   outcome |-> c.outcome,
   purpose |-> Text(c.fixture.business_purpose),
   days |-> DaysText(c.fixture.submission_days),
   flags |-> [f \in Flags |-> c.fixture.flags[f] = TRUE],
   rationale |-> FALSE]

(* The fields the dialog has no input for keep the value of the draft.     *)
buildEditRequest(c, d) ==
  [fixture |-> [amount |-> d.amount,
                business_purpose |-> Value(d.purpose),
                submission_days |-> Value(d.days),
                flags |-> d.flags],
   outcome |-> d.outcome]

validateEditDraft(c, d) ==
  /\ d.rationale
  /\ d.amount # Empty
  /\ \/ buildEditRequest(c, d).fixture # c.fixture
     \/ d.outcome # c.outcome

showBusinessPurpose == \/ target.fixture.business_purpose # None
                       \/ target.variant = Negative
showSubmissionDays == target.fixture.submission_days # None
showFlag(f) == target.fixture.flags[f] # None

(* edit_rule_test_case, behind the validation of the request.              *)
edit_rule_test_case(r) ==
  IF r.fixture.submission_days = Refused THEN "invalid"
  ELSE IF r.fixture = testCase.fixture /\ r.outcome = testCase.outcome
  THEN "no_changes" ELSE "updated"
-----------------------------------------------------------------------------
(* The generator sets the field its condition is on and leaves the others  *)
(* empty; an exception case sets flags, too.                               *)
Init == /\ testCase \in TestCases
        /\ testCase.fixture.amount \in Decimals
        /\ target = None /\ sent = None
        /\ draft \in {buildEditDraft(testCase)}

handleEditRequest == /\ target = None
                     /\ target' = testCase
                     /\ draft' = buildEditDraft(testCase)
                     /\ UNCHANGED <<testCase, sent>>

Typing == /\ target # None /\ sent = None
          /\ \/ \E a \in AmountTexts : draft' = [draft EXCEPT !.amount = a]
             \/ \E o \in Outcomes : draft' = [draft EXCEPT !.outcome = o]
             \/ \E b \in BOOLEAN : draft' = [draft EXCEPT !.rationale = b]
             \/ /\ showBusinessPurpose
                /\ \E p \in PurposeTexts : draft' = [draft EXCEPT !.purpose = p]
             \/ /\ showSubmissionDays
                /\ \E n \in DaysTexts : draft' = [draft EXCEPT !.days = n]
             \/ \E f \in Flags, b \in BOOLEAN :
                  showFlag(f) /\ draft' = [draft EXCEPT !.flags[f] = b]
          /\ UNCHANGED <<testCase, target, sent>>

handleEditCancel == /\ target # None /\ sent = None
                    /\ target' = None
                    /\ UNCHANGED <<testCase, draft, sent>>

handleEditConfirm == /\ target # None /\ sent = None
                     /\ validateEditDraft(target, draft)
                     /\ sent' = buildEditRequest(target, draft)
                     /\ UNCHANGED <<testCase, target, draft>>

(* An error keeps the dialog and the draft for another try.                *)
Answer == /\ sent # None
          /\ sent' = None
          /\ \/ /\ edit_rule_test_case(sent) = "updated"
                /\ testCase' = [testCase EXCEPT !.fixture = sent.fixture,
                                                !.outcome = sent.outcome]
                /\ target' = None
             \/ UNCHANGED <<testCase, target>>
          /\ UNCHANGED draft

Next == handleEditRequest \/ Typing \/ handleEditCancel \/ handleEditConfirm
        \/ Answer
Spec == Init /\ [][Next]_vars
-----------------------------------------------------------------------------
(* The types of the variables.                                             *)
TypeOK == /\ testCase \in TestCases
          /\ target \in TestCases \cup {None}
          /\ draft \in Drafts

Untouched(field) == draft[field] = buildEditDraft(target)[field]

(* A field the user left alone, shown or not, is sent as it was stored;    *)
(* a flag that was never set is the exception (buildEditDraft and          *)
(* buildEditRequest).                                                      *)
UntouchedFieldsKept ==
  sent # None =>
    /\ Untouched("amount") => sent.fixture.amount = target.fixture.amount
    /\ Untouched("purpose") => sent.fixture.business_purpose
                                 = target.fixture.business_purpose
    /\ Untouched("days") => sent.fixture.submission_days
                              = target.fixture.submission_days
    /\ \A f \in Flags : showFlag(f) /\ draft.flags[f] = target.fixture.flags[f]
         => sent.fixture.flags[f] = target.fixture.flags[f]

(* What the dialog accepts as a change the server does not refuse as none  *)
(* (validateEditDraft against RuleTestCaseNoChangesError).                 *)
ChangesNotRefused == sent # None => edit_rule_test_case(sent) # "no_changes"

(* Violated, as the README says:                                           *)
(* Only a changed fixture or outcome is saved: the draft of an edit in     *)
(* flight differs from the one the dialog opened with.                     *)
EditIsAChange ==
  sent # None => [draft EXCEPT !.rationale = FALSE] # buildEditDraft(target)

(* Violated, as the README says:                                           *)
(* The amount of a stored fixture is a decimal number.                     *)
StoredAmountIsDecimal == testCase.fixture.amount \in Decimals
=============================================================================

------------------------ MODULE CompliancePagesProofs ------------------------
(***************************************************************************)
(* Proofs about CompliancePages, for any cases, versions, reports, runs,   *)
(* reviews and rules, and any bounds.                                      *)
(*                                                                         *)
(* Each page has an inductive invariant: it holds initially (...Init), is  *)
(* kept by every step of the page (...Step) and means what the page        *)
(* promises (...Means); PagesInv puts them together.                       *)
(*   EditInv        what is sent is the draft of the case in the dialog    *)
(*   TestsInv       unless answers were lost or overtake one another, the  *)
(*                  page has what the server held since the user's last    *)
(*                  change, or a request on its way brings it              *)
(*   EvaluationInv  what the section says of a version it was told, and    *)
(*                  what it knows of an open gate dates from a moment when *)
(*                  the gate was open                                      *)
(*   ReportsInv     of the answers under way only that of the report       *)
(*                  selected, or of the file chosen, is heard              *)
(*   CatalogueInv   the catalogue is what was read of every report, newest *)
(*                  first, and of two visits only the last one is heard    *)
(*   ReviewsInv     the review shown is the review opened, its run's rows  *)
(*                  its rationale, and every decision is audited once      *)
(*   RowsInv        the outcomes so far are those of the rows in turn      *)
(*                                                                         *)
(* Most of the work on outcomes is about one of them.  The candidates of a *)
(* row are, as a set, what its rules say of it (CandidatesAre), in any     *)
(* order.  Read from its last row a report has the same sums (MirrorTotal, *)
(* from TotalSteps: a sum may take its rows out in any order), so every    *)
(* rule says the same of a row (MirrorSays), and the best candidates of    *)
(* two such collections agree (BestAgree) because ids and precedences tell *)
(* rules and verdicts apart.                                               *)
(***************************************************************************)
EXTENDS CompliancePages, WellFoundedInduction, FiniteSetTheorems,
        SequenceTheorems, TLAPS

(* Every set of natural numbers has a least element.                       *)
LEMMA Least ==
  ASSUME NEW S \in SUBSET Nat, S # {}
  PROVE  \E i \in S : \A j \in S : i <= j
<1> DEFINE R == {ss \in Nat \X Nat : ss[1] < ss[2]}
<1>1. IsWellFoundedOn(R, Nat)
  BY NatLessThanWellFounded DEF OpToRel
<1> HIDE DEF R
<1>2. PICK i \in S : \A j \in S : <<j, i>> \notin R
  BY <1>1, WFMin
<1>3. \A j \in S : ~(j < i)
  BY <1>2 DEF R
<1> QED BY <1>2, <1>3

-----------------------------------------------------------------------------
(* The dialog that edits a Rule Test Case.                                 *)
EditInv ==
  /\ TE!TypeOK
  /\ target # None => target = testCase
  /\ sent # None => /\ target # None
                    /\ sent = TE!buildEditRequest(target, draft)
                    /\ TE!validateEditDraft(target, draft)

(* Every stored case makes a draft, and a draft that was left alone makes  *)
(* the fixture again.                                                      *)
LEMMA DraftOfCase ==
  ASSUME NEW c \in TE!TestCases
  PROVE  TE!buildEditDraft(c) \in TE!Drafts
<1>1. /\ c.fixture.amount \in Decimals \cup Words
      /\ c.fixture.business_purpose \in Purposes \cup {None}
      /\ c.fixture.submission_days \in Days \cup {None}
      /\ c.outcome \in TE!Outcomes
  BY DEF TE!TestCases, TE!Fixtures
<1>2. TE!Text(c.fixture.business_purpose) \in TE!PurposeTexts
  BY <1>1 DEF TE!Text, TE!PurposeTexts
<1>3. TE!DaysText(c.fixture.submission_days) \in TE!DaysTexts
  BY <1>1 DEF TE!DaysText, TE!Text, TE!DaysTexts
<1>4. c.fixture.amount \in TE!AmountTexts
  BY <1>1 DEF TE!AmountTexts
<1>5. [f \in Flags |-> c.fixture.flags[f] = TRUE] \in [Flags -> BOOLEAN]
  OBVIOUS
<1> QED BY <1>1, <1>2, <1>3, <1>4, <1>5 DEF TE!buildEditDraft, TE!Drafts

LEMMA RequestOfDraft ==
  ASSUME NEW c, NEW d \in TE!Drafts, TE!validateEditDraft(c, d),
         TE!buildEditRequest(c, d).fixture.submission_days # TE!Refused
  PROVE  /\ TE!buildEditRequest(c, d).fixture \in TE!Fixtures
         /\ TE!buildEditRequest(c, d).outcome \in TE!Outcomes
<1> DEFINE x == TE!buildEditRequest(c, d)
<1>1. /\ d.amount \in TE!AmountTexts /\ d.outcome \in TE!Outcomes
      /\ d.purpose \in TE!PurposeTexts /\ d.days \in TE!DaysTexts
      /\ d.flags \in [Flags -> BOOLEAN]
  BY DEF TE!Drafts
<1>2. x.fixture = [amount |-> d.amount, business_purpose |-> TE!Value(d.purpose),
                   submission_days |-> TE!Value(d.days), flags |-> d.flags]
  BY DEF TE!buildEditRequest
<1>3. d.amount \in Decimals \cup Words
  BY <1>1 DEF TE!validateEditDraft, TE!AmountTexts
<1>4. TE!Value(d.purpose) \in Purposes \cup {None}
  BY <1>1 DEF TE!Value, TE!PurposeTexts
<1>5. TE!Value(d.days) \in Days \cup {None}
  BY <1>1, <1>2 DEF TE!Value, TE!DaysTexts
<1>6. d.flags \in [Flags -> BOOLEAN \cup {None}]
  BY <1>1
<1>7. x.outcome = d.outcome
  BY DEF TE!buildEditRequest
<1> QED BY <1>1, <1>2, <1>3, <1>4, <1>5, <1>6, <1>7 DEF TE!Fixtures

LEMMA EditInit == TE!Init => EditInv
<1> SUFFICES ASSUME TE!Init PROVE EditInv
  OBVIOUS
<1>1. testCase \in TE!TestCases /\ target = None /\ sent = None
      /\ draft = TE!buildEditDraft(testCase)
  BY DEF TE!Init
<1> QED BY <1>1, DraftOfCase DEF EditInv, TE!TypeOK

LEMMA EditStep == EditInv /\ (TE!Next \/ UNCHANGED TE!vars) => EditInv'
<1> SUFFICES ASSUME EditInv, TE!Next \/ UNCHANGED TE!vars PROVE EditInv'
  OBVIOUS
<1>0. /\ testCase \in TE!TestCases /\ target \in TE!TestCases \cup {None}
      /\ draft \in TE!Drafts
  BY DEF EditInv, TE!TypeOK
<1>1. CASE TE!handleEditRequest
  <2>1. sent = None
    BY <1>1 DEF EditInv, TE!handleEditRequest
  <2> QED BY <1>0, <1>1, <2>1, DraftOfCase DEF EditInv, TE!TypeOK, TE!handleEditRequest
<1>2. CASE TE!Typing
  <2>1. sent = None /\ UNCHANGED <<testCase, target, sent>>
    BY <1>2 DEF TE!Typing
  <2>2. draft' \in TE!Drafts
    <3>1. /\ draft = [amount |-> draft.amount, outcome |-> draft.outcome,
                      purpose |-> draft.purpose, days |-> draft.days,
                      flags |-> draft.flags, rationale |-> draft.rationale]
          /\ draft.amount \in TE!AmountTexts /\ draft.outcome \in TE!Outcomes
          /\ draft.purpose \in TE!PurposeTexts /\ draft.days \in TE!DaysTexts
          /\ draft.flags \in [Flags -> BOOLEAN] /\ draft.rationale \in BOOLEAN
      BY <1>0 DEF TE!Drafts
    <3>2. \/ \E a \in TE!AmountTexts : draft' = [draft EXCEPT !.amount = a]
          \/ \E o \in TE!Outcomes : draft' = [draft EXCEPT !.outcome = o]
          \/ \E b \in BOOLEAN : draft' = [draft EXCEPT !.rationale = b]
          \/ \E p \in TE!PurposeTexts : draft' = [draft EXCEPT !.purpose = p]
          \/ \E n \in TE!DaysTexts : draft' = [draft EXCEPT !.days = n]
          \/ \E f \in Flags, b \in BOOLEAN : draft' = [draft EXCEPT !.flags[f] = b]
      BY <1>2 DEF TE!Typing
    <3>3. CASE \E a \in TE!AmountTexts : draft' = [draft EXCEPT !.amount = a]
      BY <3>1, <3>3 DEF TE!Drafts
    <3>4. CASE \E o \in TE!Outcomes : draft' = [draft EXCEPT !.outcome = o]
      BY <3>1, <3>4 DEF TE!Drafts
    <3>5. CASE \E b \in BOOLEAN : draft' = [draft EXCEPT !.rationale = b]
      BY <3>1, <3>5 DEF TE!Drafts
    <3>6. CASE \E p \in TE!PurposeTexts : draft' = [draft EXCEPT !.purpose = p]
      BY <3>1, <3>6 DEF TE!Drafts
    <3>7. CASE \E n \in TE!DaysTexts : draft' = [draft EXCEPT !.days = n]
      BY <3>1, <3>7 DEF TE!Drafts
    <3>8. CASE \E f \in Flags, b \in BOOLEAN : draft' = [draft EXCEPT !.flags[f] = b]
      <4>1. PICK f \in Flags, b \in BOOLEAN : draft' = [draft EXCEPT !.flags[f] = b]
        BY <3>8
      <4>2. [draft.flags EXCEPT ![f] = b] \in [Flags -> BOOLEAN]
        BY <3>1
      <4>3. draft' = [draft EXCEPT !.flags = [draft.flags EXCEPT ![f] = b]]
        BY <4>1
      <4> QED BY <3>1, <4>2, <4>3 DEF TE!Drafts
    <3> QED BY <3>2, <3>3, <3>4, <3>5, <3>6, <3>7, <3>8
  <2> QED BY <1>0, <2>1, <2>2 DEF EditInv, TE!TypeOK
<1>3. CASE TE!handleEditCancel
  BY <1>0, <1>3 DEF EditInv, TE!TypeOK, TE!handleEditCancel
<1>4. CASE TE!handleEditConfirm
  <2>1. /\ target # None /\ TE!validateEditDraft(target, draft)
        /\ sent' = TE!buildEditRequest(target, draft)
        /\ UNCHANGED <<testCase, target, draft>>
    BY <1>4 DEF TE!handleEditConfirm
  <2> QED BY <1>0, <2>1 DEF EditInv, TE!TypeOK, TE!buildEditRequest, TE!validateEditDraft
<1>5. CASE TE!Answer
  <2>1. sent # None /\ sent' = None /\ draft' = draft
    BY <1>5 DEF TE!Answer
  <2>2. CASE UNCHANGED <<testCase, target>>
    BY <1>0, <2>1, <2>2 DEF EditInv, TE!TypeOK
  <2>3. CASE /\ TE!edit_rule_test_case(sent) = "updated"
             /\ testCase' = [testCase EXCEPT !.fixture = sent.fixture,
                                             !.outcome = sent.outcome]
             /\ target' = None
    <3>1. sent.fixture.submission_days # TE!Refused
      BY <2>3 DEF TE!edit_rule_test_case
    <3>2. sent.fixture \in TE!Fixtures /\ sent.outcome \in TE!Outcomes
      BY <1>0, <2>1, <3>1, RequestOfDraft DEF EditInv
    <3>3. testCase' \in TE!TestCases
      BY <1>0, <2>3, <3>2 DEF TE!TestCases
    <3> QED BY <1>0, <2>1, <2>3, <3>3 DEF EditInv, TE!TypeOK
  <2> QED BY <1>5, <2>2, <2>3 DEF TE!Answer
<1>6. CASE UNCHANGED TE!vars
  BY <1>6 DEF TE!vars, EditInv, TE!TypeOK, TE!buildEditRequest, TE!validateEditDraft
<1> QED BY <1>1, <1>2, <1>3, <1>4, <1>5, <1>6 DEF TE!Next

LEMMA EditMeans ==
  EditInv => TE!TypeOK /\ TE!UntouchedFieldsKept /\ TE!ChangesNotRefused
<1> SUFFICES ASSUME EditInv, sent # None
             PROVE  TE!UntouchedFieldsKept /\ TE!ChangesNotRefused
  BY DEF EditInv, TE!UntouchedFieldsKept, TE!ChangesNotRefused
<1>1. /\ target = testCase /\ testCase \in TE!TestCases /\ draft \in TE!Drafts
      /\ sent = TE!buildEditRequest(target, draft)
      /\ TE!validateEditDraft(target, draft)
  BY DEF EditInv, TE!TypeOK
<1>2. /\ sent.fixture.amount = draft.amount
      /\ sent.fixture.business_purpose = TE!Value(draft.purpose)
      /\ sent.fixture.submission_days = TE!Value(draft.days)
      /\ sent.fixture.flags = draft.flags
      /\ sent.outcome = draft.outcome
  BY <1>1 DEF TE!buildEditRequest
<1>3. /\ target.fixture.business_purpose \in Purposes \cup {None}
      /\ target.fixture.submission_days \in Days \cup {None}
  BY <1>1 DEF TE!TestCases, TE!Fixtures
<1>4. \A v \in Purposes \cup Days \cup {None} : TE!Value(TE!Text(v)) = v
  BY PagesAssumption DEF TE!TextAssumption, TE!Value, TE!Text
<1>5. TE!UntouchedFieldsKept
  BY <1>2, <1>3, <1>4 DEF TE!UntouchedFieldsKept, TE!Untouched, TE!buildEditDraft,
     TE!DaysText
<1>6. TE!ChangesNotRefused
  BY <1>1 DEF TE!ChangesNotRefused, TE!edit_rule_test_case, TE!validateEditDraft,
     TE!buildEditRequest
<1> QED BY <1>5, <1>6

-----------------------------------------------------------------------------
(* The Rule Test Cases page.                                               *)
CasesStored ==
  /\ cases \in RT!CaseLists
  /\ runs \in Seq(RT!Run) /\ Len(runs) <= MaxTestRuns
  /\ \A i \in 1..Len(runs) : /\ runs[i].failed \subseteq runs[i].tested
                             /\ runs[i].overall <=> runs[i].failed = {}

TestsShown ==
  /\ roles \subseteq RT!Roles
  /\ page \in {"loading", "ready", "failed"}
  /\ shown \in RT!CaseLists
  /\ listStatus \in {"loading", "ready", "error"}
  /\ runStatus \in {"loading", "ready", "error"}
  /\ latest \in 0..Len(runs)
  /\ target \in {None} \cup [case : Cases, mode : RT!Modes]
  /\ editing \in {None} \cup Cases
  /\ target = None \/ editing = None
  /\ acts \in 0..MaxTestActs /\ others \in 0..TestOthers

(* A request r of a kind, once n runs are stored.                          *)
TestRequest(r, kind, n) ==
  /\ r \in RT!Requests
  /\ r.kind = kind
  /\ kind \in {"list", "runs"} => r.step = "get"
  /\ kind \in {"generate", "run"} => r.step = "post"
  /\ kind \in {"status", "edit"} /\ r.step = "post" => r.case \in Cases
  /\ r.reply # None => r.reply.run <= n
TestsAsked ==
  /\ req = [k \in RT!Kinds |-> req[k]]
  /\ \A k \in RT!Kinds : req[k] # None => TestRequest(req[k], k, Len(runs))

(* What the server held since the last change of this user.                *)
SinceInv ==
  /\ since = [cases |-> since.cases, run |-> since.run]
  /\ cases \in since.cases
  /\ since.run \in 0..Len(runs)

(* A list of cases that is still to come and will be recent: of a request  *)
(* not read yet, of the reload after a change, of an answer on its way.    *)
ListKinds == {"list", "generate", "status", "edit"}
RunKinds == {"runs", "run"}
Coming(k) ==
  /\ req[k] # None
  /\ \/ req[k].reply = None /\ req[k].step = "get"
     \/ /\ k \in {"status", "edit"} /\ req[k].step = "post"
        /\ req[k].reply # None /\ req[k].reply.ok
     \/ RT!OnItsWay(k) /\ req[k].reply.cases \in since.cases

(* As long as no answer is lost or could overtake another, what is on its  *)
(* way is alone, and what the page shows is recent or will be replaced.    *)
CleanList ==
  /\ \A k, j \in ListKinds : RT!OnItsWay(k) /\ RT!OnItsWay(j) => k = j
  /\ counts = RT!Counts(shown)
  /\ shown \in since.cases \/ \E k \in ListKinds : Coming(k)
  /\ \A k \in ListKinds : RT!OnItsWay(k) =>
       req[k].reply.cases \in since.cases \/ \E j \in ListKinds \ {k} : Coming(j)
  /\ RT!OnItsWay("generate") =>
       RT!GeneratedCounts(req["generate"].reply.cases) = RT!Counts(req["generate"].reply.cases)
  /\ \A k \in ListKinds : RT!Arrived(k) /\ req[k].step = "get" => req[k].reply.ok
CleanRuns ==
  /\ \A k, j \in RunKinds : RT!OnItsWay(k) /\ RT!OnItsWay(j) => k = j
  /\ latest >= since.run \/ \E k \in RunKinds : RT!OnItsWay(k)
  /\ \A k \in RunKinds : RT!OnItsWay(k) => req[k].reply.run >= since.run

TestsInv == /\ CasesStored /\ TestsShown /\ TestsAsked /\ SinceInv
            /\ clean \in BOOLEAN
            /\ clean => CleanList /\ CleanRuns

(* What the server makes of its cases are cases.                           *)
LEMMA CasesChanged ==
  ASSUME NEW cs \in RT!CaseLists, NEW new,
         \/ new \in RT!generate_cases(cs)
         \/ \E c, m : c \in Cases /\ new \in RT!set_status(cs, c, m)
         \/ \E c \in Cases : new \in RT!edit_case(cs, c)
  PROVE  new \in RT!CaseLists
<1>1. CASE new \in RT!generate_cases(cs)
  <2>1. CASE cs # None
    BY <1>1, <2>1 DEF RT!generate_cases
  <2>2. CASE cs = None
    <3>1. PICK good \in [Cases -> BOOLEAN] : new = [c \in Cases |-> [on |-> TRUE, ok |-> good[c]]]
      BY <1>1, <2>2 DEF RT!generate_cases
    <3>2. \A c \in Cases, v \in BOOLEAN : [on |-> v, ok |-> good[c]] \in RT!Case
      BY DEF RT!Case
    <3>3. \A c \in Cases : [on |-> TRUE, ok |-> good[c]] \in RT!Case
      BY <3>2
    <3> QED BY <3>1, <3>3 DEF RT!CaseLists
  <2> QED BY <2>1, <2>2
<1>2. CASE \E c, m : c \in Cases /\ new \in RT!set_status(cs, c, m)
  <2>1. PICK c, m : c \in Cases /\ new \in RT!set_status(cs, c, m)
    BY <1>2
  <2>2. cs \in [Cases -> RT!Case] /\ c \in Cases
    BY <2>1 DEF RT!set_status, RT!CaseLists
  <2>3. \A v \in BOOLEAN : [cs EXCEPT ![c].on = v] \in [Cases -> RT!Case]
    <3> TAKE v \in BOOLEAN
    <3>1. cs[c] = [on |-> cs[c].on, ok |-> cs[c].ok] /\ cs[c].ok \in BOOLEAN
      BY <2>2 DEF RT!Case
    <3>2. [cs[c] EXCEPT !.on = v] \in RT!Case
      BY <3>1 DEF RT!Case
    <3> QED BY <2>2, <3>2
  <2>4. (m = "enable") \in BOOLEAN
    OBVIOUS
  <2>5. [cs EXCEPT ![c].on = (m = "enable")] \in [Cases -> RT!Case]
    BY <2>3, <2>4
  <2> QED BY <2>1, <2>5 DEF RT!set_status, RT!CaseLists
<1>3. CASE \E c \in Cases : new \in RT!edit_case(cs, c)
  <2>1. PICK c \in Cases : new \in RT!edit_case(cs, c)
    BY <1>3
  <2>2. cs \in [Cases -> RT!Case]
    BY <2>1 DEF RT!edit_case, RT!Active, RT!CaseLists
  <2>3. PICK b \in BOOLEAN : new = [cs EXCEPT ![c].ok = b]
    BY <2>1 DEF RT!edit_case
  <2>4. cs[c] = [on |-> cs[c].on, ok |-> cs[c].ok] /\ cs[c].on \in BOOLEAN
    BY <2>2 DEF RT!Case
  <2>5. [cs[c] EXCEPT !.ok = b] \in RT!Case
    BY <2>4 DEF RT!Case
  <2> QED BY <2>2, <2>3, <2>5 DEF RT!CaseLists
<1> QED BY <1>1, <1>2, <1>3

LEMMA RunHolds ==
  ASSUME NEW cs \in RT!CaseLists
  PROVE  /\ RT!RunOf(cs) \in RT!Run
         /\ RT!RunOf(cs).failed \subseteq RT!RunOf(cs).tested
         /\ RT!RunOf(cs).overall <=> RT!RunOf(cs).failed = {}
<1> DEFINE failed == {c \in RT!Active(cs) : ~cs[c].ok}
<1>1. RT!Active(cs) \subseteq Cases
  BY DEF RT!Active
<1>2. \A v \in BOOLEAN :
        [tested |-> RT!Active(cs), failed |-> failed, overall |-> v] \in RT!Run
  BY <1>1 DEF RT!Run
<1>3. RT!RunOf(cs) = [tested |-> RT!Active(cs), failed |-> failed,
                      overall |-> failed = {}]
  BY DEF RT!RunOf, RT!OverallPassed
<1>4. (failed = {}) \in BOOLEAN
  OBVIOUS
<1> HIDE DEF failed
<1>5. RT!RunOf(cs) \in RT!Run
  BY <1>2, <1>3, <1>4
<1>6. RT!RunOf(cs).failed \subseteq RT!RunOf(cs).tested
  BY <1>3 DEF failed
<1>7. RT!RunOf(cs).overall <=> RT!RunOf(cs).failed = {}
  <2>1. \A v \in BOOLEAN : (v <=> failed = {}) =>
          [tested |-> RT!Active(cs), failed |-> failed, overall |-> v].overall
            <=> failed = {}
    OBVIOUS
  <2>2. RT!RunOf(cs).overall <=> failed = {}
    BY <1>3, <1>4, <2>1, Zenon
  <2>3. RT!RunOf(cs).failed = failed
    BY <1>3
  <2> QED BY <2>2, <2>3
<1> QED BY <1>5, <1>6, <1>7

(* Whatever the server writes, for this user or another.                   *)
LEMMA RunStored ==
  ASSUME CasesStored, RT!CanRun(cases), runs' = Append(runs, RT!RunOf(cases)),
         cases' = cases
  PROVE  CasesStored' /\ Len(runs') = Len(runs) + 1
<1>1. /\ cases \in RT!CaseLists /\ runs \in Seq(RT!Run)
      /\ Len(runs) \in Nat /\ Len(runs) < MaxTestRuns /\ MaxTestRuns \in Nat
  BY PagesAssumption DEF CasesStored, RT!CanRun, RT!CaseAssumption
<1> DEFINE r == RT!RunOf(cases)
<1>2. r \in RT!Run /\ r.failed \subseteq r.tested /\ (r.overall <=> r.failed = {})
  BY <1>1, RunHolds
<1> HIDE DEF r
<1>3. runs' = Append(runs, r)
  BY DEF r
<1>4. runs' \in Seq(RT!Run) /\ Len(runs') = Len(runs) + 1
  BY <1>1, <1>2, <1>3
<1>5. \A i \in 1..Len(runs') : IF i = Len(runs) + 1 THEN runs'[i] = r ELSE /\ i \in 1..Len(runs) /\ runs'[i] = runs[i]
  BY <1>1, <1>2, <1>3, <1>4
<1>6. \A i \in 1..Len(runs') : /\ runs'[i].failed \subseteq runs'[i].tested
                               /\ runs'[i].overall <=> runs'[i].failed = {}
  BY <1>2, <1>5 DEF CasesStored
<1>7. Len(runs') <= MaxTestRuns
  BY <1>1, <1>4
<1> QED BY <1>1, <1>4, <1>6, <1>7 DEF CasesStored

LEMMA Written ==
  ASSUME CasesStored, TestsAsked, NEW k \in RT!Kinds, req[k] # None,
         RT!Write(k) \/ UNCHANGED RT!server
  PROVE  /\ CasesStored' /\ Len(runs') \in Nat /\ Len(runs') >= Len(runs)
         /\ runs' # runs => k = "run"
         /\ cases' # cases => k \in {"generate", "status", "edit"} /\ req[k].step = "post"
<1>0. Len(runs) \in Nat /\ TestRequest(req[k], k, Len(runs))
  BY DEF CasesStored, TestsAsked
<1>1. CASE UNCHANGED RT!server
  BY <1>0, <1>1 DEF RT!server, CasesStored
<1>2. CASE RT!Write(k)
  <2>1. CASE k = "run"
    <3>1. RT!CanRun(cases) /\ runs' = Append(runs, RT!RunOf(cases)) /\ cases' = cases
      BY <1>2, <2>1 DEF RT!Write
    <3> QED BY <1>0, <2>1, <3>1, RunStored
  <2>2. CASE k # "run"
    <3>1. cases' \in RT!CasesAfter(req[k]) /\ runs' = runs /\ req[k].step = "post"
      BY <1>2, <2>2 DEF RT!Write
    <3>2. k \notin {"list", "runs"} /\ req[k].kind = k
      BY <1>0, <3>1 DEF TestRequest
    <3>3. k \in {"generate", "status", "edit"}
      BY <2>2, <3>2 DEF RT!Kinds
    <3>4. k # "generate" => req[k].case \in Cases
      BY <1>0, <3>1, <3>3 DEF TestRequest
    <3>5. \/ cases' \in RT!generate_cases(cases)
          \/ req[k].case \in Cases /\ cases' \in RT!set_status(cases, req[k].case, req[k].mode)
          \/ req[k].case \in Cases /\ cases' \in RT!edit_case(cases, req[k].case)
      BY <3>1, <3>2, <3>3, <3>4 DEF RT!CasesAfter
    <3>6. cases \in RT!CaseLists
      BY DEF CasesStored
    <3>7. cases' \in RT!CaseLists
      BY <3>5, <3>6, CasesChanged
    <3> QED BY <1>0, <3>1, <3>3, <3>7 DEF CasesStored
  <2> QED BY <2>1, <2>2
<1> QED BY <1>1, <1>2

LEMMA TestsInit == RT!Init => TestsInv
<1> SUFFICES ASSUME RT!Init PROVE TestsInv
  OBVIOUS
<1>0. MaxTestRuns \in Nat \ {0} /\ MaxTestActs \in Nat /\ TestOthers \in Nat
  BY PagesAssumption DEF RT!CaseAssumption
<1>1. cases \in RT!CaseLists
  BY DEF RT!Init, RT!CaseLists
<1>2. runs = <<>> \/ runs = <<RT!RunOf(cases)>>
  BY DEF RT!Init
<1>3. CasesStored /\ Len(runs) \in Nat
  <2>1. CASE runs = <<>>
    BY <1>0, <1>1, <2>1 DEF CasesStored
  <2>2. CASE runs = <<RT!RunOf(cases)>>
    <3>1. RT!RunOf(cases) \in RT!Run /\ RT!RunOf(cases).failed \subseteq RT!RunOf(cases).tested
          /\ (RT!RunOf(cases).overall <=> RT!RunOf(cases).failed = {})
      BY <1>1, RunHolds
    <3>2. runs \in Seq(RT!Run) /\ Len(runs) = 1 /\ runs[1] = RT!RunOf(cases)
      BY <2>2, <3>1
    <3> QED BY <1>0, <1>1, <3>1, <3>2 DEF CasesStored
  <2> QED BY <1>2, <2>1, <2>2
<1>4. TestsShown
  BY <1>0, <1>3 DEF RT!Init, TestsShown, RT!CaseLists
<1>5. \A k \in RT!Kinds : IF k \in {"list", "runs"} THEN req[k] = RT!Get(k)
                          ELSE req[k] = None
  BY DEF RT!Init
<1>6. \A k : RT!Get(k) = [kind |-> k, step |-> "get", case |-> None, mode |-> None, reply |-> None]
  BY DEF RT!Get, RT!Fresh
<1>7. TestsAsked
  <2>1. req = [k \in RT!Kinds |-> req[k]]
    BY DEF RT!Init
  <2>2. \A k \in RT!Kinds : req[k] # None => TestRequest(req[k], k, Len(runs))
    BY <1>5, <1>6 DEF TestRequest, RT!Requests, RT!Kinds
  <2> QED BY <2>1, <2>2 DEF TestsAsked
<1>8. None \notin RT!Requests
  BY PagesAssumption DEF RT!CaseAssumption
<1>9. \A k \in {"list", "runs"} : req[k] # None /\ req[k].reply = None
  BY <1>5, <1>6, <1>8 DEF RT!Requests, RT!Kinds
<1>10. req["generate"] = None /\ req["status"] = None /\ req["edit"] = None /\ req["run"] = None
  BY <1>5 DEF RT!Kinds
<1>11. \A k \in RT!Kinds : ~RT!OnItsWay(k) /\ ~RT!Arrived(k)
  BY <1>9, <1>10 DEF RT!OnItsWay, RT!Arrived, RT!Kinds
<1>12. SinceInv
  <2>1. since = [cases |-> {cases}, run |-> 0]
    BY DEF RT!Init
  <2> QED BY <1>3, <2>1 DEF SinceInv
<1>13. Coming("list")
  <2>1. req["list"] = RT!Get("list")
    BY <1>5 DEF RT!Kinds
  <2>2. req["list"].step = "get"
    BY <1>6, <2>1
  <2> QED BY <1>9, <2>2 DEF Coming
<1>14. counts = RT!Counts(shown)
  BY DEF RT!Init
<1>15. CleanList
  BY <1>11, <1>13, <1>14 DEF CleanList, ListKinds, RT!Kinds
<1>16. CleanRuns
  <2>1. since.run = 0 /\ latest = 0
    BY DEF RT!Init
  <2> QED BY <1>11, <2>1 DEF CleanRuns, RunKinds, RT!Kinds
<1> QED BY <1>3, <1>4, <1>7, <1>12, <1>15, <1>16 DEF TestsInv, RT!Init

LEMMA OneRequest ==
  ASSUME TestsAsked, NEW k \in RT!Kinds, NEW v, req' = [req EXCEPT ![k] = v]
  PROVE  /\ req' = [j \in RT!Kinds |-> req'[j]]
         /\ req'[k] = v
         /\ \A j \in RT!Kinds \ {k} : req'[j] = req[j]
BY DEF TestsAsked

LEMMA StillAsked ==
  ASSUME TestsAsked, NEW k \in RT!Kinds, NEW v, req' = [req EXCEPT ![k] = v],
         Len(runs) \in Nat, Len(runs') \in Nat, Len(runs) <= Len(runs'),
         v = None \/ TestRequest(v, k, Len(runs'))
  PROVE  TestsAsked'
<1>1. /\ req' = [j \in RT!Kinds |-> req'[j]]
      /\ req'[k] = v
      /\ \A j \in RT!Kinds \ {k} : req'[j] = req[j]
  BY OneRequest
<1>2. \A r, j : TestRequest(r, j, Len(runs)) => TestRequest(r, j, Len(runs'))
  <2> TAKE r, j
  <2> SUFFICES ASSUME TestRequest(r, j, Len(runs)), r.reply # None
               PROVE  r.reply.run <= Len(runs')
    BY DEF TestRequest
  <2>1. r.reply.run \in Nat /\ r.reply.run <= Len(runs)
    BY DEF TestRequest, RT!Requests, RT!Replies
  <2> QED BY <2>1
<1>3. \A j \in RT!Kinds : req'[j] # None => TestRequest(req'[j], j, Len(runs'))
  BY <1>1, <1>2 DEF TestsAsked
<1> QED BY <1>1, <1>3 DEF TestsAsked

(* A request that the user sends is one.                                   *)
LEMMA Posted ==
  ASSUME TestsInv,
         RT!handleGenerate \/ RT!handleRun \/ RT!handleStatusActionConfirm
           \/ RT!handleEditConfirm
  PROVE  \E k, r :
           /\ k \in {"generate", "run", "status", "edit"} /\ RT!Send(k, r)
           /\ TestRequest(r, k, Len(runs)) /\ r.reply = None
           /\ k = "generate" => RT!Total = 0
           /\ UNCHANGED <<target, editing>>
<1>1. \A k : RT!Fresh(k) = [kind |-> k, step |-> "post", case |-> None,
                            mode |-> None, reply |-> None]
  BY DEF RT!Fresh
<1>4. \A k \in RT!Kinds \ {"list", "runs"}, c \in Cases \cup {None},
         m \in RT!Modes \cup {None} :
        (k \in {"status", "edit"} => c \in Cases) =>
        TestRequest([kind |-> k, step |-> "post", case |-> c, mode |-> m,
                     reply |-> None], k, Len(runs))
  BY DEF TestRequest, RT!Requests
<1>5. CASE RT!handleGenerate
  <2>1. TestRequest(RT!Fresh("generate"), "generate", Len(runs))
        /\ RT!Fresh("generate").reply = None
    BY <1>1, <1>4 DEF RT!Kinds
  <2> QED BY <1>5, <2>1 DEF RT!handleGenerate
<1>6. CASE RT!handleRun
  <2>1. TestRequest(RT!Fresh("run"), "run", Len(runs))
        /\ RT!Fresh("run").reply = None
    BY <1>1, <1>4 DEF RT!Kinds
  <2> QED BY <1>6, <2>1 DEF RT!handleRun
<1>7. CASE RT!handleStatusActionConfirm
  <2> DEFINE r == [RT!Fresh("status") EXCEPT !.case = target.case,
                                             !.mode = target.mode]
  <2>1. target # None /\ RT!Send("status", r) /\ UNCHANGED <<target, editing>>
    BY <1>7 DEF RT!handleStatusActionConfirm
  <2>2. target.case \in Cases /\ target.mode \in RT!Modes
    BY <2>1 DEF TestsInv, TestsShown
  <2>3. TestRequest(r, "status", Len(runs)) /\ r.reply = None
    <3>1. RT!Fresh("status") = [kind |-> "status", step |-> "post", case |-> None,
                                mode |-> None, reply |-> None]
      BY <1>1
    <3> DEFINE e == [RT!Fresh("status") EXCEPT !.case = target.case]
    <3>2. e = [kind |-> "status", step |-> "post", case |-> target.case,
               mode |-> None, reply |-> None]
      BY <3>1
    <3>3. r = [e EXCEPT !.mode = target.mode]
      OBVIOUS
    <3> HIDE DEF e, r
    <3>4. r = [kind |-> "status", step |-> "post", case |-> target.case,
               mode |-> target.mode, reply |-> None]
      BY <3>2, <3>3
    <3> QED BY <1>4, <2>2, <3>4 DEF RT!Kinds
  <2> HIDE DEF r
  <2> QED BY <2>1, <2>3
<1>8. CASE RT!handleEditConfirm
  <2> DEFINE r == [RT!Fresh("edit") EXCEPT !.case = editing]
  <2>1. editing # None /\ RT!Send("edit", r) /\ UNCHANGED <<target, editing>>
    BY <1>8 DEF RT!handleEditConfirm
  <2>2. editing \in Cases
    BY <2>1 DEF TestsInv, TestsShown
  <2>3. TestRequest(r, "edit", Len(runs)) /\ r.reply = None
    <3>1. RT!Fresh("edit") = [kind |-> "edit", step |-> "post", case |-> None,
                              mode |-> None, reply |-> None]
      BY <1>1
    <3>2. r = [kind |-> "edit", step |-> "post", case |-> editing,
               mode |-> None, reply |-> None]
      BY <3>1
    <3> QED BY <1>4, <2>2, <3>2 DEF RT!Kinds
  <2> HIDE DEF r
  <2> QED BY <2>1, <2>3
<1> QED BY <1>5, <1>6, <1>7, <1>8

(* A reply to r: it keeps what was asked, and says what is stored then.    *)
Answers(k, v, ok, written) ==
  /\ req' = [req EXCEPT ![k] = v]
  /\ TestRequest(v, k, Len(runs'))
  /\ v # None /\ v.step = req[k].step
  /\ v.reply # None /\ (v.reply.ok <=> ok)
  /\ ok => v.reply.cases = cases' /\ v.reply.run = Len(runs')
  /\ IF written THEN RT!Write(k) /\ since' = RT!Own(k)
     ELSE UNCHANGED <<cases, runs, since>> /\ (ok => req[k].step = "get")
  /\ clean' => /\ clean
               /\ IF ok THEN RT!Alone(k) ELSE ~written /\ req[k].step = "post"
               /\ k = "generate" /\ ok => RT!Active(cases') = Cases

LEMMA Replied ==
  ASSUME TestsInv, NEW k \in RT!Kinds, RT!Answer(k)
  PROVE  /\ req[k] # None /\ req[k].reply = None
         /\ RT!Write(k) \/ UNCHANGED RT!server
         /\ \E v : \E ok, written \in BOOLEAN : Answers(k, v, ok, written)
<1>1. req[k] # None /\ req[k].reply = None
  BY DEF RT!Answer
<1>2. PICK ok \in BOOLEAN, written \in BOOLEAN :
        /\ IF written THEN RT!Write(k) /\ since' = RT!Own(k)
           ELSE UNCHANGED <<cases, runs, since>> /\ (ok => req[k].step = "get")
        /\ req' = [req EXCEPT ![k].reply = RT!Reply(ok)]
        /\ clean' = /\ clean
                    /\ IF ok THEN RT!Alone(k) ELSE ~written /\ req[k].step = "post"
                    /\ k = "generate" /\ ok => RT!Active(cases') = Cases
  BY DEF RT!Answer
<1>15. RT!Write(k) \/ UNCHANGED RT!server
  BY <1>2 DEF RT!server
<1>3. CasesStored' /\ Len(runs') \in Nat
  BY <1>1, <1>15, Written DEF TestsInv
<1>4. PICK w : w = RT!Reply(ok)
  OBVIOUS
<1>5. w \in RT!Replies /\ w.run <= Len(runs') /\ (w.ok <=> ok)
      /\ (ok => w.cases = cases' /\ w.run = Len(runs'))
  <2>1. CASE ok
    <3>1. w = [ok |-> TRUE, cases |-> cases', run |-> Len(runs')]
      BY <1>4, <2>1 DEF RT!Reply
    <3> QED BY <1>3, <2>1, <3>1 DEF RT!Replies, CasesStored
  <2>2. CASE ~ok
    <3>1. w = [ok |-> FALSE, cases |-> None, run |-> 0]
      BY <1>4, <2>2 DEF RT!Reply
    <3> QED BY <1>3, <2>2, <3>1 DEF RT!Replies, RT!CaseLists
  <2> QED BY <2>1, <2>2
<1>6. w # None
  BY <1>5, PagesAssumption DEF RT!CaseAssumption
<1>7. PICK v : v = [req[k] EXCEPT !.reply = w]
  OBVIOUS
<1>8. req' = [req EXCEPT ![k] = v]
  BY <1>2, <1>4, <1>7 DEF TestsInv, TestsAsked
<1>9. req[k] \in RT!Requests /\ TestRequest(req[k], k, Len(runs))
  BY <1>1 DEF TestsInv, TestsAsked, TestRequest
<1>10. v = [kind |-> req[k].kind, step |-> req[k].step, case |-> req[k].case,
            mode |-> req[k].mode, reply |-> w]
  BY <1>7, <1>9 DEF RT!Requests
<1>11. v \in RT!Requests /\ v # None
  <2>1. v \in RT!Requests
    BY <1>5, <1>9, <1>10 DEF RT!Requests
  <2> QED BY <2>1, PagesAssumption DEF RT!CaseAssumption
<1>12. TestRequest(v, k, Len(runs'))
  BY <1>5, <1>9, <1>10, <1>11 DEF TestRequest
<1>13. clean' => /\ clean
                 /\ IF ok THEN RT!Alone(k) ELSE ~written /\ req[k].step = "post"
                 /\ k = "generate" /\ ok => RT!Active(cases') = Cases
  BY <1>2, Zenon
<1>14. v.step = req[k].step /\ v.reply = w
  BY <1>10
<1>16. IF written THEN RT!Write(k) /\ since' = RT!Own(k)
       ELSE UNCHANGED <<cases, runs, since>> /\ (ok => req[k].step = "get")
  BY <1>2
<1>17. Answers(k, v, ok, written)
  BY <1>5, <1>6, <1>8, <1>11, <1>12, <1>13, <1>14, <1>16 DEF Answers
<1> HIDE DEF RT!Answer
<1> QED BY <1>1, <1>15, <1>17

LEMMA CasesStep ==
  ASSUME TestsInv, RT!Next \/ UNCHANGED RT!vars
  PROVE  /\ CasesStored' /\ Len(runs) \in Nat /\ Len(runs') \in Nat
         /\ Len(runs) <= Len(runs')
<1>1. CasesStored /\ TestsAsked /\ Len(runs) \in Nat
  BY DEF TestsInv, CasesStored
<1>2. CASE UNCHANGED RT!server
  BY <1>1, <1>2 DEF RT!server, CasesStored
<1>3. CASE \E k \in RT!Kinds : RT!Answer(k)
  <2>1. PICK k \in RT!Kinds : RT!Answer(k)
    BY <1>3
  <2> QED BY <1>1, <2>1, Replied, Written
<1>4. CASE RT!OtherUser
  <2>1. CASE /\ cases' \in RT!generate_cases(cases)
                   \cup (UNION {RT!set_status(cases, c, m) : c \in Cases, m \in RT!Modes})
                   \cup (UNION {RT!edit_case(cases, c) : c \in Cases})
             /\ UNCHANGED runs
    <3>1. \/ cases' \in RT!generate_cases(cases)
          \/ \E c, m : c \in Cases /\ cases' \in RT!set_status(cases, c, m)
          \/ \E c \in Cases : cases' \in RT!edit_case(cases, c)
      BY <2>1
    <3>2. cases \in RT!CaseLists
      BY <1>1 DEF CasesStored
    <3>3. cases' \in RT!CaseLists
      BY <3>1, <3>2, CasesChanged
    <3> QED BY <1>1, <2>1, <3>3 DEF CasesStored
  <2>2. CASE /\ RT!CanRun(cases) /\ runs' = Append(runs, RT!RunOf(cases))
             /\ UNCHANGED cases
    BY <1>1, <2>2, RunStored
  <2> QED BY <1>4, <2>1, <2>2 DEF RT!OtherUser
<1>5. ASSUME NEW k, NEW r, RT!Send(k, r) PROVE UNCHANGED RT!server
  BY <1>5 DEF RT!Send
<1>6. RT!Arrive => UNCHANGED RT!server
  BY DEF RT!Arrive, RT!ArriveSet, RT!ArriveList, RT!ArriveRuns,
     RT!ArriveGenerate, RT!ArriveRun, RT!ArriveChange, RT!ArriveReload
<1>7. \/ UNCHANGED RT!server \/ RT!OtherUser \/ \E k \in RT!Kinds : RT!Answer(k)
  <2>1. UNCHANGED RT!vars => UNCHANGED RT!server
    BY DEF RT!vars, RT!server
  <2> QED BY <1>5, <1>6, <2>1 DEF RT!Next, RT!handleGenerate, RT!handleRun,
       RT!handleStatusActionRequest, RT!handleEditRequest,
       RT!handleStatusActionCancel, RT!handleEditCancel,
       RT!handleStatusActionConfirm, RT!handleEditConfirm
<1> QED BY <1>2, <1>3, <1>4, <1>7

LEMMA TestsShownStep ==
  ASSUME TestsInv, RT!Next \/ UNCHANGED RT!vars
  PROVE  TestsShown'
<1>1. /\ TestsShown /\ Len(runs) \in Nat /\ Len(runs') \in Nat /\ Len(runs) <= Len(runs')
      /\ MaxTestActs \in Nat /\ TestOthers \in Nat
  BY CasesStep, PagesAssumption DEF TestsInv, RT!CaseAssumption
<1>2. 0..Len(runs) \subseteq 0..Len(runs')
  BY <1>1
<1>3. \A k \in RT!Kinds : req[k] # None => TestRequest(req[k], k, Len(runs))
  BY DEF TestsInv, TestsAsked
<1>4. \A k \in RT!Kinds : RT!Arrived(k) =>
        /\ req[k].reply.cases \in RT!CaseLists
        /\ req[k].reply.run \in 0..Len(runs)
  <2> SUFFICES ASSUME NEW k \in RT!Kinds, RT!Arrived(k)
               PROVE  /\ req[k].reply.cases \in RT!CaseLists
                      /\ req[k].reply.run \in 0..Len(runs)
    OBVIOUS
  <2>1. TestRequest(req[k], k, Len(runs)) /\ req[k].reply # None
    BY <1>3 DEF RT!Arrived
  <2>2. req[k].reply \in RT!Replies /\ req[k].reply.run <= Len(runs)
    BY <2>1 DEF TestRequest, RT!Requests
  <2> QED BY <1>1, <2>2 DEF RT!Replies
<1>5. CASE UNCHANGED <<roles, page, shown, listStatus, latest, runStatus, target,
                       editing>>
      /\ acts' \in 0..MaxTestActs /\ others' \in 0..TestOthers
  BY <1>1, <1>2, <1>5 DEF TestsShown
<1>6. CASE UNCHANGED RT!vars
  BY <1>1, <1>5, <1>6 DEF RT!vars, TestsShown
<1>7. CASE RT!handleGenerate \/ RT!handleRun \/ RT!handleStatusActionConfirm
             \/ RT!handleEditConfirm
  <2>1. PICK k, r : RT!Send(k, r) /\ UNCHANGED <<target, editing>>
    BY <1>7, Posted
  <2>2. UNCHANGED <<roles, page, shown, listStatus, latest, runStatus, others>>
        /\ acts < MaxTestActs /\ acts' = acts + 1
    BY <2>1 DEF RT!Send, RT!list, RT!evidence
  <2>3. acts' \in 0..MaxTestActs
    BY <1>1, <2>2 DEF TestsShown
  <2> QED BY <1>1, <1>5, <2>1, <2>2, <2>3 DEF TestsShown
<1>8. CASE \E c \in Cases : RT!handleStatusActionRequest(c)
  <2>1. PICK c \in Cases : RT!handleStatusActionRequest(c)
    BY <1>8
  <2>2. target' \in [case : Cases, mode : RT!Modes] /\ editing' = editing /\ editing = None
    BY <2>1 DEF RT!handleStatusActionRequest, RT!LedgerShown, RT!DialogOpen, RT!Modes
  <2> QED BY <1>1, <1>2, <2>1, <2>2 DEF RT!handleStatusActionRequest, TestsShown, RT!server,
       RT!list, RT!evidence
<1>9. CASE \E c \in Cases : RT!handleEditRequest(c)
  BY <1>1, <1>2, <1>9 DEF RT!handleEditRequest, RT!LedgerShown, RT!DialogOpen,
     TestsShown, RT!list, RT!evidence
<1>10. CASE RT!handleStatusActionCancel \/ RT!handleEditCancel
  BY <1>1, <1>2, <1>10 DEF RT!handleStatusActionCancel, RT!handleEditCancel,
     TestsShown, RT!list, RT!evidence
<1>11. CASE \E k \in RT!Kinds : RT!Answer(k)
  BY <1>1, <1>5, <1>11 DEF RT!Answer, TestsShown, RT!list, RT!evidence
<1>12. CASE RT!OtherUser
  <2>1. others' \in 0..TestOthers
    BY <1>1, <1>12 DEF RT!OtherUser, TestsShown
  <2> QED BY <1>1, <1>5, <1>12, <2>1 DEF RT!OtherUser, TestsShown, RT!list, RT!evidence
<1>13. CASE RT!ArriveSet
  BY <1>1, <1>2, <1>13 DEF RT!ArriveSet, TestsShown, RT!list, RT!evidence
<1>14. CASE RT!ArriveList \/ RT!ArriveGenerate
             \/ \E k \in RT!Kinds : RT!ArriveReload(k)
  <2>1. /\ UNCHANGED <<roles, page, latest, runStatus, target, editing, acts, others>>
        /\ shown' \in RT!CaseLists
        /\ listStatus' \in {"loading", "ready", "error"}
    BY <1>1, <1>4, <1>14 DEF RT!ArriveList, RT!ArriveGenerate, RT!ArriveReload, TestsShown,
       RT!list, RT!evidence, RT!applyRuleTestCaseList, RT!AfterFailure, RT!Kinds
  <2> QED BY <1>1, <1>2, <2>1 DEF TestsShown
<1>15. CASE RT!ArriveRuns \/ RT!ArriveRun
  <2>1. /\ UNCHANGED <<roles, page, shown, listStatus, target, editing, acts, others>>
        /\ latest' \in 0..Len(runs)
        /\ runStatus' \in {"loading", "ready", "error"}
    BY <1>1, <1>4, <1>15 DEF RT!ArriveRuns, RT!ArriveRun, TestsShown,
       RT!list, RT!evidence, RT!AfterFailure, RT!Kinds
  <2> QED BY <1>1, <1>2, <2>1 DEF TestsShown
<1>16. CASE \E k \in RT!Kinds : RT!ArriveChange(k)
  <2>1. /\ UNCHANGED <<roles, page, shown, listStatus, latest, runStatus, acts, others>>
        /\ target' \in {None, target} /\ editing' \in {None, editing}
    BY <1>1, <1>16 DEF RT!ArriveChange, TestsShown, RT!list, RT!evidence
  <2> QED BY <1>1, <1>2, <2>1 DEF TestsShown
<1> QED BY <1>6, <1>7, <1>8, <1>9, <1>10, <1>11, <1>12, <1>13, <1>14, <1>15, <1>16
     DEF RT!Next, RT!Arrive

LEMMA TestsAskedStep ==
  ASSUME TestsInv, RT!Next \/ UNCHANGED RT!vars
  PROVE  TestsAsked'
<1>1. /\ TestsAsked /\ Len(runs) \in Nat /\ Len(runs') \in Nat /\ Len(runs) <= Len(runs')
  BY CasesStep DEF TestsInv
<1>2. CASE RT!handleGenerate \/ RT!handleRun \/ RT!handleStatusActionConfirm
             \/ RT!handleEditConfirm
  <2>1. PICK k, r : /\ k \in {"generate", "run", "status", "edit"} /\ RT!Send(k, r)
                  /\ TestRequest(r, k, Len(runs))
    BY <1>2, Posted
  <2>2. req' = [req EXCEPT ![k] = r] /\ runs' = runs /\ k \in RT!Kinds
    BY <2>1 DEF RT!Send, RT!server, RT!Kinds
  <2> QED BY <1>1, <2>1, <2>2, StillAsked
<1>3. CASE \E k \in RT!Kinds : RT!Answer(k)
  <2>1. PICK k \in RT!Kinds : RT!Answer(k)
    BY <1>3
  <2>2. PICK v : req' = [req EXCEPT ![k] = v] /\ TestRequest(v, k, Len(runs'))
    <3>1. PICK v : \E ok, written \in BOOLEAN : Answers(k, v, ok, written)
      BY <2>1, Replied
    <3> QED BY <3>1 DEF Answers
  <2> QED BY <1>1, <2>2, StillAsked
<1>4. ASSUME NEW k \in RT!Kinds, req' = [req EXCEPT ![k] = None]
      PROVE  TestsAsked'
  BY <1>1, <1>4, StillAsked
<1>5. CASE \E k \in RT!Kinds : RT!ArriveChange(k)
  <2>1. PICK k \in RT!Kinds : RT!ArriveChange(k)
    BY <1>5
  <2>2. CASE RT!Done(k)
    BY <1>4, <2>2 DEF RT!Done
  <2>3. CASE RT!Reload(k)
    <3>1. PICK v : v = RT!Get(k)
      OBVIOUS
    <3>2. v = [kind |-> k, step |-> "get", case |-> None, mode |-> None, reply |-> None]
      BY <3>1 DEF RT!Get, RT!Fresh
    <3>3. k \in {"status", "edit"} /\ req' = [req EXCEPT ![k] = v]
      BY <2>1, <2>3, <3>1 DEF RT!ArriveChange, RT!Reload
    <3>4. TestRequest(v, k, Len(runs'))
      BY <3>2, <3>3 DEF TestRequest, RT!Requests
    <3> QED BY <1>1, <3>3, <3>4, StillAsked
  <2> QED BY <2>1, <2>2, <2>3 DEF RT!ArriveChange
<1>6. CASE RT!ArriveList \/ RT!ArriveRuns \/ RT!ArriveGenerate \/ RT!ArriveRun
             \/ \E k \in RT!Kinds : RT!ArriveReload(k)
  <2>1. \E k \in RT!Kinds : RT!Done(k)
    BY <1>6 DEF RT!ArriveList, RT!ArriveRuns, RT!ArriveGenerate, RT!ArriveRun,
       RT!ArriveReload, RT!Kinds
  <2> QED BY <1>4, <2>1 DEF RT!Done
<1>7. CASE req' = req /\ runs' = runs
  BY <1>1, <1>7 DEF TestsAsked
<1>8. CASE RT!OtherUser
  <2>1. req' = req
    BY <1>8 DEF RT!OtherUser
  <2>2. \A k \in RT!Kinds : req'[k] # None => TestRequest(req'[k], k, Len(runs'))
    <3> SUFFICES ASSUME NEW k \in RT!Kinds, req[k] # None
                 PROVE  TestRequest(req[k], k, Len(runs'))
      BY <2>1
    <3>1. TestRequest(req[k], k, Len(runs))
      BY <1>1 DEF TestsAsked
    <3>2. req[k].reply # None => req[k].reply.run \in Nat
      BY <3>1 DEF TestRequest, RT!Requests, RT!Replies
    <3> QED BY <1>1, <3>1, <3>2 DEF TestRequest
  <2> QED BY <1>1, <2>1, <2>2 DEF TestsAsked
<1>9. CASE UNCHANGED RT!vars
  BY <1>7, <1>9 DEF RT!vars
<1>10. CASE \/ \E c \in Cases : RT!handleStatusActionRequest(c) \/ RT!handleEditRequest(c)
            \/ RT!handleStatusActionCancel \/ RT!handleEditCancel \/ RT!ArriveSet
  BY <1>7, <1>10 DEF RT!handleStatusActionRequest, RT!handleEditRequest,
     RT!handleStatusActionCancel, RT!handleEditCancel, RT!ArriveSet, RT!server
<1> QED BY <1>2, <1>3, <1>5, <1>6, <1>8, <1>9, <1>10 DEF RT!Next, RT!Arrive

LEMMA SinceStep ==
  ASSUME TestsInv, RT!Next \/ UNCHANGED RT!vars
  PROVE  SinceInv'
<1>1. /\ SinceInv /\ Len(runs) \in Nat /\ Len(runs') \in Nat /\ Len(runs) <= Len(runs')
  BY CasesStep DEF TestsInv
<1>2. CASE UNCHANGED <<cases, runs, since>>
  BY <1>2, <1>1 DEF SinceInv
<1>3. CASE \E k \in RT!Kinds : RT!Answer(k)
  <2>1. PICK k \in RT!Kinds : RT!Answer(k)
    BY <1>3
  <2>0. PICK v : \E ok, written \in BOOLEAN : Answers(k, v, ok, written)
    BY <2>1, Replied
  <2>2. PICK ok \in BOOLEAN, written \in BOOLEAN : Answers(k, v, ok, written)
    BY <2>0
  <2>3. CASE ~written
    BY <1>2, <2>2, <2>3 DEF Answers
  <2>4. CASE written /\ k = "run"
    <3>1. since' = [since EXCEPT !.run = Len(runs')] /\ cases' = cases
      BY <2>2, <2>4 DEF Answers, RT!Own, RT!Write
    <3>2. since' = [cases |-> since.cases, run |-> Len(runs')]
      BY <1>1, <3>1 DEF SinceInv
    <3> QED BY <1>1, <3>1, <3>2 DEF SinceInv
  <2>5. CASE written /\ k # "run"
    <3>1. since' = [since EXCEPT !.cases = {cases'}] /\ runs' = runs
      BY <2>2, <2>5 DEF Answers, RT!Own, RT!Write
    <3>2. since' = [cases |-> {cases'}, run |-> since.run]
      BY <1>1, <3>1 DEF SinceInv
    <3> QED BY <1>1, <3>1, <3>2 DEF SinceInv
  <2> QED BY <2>3, <2>4, <2>5
<1>4. CASE RT!OtherUser
  <2>1. since' = [since EXCEPT !.cases = since.cases \cup {cases'}]
    BY <1>4 DEF RT!OtherUser
  <2>2. since' = [cases |-> since.cases \cup {cases'}, run |-> since.run]
    BY <1>1, <2>1 DEF SinceInv
  <2> QED BY <1>1, <2>2 DEF SinceInv
<1>5. ASSUME NEW k, NEW r, RT!Send(k, r) PROVE UNCHANGED <<cases, runs, since>>
  BY <1>5 DEF RT!Send, RT!server
<1>6. RT!Arrive => UNCHANGED <<cases, runs, since>>
  BY DEF RT!Arrive, RT!ArriveSet, RT!ArriveList, RT!ArriveRuns, RT!server,
     RT!ArriveGenerate, RT!ArriveRun, RT!ArriveChange, RT!ArriveReload
<1>7. \/ UNCHANGED <<cases, runs, since>> \/ RT!OtherUser
      \/ \E k \in RT!Kinds : RT!Answer(k)
  <2>1. UNCHANGED RT!vars => UNCHANGED <<cases, runs, since>>
    BY DEF RT!vars
  <2> QED BY <1>5, <1>6, <2>1 DEF RT!Next, RT!handleGenerate, RT!handleRun,
       RT!handleStatusActionRequest, RT!handleEditRequest,
       RT!handleStatusActionCancel, RT!handleEditCancel,
       RT!handleStatusActionConfirm, RT!handleEditConfirm, RT!server
<1> QED BY <1>2, <1>3, <1>4, <1>7

(* A request that did not bring and will not bring a list is sent, refused *)
(* or done with: nothing changes about the others.                         *)
LEMMA Aside ==
  ASSUME TestsAsked, SinceInv, CleanList, CleanRuns, NEW k \in RT!Kinds, NEW v,
         req' = [req EXCEPT ![k] = v],
         ~Coming(k), ~RT!OnItsWay(k), ~RT!OnItsWay(k)',
         ~(RT!Arrived(k)' /\ req'[k].step = "get"),
         UNCHANGED <<shown, counts, latest, since>>
  PROVE  CleanList' /\ CleanRuns'
<1>1. req'[k] = v /\ \A j \in RT!Kinds \ {k} : req'[j] = req[j]
  BY OneRequest
<1>2. \A j \in RT!Kinds : RT!OnItsWay(j)' <=> RT!OnItsWay(j)
  BY <1>1 DEF RT!OnItsWay, RT!Brings
<1>3. \A j \in ListKinds : Coming(j) => Coming(j)'
  BY <1>1, <1>2 DEF Coming, ListKinds, RT!Kinds
<1>4. \A j \in RT!Kinds : RT!OnItsWay(j) => req'[j] = req[j]
  BY <1>1
<1>5. CleanList'
  <2>1. \A i, j \in ListKinds : RT!OnItsWay(i)' /\ RT!OnItsWay(j)' => i = j
    BY <1>2 DEF CleanList, ListKinds, RT!Kinds
  <2>2. counts' = RT!Counts(shown')
    BY DEF CleanList
  <2>3. shown' \in since'.cases \/ \E j \in ListKinds : Coming(j)'
    BY <1>3 DEF CleanList
  <2>4. \A i \in ListKinds : RT!OnItsWay(i)' =>
          req'[i].reply.cases \in since'.cases \/ \E j \in ListKinds \ {i} : Coming(j)'
    BY <1>2, <1>3, <1>4 DEF CleanList, ListKinds, RT!Kinds
  <2>5. RT!OnItsWay("generate")' =>
          RT!GeneratedCounts(req'["generate"].reply.cases)
            = RT!Counts(req'["generate"].reply.cases)
    BY <1>2, <1>4 DEF CleanList, RT!Kinds
  <2>6. \A j \in ListKinds : RT!Arrived(j)' /\ req'[j].step = "get" => req'[j].reply.ok
    BY <1>1 DEF CleanList, ListKinds, RT!Kinds, RT!Arrived
  <2>7. RT!Counts(shown)' = RT!Counts(shown')
    OBVIOUS
  <2> QED BY <2>1, <2>2, <2>3, <2>4, <2>5, <2>6, <2>7 DEF CleanList
<1>6. CleanRuns'
  BY <1>2, <1>4 DEF CleanRuns, RunKinds, RT!Kinds
<1> QED BY <1>5, <1>6

LEMMA CleanStep ==
  ASSUME TestsInv, RT!Next \/ UNCHANGED RT!vars, clean'
  PROVE  CleanList' /\ CleanRuns'
<1> DEFINE Clean == CleanList /\ CleanRuns
<1>1. TestsAsked /\ CasesStored /\ SinceInv /\ SinceInv'
      /\ Len(runs) \in Nat /\ Len(runs') \in Nat
  BY CasesStep, SinceStep DEF TestsInv, CasesStored
<1>3. clean => Clean
  BY DEF TestsInv
<1>4. None \notin RT!Requests
  BY PagesAssumption DEF RT!CaseAssumption
<1>5. \A k \in RT!Kinds : req[k] # None => TestRequest(req[k], k, Len(runs))
  BY <1>1 DEF TestsAsked
<1>6. CASE UNCHANGED <<shown, counts, latest, req, since, clean>>
  BY <1>3, <1>6 DEF CleanList, CleanRuns, Coming, RT!Arrived, RT!OnItsWay, RT!Brings,
     RT!Counts, RT!Active, RT!GeneratedCounts
<1>7. CASE RT!handleGenerate \/ RT!handleRun \/ RT!handleStatusActionConfirm
             \/ RT!handleEditConfirm
  <2>1. PICK k, r :
          /\ k \in {"generate", "run", "status", "edit"} /\ RT!Send(k, r)
          /\ TestRequest(r, k, Len(runs)) /\ r.reply = None
    BY <1>7, Posted
  <2>2. /\ clean /\ Clean /\ req' = [req EXCEPT ![k] = r] /\ k \in RT!Kinds
        /\ UNCHANGED <<shown, counts, latest, since>>
        /\ req[k] = None
    BY <1>3, <2>1 DEF RT!Send, RT!list, RT!evidence, RT!Kinds
  <2>3. req'[k] = r
    BY <1>1, <2>2, OneRequest
  <2>4. ~Coming(k) /\ ~RT!OnItsWay(k)
    BY <2>2 DEF Coming, RT!OnItsWay
  <2>5. ~RT!OnItsWay(k)' /\ ~RT!Arrived(k)'
    BY <2>1, <2>3 DEF RT!OnItsWay, RT!Arrived
  <2> QED BY <1>1, <2>2, <2>4, <2>5, Aside
<1>8. CASE \E k \in RT!Kinds : RT!Answer(k)
  <2>1. PICK k \in RT!Kinds : RT!Answer(k)
    BY <1>8
  <2>0. PICK v : \E ok, written \in BOOLEAN : Answers(k, v, ok, written)
    BY <2>1, Replied
  <2>2. PICK ok \in BOOLEAN, written \in BOOLEAN : Answers(k, v, ok, written)
    BY <2>0
  <2>3. req[k] # None /\ req[k].reply = None
    BY <2>1, Replied
  <2>4. /\ Clean /\ v.reply # None /\ v # None /\ v.step = req[k].step
        /\ (v.reply.ok <=> ok)
        /\ ok => v.reply.cases = cases' /\ v.reply.run = Len(runs')
        /\ IF ok THEN RT!Alone(k) ELSE ~written /\ req[k].step = "post"
        /\ k = "generate" /\ ok => RT!Active(cases') = Cases
        /\ req' = [req EXCEPT ![k] = v]
    BY <1>3, <2>2 DEF Answers
  <2>5. req'[k] = v /\ \A j \in RT!Kinds \ {k} : req'[j] = req[j]
    BY <1>1, <2>4, OneRequest
  <2>6. UNCHANGED <<shown, counts, latest>>
    BY <2>1 DEF RT!Answer, RT!list, RT!evidence
  <2>7. TestRequest(req[k], k, Len(runs)) /\ req[k].step \in {"post", "get"}
    BY <1>5, <2>3 DEF TestRequest, RT!Requests
  <2>8. \A j \in RT!Kinds \ {k} : RT!OnItsWay(j)' <=> RT!OnItsWay(j)
    BY <2>5 DEF RT!OnItsWay, RT!Brings
  <2>9. ~RT!OnItsWay(k)
    BY <2>3 DEF RT!OnItsWay
  <2>10. CASE ~ok
    <3>1. UNCHANGED since
      BY <2>2, <2>4, <2>10 DEF Answers
    <3>2. ~Coming(k)
      BY <2>3, <2>4, <2>10 DEF Coming, RT!OnItsWay
    <3>3. ~RT!OnItsWay(k)' /\ req'[k].step # "get"
      BY <2>4, <2>5, <2>10 DEF RT!OnItsWay
    <3> QED BY <1>1, <2>4, <2>6, <2>9, <3>1, <3>2, <3>3, Aside
  <2>11. CASE ok /\ k \in RunKinds
    <3>1. since'.cases = since.cases
      <4>1. CASE written
        <5>1. RT!Write(k) /\ since' = RT!Own(k)
          BY <2>2, <4>1 DEF Answers
        <5>2. k = "run"
          BY <2>7, <2>11, <5>1 DEF RT!Write, TestRequest, RunKinds
        <5>3. since' = [since EXCEPT !.run = Len(runs')]
          BY <5>1, <5>2 DEF RT!Own
        <5> QED BY <1>1, <5>3 DEF SinceInv
      <4>2. CASE ~written
        BY <2>2, <4>2 DEF Answers
      <4> QED BY <4>1, <4>2
    <3>2. \A j \in ListKinds : req'[j] = req[j] /\ (RT!OnItsWay(j)' <=> RT!OnItsWay(j))
      BY <2>5, <2>8, <2>11 DEF ListKinds, RunKinds, RT!Kinds
    <3>3. \A j \in ListKinds : Coming(j)' <=> Coming(j)
      BY <3>1, <3>2 DEF Coming
    <3>4. CleanList'
      <4>1. req'["generate"] = req["generate"] /\ (RT!OnItsWay("generate")' <=> RT!OnItsWay("generate"))
        BY <3>2 DEF ListKinds
      <4>2. counts' = RT!Counts(shown') /\ RT!Counts(shown)' = RT!Counts(shown')
        BY <2>4, <2>6 DEF CleanList
      <4>3. \A j \in ListKinds : RT!Arrived(j)' /\ req'[j].step = "get" => req'[j].reply.ok
        BY <2>4, <3>2 DEF CleanList, RT!Arrived
      <4>4. RT!OnItsWay("generate")' =>
              RT!GeneratedCounts(req'["generate"].reply.cases)
                = RT!Counts(req'["generate"].reply.cases)
        BY <2>4, <4>1 DEF CleanList
      <4>5. \A i \in ListKinds : RT!OnItsWay(i)' =>
              req'[i].reply.cases \in since'.cases \/ \E j \in ListKinds \ {i} : Coming(j)'
        BY <2>4, <3>1, <3>2, <3>3 DEF CleanList
      <4>6. \A i, j \in ListKinds : RT!OnItsWay(i)' /\ RT!OnItsWay(j)' => i = j
        BY <2>4, <3>2 DEF CleanList
      <4>7. shown' \in since'.cases \/ \E j \in ListKinds : Coming(j)'
        BY <2>4, <2>6, <3>1, <3>3 DEF CleanList
      <4> QED BY <4>2, <4>3, <4>4, <4>5, <4>6, <4>7 DEF CleanList
    <3>5. RT!Brings(k, req[k]) /\ RT!Brings(k, v)
      BY <2>11 DEF RT!Brings, RunKinds
    <3>6. RT!OnItsWay(k)'
      BY <2>4, <2>5, <2>11, <3>5 DEF RT!OnItsWay
    <3>7. \A j \in RunKinds : ~RT!OnItsWay(j)
      BY <2>4, <2>11, <3>5 DEF RT!Alone, RT!Touches, RunKinds
    <3>8. \A j \in RunKinds : RT!OnItsWay(j)' => j = k
      BY <2>8, <3>7 DEF RunKinds, RT!Kinds
    <3>9. req'[k].reply.run >= since'.run
      BY <1>1, <2>4, <2>5, <2>11 DEF SinceInv
    <3>10. CleanRuns'
      BY <2>11, <3>6, <3>8, <3>9 DEF CleanRuns
    <3> QED BY <3>4, <3>10
  <2>12. CASE ok /\ k \in ListKinds
    <3>1. since'.run = since.run
      <4>1. CASE written
        <5>1. since' = RT!Own(k) /\ k # "run"
          BY <2>2, <2>12, <4>1 DEF Answers, ListKinds
        <5>2. since' = [since EXCEPT !.cases = {cases'}]
          BY <5>1 DEF RT!Own
        <5> QED BY <1>1, <5>2 DEF SinceInv
      <4>2. CASE ~written
        BY <2>2, <4>2 DEF Answers
      <4> QED BY <4>1, <4>2
    <3>2. \A j \in RunKinds : req'[j] = req[j] /\ (RT!OnItsWay(j)' <=> RT!OnItsWay(j))
      BY <2>5, <2>8, <2>12 DEF ListKinds, RunKinds, RT!Kinds
    <3>3. CleanRuns'
      BY <2>4, <2>6, <3>1, <3>2 DEF CleanRuns
    <3>4. \A i, j \in ListKinds : i # k /\ RT!OnItsWay(i)' /\ j # k /\ RT!OnItsWay(j)' => i = j
      BY <2>4, <2>8 DEF CleanList, ListKinds, RT!Kinds
    <3>5. counts' = RT!Counts(shown') /\ RT!Counts(shown)' = RT!Counts(shown')
      BY <2>4, <2>6 DEF CleanList
    <3>6. \A j \in ListKinds : RT!Arrived(j)' /\ req'[j].step = "get" => req'[j].reply.ok
      BY <2>4, <2>5, <2>12 DEF CleanList, RT!Arrived, ListKinds, RT!Kinds
    <3>7. CASE RT!Brings(k, req[k])
      <4>1. \A j \in ListKinds : ~RT!OnItsWay(j)
        BY <2>4, <2>12, <3>7 DEF RT!Alone, RT!Touches, ListKinds
      <4>2. RT!Brings(k, v)
        BY <2>4, <3>7 DEF RT!Brings
      <4>3. RT!OnItsWay(k)' /\ req'[k].reply.cases = cases'
        BY <2>4, <2>5, <2>12, <4>2 DEF RT!OnItsWay
      <4>4. Coming(k)' /\ req'[k].reply.cases \in since'.cases
        BY <1>1, <4>3 DEF Coming, RT!OnItsWay, SinceInv
      <4>5. \A j \in ListKinds : RT!OnItsWay(j)' => j = k
        BY <2>8, <4>1 DEF ListKinds, RT!Kinds
      <4>6. RT!OnItsWay("generate")' =>
              RT!GeneratedCounts(req'["generate"].reply.cases)
                = RT!Counts(req'["generate"].reply.cases)
        <5> SUFFICES ASSUME RT!OnItsWay("generate")'
                     PROVE  RT!GeneratedCounts(req'["generate"].reply.cases)
                              = RT!Counts(req'["generate"].reply.cases)
          OBVIOUS
        <5>1. k = "generate" /\ RT!Active(cases') = Cases
          BY <2>4, <2>12, <4>5 DEF ListKinds
        <5>2. req'["generate"].reply.cases = cases'
          BY <4>3, <5>1
        <5>3. RT!Cardinality(Cases \ Cases) = 0 /\ Cases \ Cases = {}
          <6>1. Cases \ Cases = {}
            OBVIOUS
          <6>2. Cardinality({}) = 0
            BY FS_EmptySet
          <6> QED BY <6>1, <6>2 DEF RT!Cardinality, Cardinality
        <5>4. RT!GeneratedCounts(cases') = RT!Counts(cases')
          BY <5>1, <5>3 DEF RT!GeneratedCounts, RT!Counts
        <5> QED BY <5>2, <5>4
      <4>7. CleanList'
        BY <2>12, <3>5, <3>6, <4>3, <4>4, <4>5, <4>6 DEF CleanList
      <4> QED BY <3>3, <4>7
    <3>8. CASE ~RT!Brings(k, req[k])
      <4>1. k \in {"status", "edit"} /\ v.step = "post" /\ ~RT!Brings(k, v)
        BY <2>4, <2>7, <3>8 DEF RT!Brings
      <4>2. Coming(k)' /\ ~RT!OnItsWay(k)'
        BY <2>4, <2>5, <2>12, <4>1 DEF Coming, RT!OnItsWay
      <4>3. \A i, j \in ListKinds : RT!OnItsWay(i)' /\ RT!OnItsWay(j)' => i = j
        BY <3>4, <4>2
      <4>4. \A i \in ListKinds : RT!OnItsWay(i)' => \E j \in ListKinds \ {i} : Coming(j)'
        BY <2>12, <4>2
      <4>5. req'["generate"] = req["generate"] /\ (RT!OnItsWay("generate")' <=> RT!OnItsWay("generate"))
        BY <2>5, <2>8, <4>1 DEF RT!Kinds
      <4>6. RT!OnItsWay("generate")' =>
              RT!GeneratedCounts(req'["generate"].reply.cases)
                = RT!Counts(req'["generate"].reply.cases)
        BY <2>4, <4>5 DEF CleanList
      <4>7. CleanList'
        BY <2>12, <3>5, <3>6, <4>2, <4>3, <4>4, <4>6 DEF CleanList
      <4> QED BY <3>3, <4>7
    <3> QED BY <3>7, <3>8
  <2>13. k \in RunKinds \/ k \in ListKinds
    BY DEF RunKinds, ListKinds, RT!Kinds
  <2> QED BY <2>10, <2>11, <2>12, <2>13
<1>9. CASE RT!ArriveList \/ RT!ArriveGenerate
             \/ \E k \in RT!Kinds : RT!ArriveReload(k)
  <2>1. PICK k \in ListKinds :
          /\ RT!Arrived(k) /\ RT!Done(k)
          /\ k \in {"status", "edit"} => req[k].step = "get"
          /\ k # "generate" =>
               IF req[k].reply.ok
               THEN shown' = req[k].reply.cases /\ counts' = RT!Counts(req[k].reply.cases)
               ELSE UNCHANGED <<shown, counts>>
          /\ k = "generate" =>
               IF req[k].reply.ok
               THEN /\ shown' = req[k].reply.cases
                    /\ counts' = RT!GeneratedCounts(req[k].reply.cases)
               ELSE UNCHANGED <<shown, counts>>
    <3>1. CASE RT!ArriveList
      BY <3>1 DEF RT!ArriveList, ListKinds, RT!applyRuleTestCaseList
    <3>2. CASE RT!ArriveGenerate
      BY <3>2 DEF RT!ArriveGenerate, ListKinds, RT!applyRuleTestCaseList, RT!list
    <3>3. CASE \E k \in RT!Kinds : RT!ArriveReload(k)
      BY <3>3 DEF RT!ArriveReload, ListKinds, RT!applyRuleTestCaseList, RT!list
    <3> QED BY <1>9, <3>1, <3>2, <3>3
  <2>2. UNCHANGED <<latest, since, clean>>
    BY <1>9 DEF RT!ArriveList, RT!ArriveGenerate, RT!ArriveReload, RT!evidence
  <2>3. Clean /\ req[k] # None /\ k \in RT!Kinds /\ req[k].reply # None
    BY <1>3, <2>1, <2>2 DEF RT!Arrived, ListKinds, RT!Kinds
  <2>4. /\ req' = [req EXCEPT ![k] = None] /\ req'[k] = None
        /\ \A j \in RT!Kinds \ {k} : req'[j] = req[j]
    BY <1>1, <2>1, <2>3, OneRequest DEF RT!Done
  <2>5. TestRequest(req[k], k, Len(runs)) /\ req[k].step \in {"post", "get"}
    BY <1>5, <2>3 DEF TestRequest, RT!Requests
  <2>6. ~RT!OnItsWay(k)' /\ ~RT!Arrived(k)'
    BY <2>4 DEF RT!OnItsWay, RT!Arrived
  <2>7. CASE ~req[k].reply.ok
    <3>1. k = "generate"
      BY <2>1, <2>3, <2>5, <2>7 DEF CleanList, ListKinds, TestRequest
    <3>2. ~Coming(k) /\ ~RT!OnItsWay(k)
      BY <2>3, <2>7, <3>1 DEF Coming, RT!OnItsWay
    <3>3. UNCHANGED <<shown, counts>>
      BY <2>1, <2>7
    <3> QED BY <1>1, <2>2, <2>3, <2>4, <2>6, <3>2, <3>3, Aside
  <2>8. CASE req[k].reply.ok
    <3>1. RT!OnItsWay(k)
      BY <2>1, <2>3, <2>8 DEF RT!OnItsWay, RT!Brings
    <3>2. \A j \in RT!Kinds \ {k} : RT!OnItsWay(j)' <=> RT!OnItsWay(j)
      BY <2>4 DEF RT!OnItsWay, RT!Brings
    <3>3. \A j \in ListKinds : ~RT!OnItsWay(j)'
      BY <2>1, <2>3, <2>6, <3>1, <3>2 DEF CleanList, ListKinds, RT!Kinds
    <3>4. \A j \in ListKinds \ {k} : Coming(j) => Coming(j)'
      BY <2>1, <2>2, <2>3, <2>4, <3>1, <3>2 DEF Coming, ListKinds, RT!Kinds
    <3>5. counts' = RT!Counts(shown') /\ RT!Counts(shown)' = RT!Counts(shown')
      <4>1. CASE k = "generate"
        BY <2>1, <2>3, <2>8, <3>1, <4>1 DEF CleanList
      <4>2. CASE k # "generate"
        BY <2>1, <2>8, <4>2
      <4> QED BY <4>1, <4>2
    <3>6. shown' = req[k].reply.cases
      BY <2>1, <2>8
    <3>7. shown' \in since'.cases \/ \E j \in ListKinds : Coming(j)'
      BY <2>1, <2>2, <2>3, <3>1, <3>4, <3>6 DEF CleanList
    <3>8. \A j \in ListKinds : RT!Arrived(j)' /\ req'[j].step = "get" => req'[j].reply.ok
      BY <2>1, <2>3, <2>4, <2>6 DEF CleanList, RT!Arrived, ListKinds, RT!Kinds
    <3>9. ~RT!OnItsWay("generate")'
      BY <3>3 DEF ListKinds
    <3>10. CleanList'
      BY <3>3, <3>5, <3>7, <3>8, <3>9 DEF CleanList
    <3>11. \A j \in RunKinds : req'[j] = req[j] /\ (RT!OnItsWay(j)' <=> RT!OnItsWay(j))
      BY <2>1, <2>4, <3>2 DEF ListKinds, RunKinds, RT!Kinds
    <3>12. CleanRuns'
      BY <2>2, <2>3, <3>11 DEF CleanRuns
    <3> QED BY <3>10, <3>12
  <2> QED BY <2>7, <2>8
<1>10. CASE RT!ArriveRuns \/ RT!ArriveRun
  <2>1. PICK k \in RunKinds :
          /\ RT!Arrived(k) /\ RT!Done(k)
          /\ IF req[k].reply.ok THEN latest' = req[k].reply.run ELSE UNCHANGED latest
    BY <1>10 DEF RT!ArriveRuns, RT!ArriveRun, RunKinds, RT!evidence
  <2>2. UNCHANGED <<shown, counts, since, clean>>
    BY <1>10 DEF RT!ArriveRuns, RT!ArriveRun, RT!list
  <2>3. Clean /\ req[k] # None /\ k \in RT!Kinds /\ req[k].reply # None
    BY <1>3, <2>1, <2>2 DEF RT!Arrived, RunKinds, RT!Kinds
  <2>4. /\ req' = [req EXCEPT ![k] = None] /\ req'[k] = None
        /\ \A j \in RT!Kinds \ {k} : req'[j] = req[j]
    BY <1>1, <2>1, <2>3, OneRequest DEF RT!Done
  <2>5. ~RT!OnItsWay(k)' /\ ~RT!Arrived(k)'
    BY <2>4 DEF RT!OnItsWay, RT!Arrived
  <2>6. \A j \in RT!Kinds \ {k} : RT!OnItsWay(j)' <=> RT!OnItsWay(j)
    BY <2>4 DEF RT!OnItsWay, RT!Brings
  <2>7. \A j \in ListKinds : req'[j] = req[j] /\ (RT!OnItsWay(j)' <=> RT!OnItsWay(j))
    BY <2>1, <2>4, <2>6 DEF ListKinds, RunKinds, RT!Kinds
  <2>8. CleanList'
    <3>1. \A j \in ListKinds : Coming(j)' <=> Coming(j)
      BY <2>2, <2>7 DEF Coming
    <3>2. req'["generate"] = req["generate"] /\ (RT!OnItsWay("generate")' <=> RT!OnItsWay("generate"))
      BY <2>7 DEF ListKinds
    <3>3. counts' = RT!Counts(shown') /\ RT!Counts(shown)' = RT!Counts(shown')
      BY <2>2, <2>3 DEF CleanList
    <3>4. \A j \in ListKinds : RT!Arrived(j)' /\ req'[j].step = "get" => req'[j].reply.ok
      BY <2>3, <2>7 DEF CleanList, RT!Arrived
    <3>5. RT!OnItsWay("generate")' =>
            RT!GeneratedCounts(req'["generate"].reply.cases)
              = RT!Counts(req'["generate"].reply.cases)
      BY <2>3, <3>2 DEF CleanList
    <3>6. \A i \in ListKinds : RT!OnItsWay(i)' =>
            req'[i].reply.cases \in since'.cases \/ \E j \in ListKinds \ {i} : Coming(j)'
      BY <2>2, <2>3, <2>7, <3>1 DEF CleanList
    <3>7. \A i, j \in ListKinds : RT!OnItsWay(i)' /\ RT!OnItsWay(j)' => i = j
      BY <2>3, <2>7 DEF CleanList
    <3>8. shown' \in since'.cases \/ \E j \in ListKinds : Coming(j)'
      BY <2>2, <2>3, <3>1 DEF CleanList
    <3> QED BY <3>3, <3>4, <3>5, <3>6, <3>7, <3>8 DEF CleanList
  <2>9. CleanRuns'
    <3>1. CASE req[k].reply.ok
      <4>1. RT!OnItsWay(k)
        BY <2>1, <2>3, <3>1 DEF RT!OnItsWay, RT!Brings, RunKinds
      <4>2. \A j \in RunKinds : ~RT!OnItsWay(j)'
        BY <2>1, <2>3, <2>5, <2>6, <4>1 DEF CleanRuns, RunKinds, RT!Kinds
      <4>3. latest' >= since'.run
        BY <2>1, <2>2, <2>3, <3>1, <4>1 DEF CleanRuns
      <4> QED BY <4>2, <4>3 DEF CleanRuns
    <3>2. CASE ~req[k].reply.ok
      <4>1. ~RT!OnItsWay(k)
        BY <3>2 DEF RT!OnItsWay
      <4>2. \A j \in RunKinds : /\ RT!OnItsWay(j)' <=> RT!OnItsWay(j)
                                /\ RT!OnItsWay(j) => req'[j] = req[j]
        BY <2>4, <2>5, <2>6, <4>1 DEF RunKinds, RT!Kinds
      <4>3. latest' = latest
        BY <2>1, <3>2
      <4> QED BY <2>2, <2>3, <4>2, <4>3 DEF CleanRuns
    <3> QED BY <3>1, <3>2
  <2> QED BY <2>8, <2>9
<1>11. CASE \E k \in RT!Kinds : RT!ArriveChange(k)
  <2>1. PICK k \in RT!Kinds : RT!ArriveChange(k)
    BY <1>11
  <2>2. /\ k \in {"status", "edit"} /\ RT!Arrived(k) /\ req[k].step = "post"
        /\ IF req[k].reply.ok THEN RT!Reload(k) ELSE RT!Done(k)
        /\ UNCHANGED <<shown, counts, latest, since, clean>>
    BY <2>1 DEF RT!ArriveChange, RT!list, RT!evidence
  <2>3. Clean /\ req[k] # None /\ req[k].reply # None /\ k \in ListKinds
    BY <1>3, <2>2 DEF RT!Arrived, ListKinds
  <2>4. ~RT!OnItsWay(k)
    BY <2>2 DEF RT!OnItsWay, RT!Brings
  <2>5. CASE ~req[k].reply.ok
    <3>1. req' = [req EXCEPT ![k] = None]
      BY <2>2, <2>5 DEF RT!Done
    <3>2. req'[k] = None
      BY <1>1, <3>1, OneRequest
    <3>3. ~Coming(k) /\ ~RT!OnItsWay(k)' /\ ~RT!Arrived(k)'
      BY <2>2, <2>3, <2>4, <2>5, <3>2 DEF Coming, RT!OnItsWay, RT!Arrived
    <3> QED BY <1>1, <2>2, <2>3, <2>4, <3>1, <3>3, Aside
  <2>6. CASE req[k].reply.ok
    <3>1. PICK v : v = RT!Get(k)
      OBVIOUS
    <3>2. req' = [req EXCEPT ![k] = v]
      BY <2>2, <2>6, <3>1 DEF RT!Reload
    <3>3. req'[k] = v /\ \A j \in RT!Kinds \ {k} : req'[j] = req[j]
      BY <1>1, <3>2, OneRequest
    <3>4. v = [kind |-> k, step |-> "get", case |-> None, mode |-> None, reply |-> None]
      BY <3>1 DEF RT!Get, RT!Fresh
    <3>5. v # None
      <4>1. v \in RT!Requests
        BY <3>4 DEF RT!Requests
      <4> QED BY <1>4, <4>1
    <3>6. v.reply = None /\ v.step = "get"
      BY <3>4
    <3>7. Coming(k)' /\ ~RT!OnItsWay(k)' /\ ~RT!Arrived(k)'
      BY <3>3, <3>5, <3>6 DEF Coming, RT!OnItsWay, RT!Arrived
    <3>8. \A j \in RT!Kinds \ {k} : RT!OnItsWay(j)' <=> RT!OnItsWay(j)
      BY <3>3 DEF RT!OnItsWay, RT!Brings
    <3>9. CleanList'
      <4>1. \A i, j \in ListKinds : RT!OnItsWay(i)' /\ RT!OnItsWay(j)' => i = j
        BY <2>3, <3>7, <3>8 DEF CleanList, ListKinds, RT!Kinds
      <4>2. \A i \in ListKinds : RT!OnItsWay(i)' => \E j \in ListKinds \ {i} : Coming(j)'
        BY <2>3, <3>7
      <4>3. req'["generate"] = req["generate"] /\ (RT!OnItsWay("generate")' <=> RT!OnItsWay("generate"))
        BY <2>2, <3>3, <3>8 DEF RT!Kinds
      <4>4. RT!OnItsWay("generate")' =>
              RT!GeneratedCounts(req'["generate"].reply.cases)
                = RT!Counts(req'["generate"].reply.cases)
        BY <2>3, <4>3 DEF CleanList
      <4>5. counts' = RT!Counts(shown') /\ RT!Counts(shown)' = RT!Counts(shown')
        BY <2>2, <2>3 DEF CleanList
      <4>6. \A j \in ListKinds : RT!Arrived(j)' /\ req'[j].step = "get" => req'[j].reply.ok
        BY <2>3, <3>3, <3>7 DEF CleanList, RT!Arrived, ListKinds, RT!Kinds
      <4> QED BY <2>3, <3>7, <4>1, <4>2, <4>4, <4>5, <4>6 DEF CleanList
    <3>10. \A j \in RunKinds : req'[j] = req[j] /\ (RT!OnItsWay(j)' <=> RT!OnItsWay(j))
      BY <2>2, <3>3, <3>8 DEF RunKinds, RT!Kinds
    <3>11. CleanRuns'
      BY <2>2, <2>3, <3>10 DEF CleanRuns
    <3> QED BY <3>9, <3>11
  <2> QED BY <2>5, <2>6
<1>12. CASE RT!OtherUser
  <2>1. /\ since' = [since EXCEPT !.cases = since.cases \cup {cases'}]
        /\ UNCHANGED <<shown, counts, latest, req, clean>>
    BY <1>12 DEF RT!OtherUser, RT!list, RT!evidence
  <2>2. since'.cases = since.cases \cup {cases'} /\ since'.run = since.run
    BY <1>1, <2>1 DEF SinceInv
  <2>3. Clean /\ \A j : RT!OnItsWay(j)' <=> RT!OnItsWay(j)
    BY <1>3, <2>1 DEF RT!OnItsWay, RT!Brings
  <2>4. \A j : Coming(j) => Coming(j)'
    BY <2>1, <2>2, <2>3 DEF Coming
  <2>5. CleanRuns'
    BY <2>1, <2>2, <2>3 DEF CleanRuns
  <2>6. CleanList'
    <3>1. \A i, j \in ListKinds : RT!OnItsWay(i)' /\ RT!OnItsWay(j)' => i = j
      BY <2>3 DEF CleanList
    <3>2. counts' = RT!Counts(shown') /\ RT!Counts(shown)' = RT!Counts(shown')
      BY <2>1, <2>3 DEF CleanList
    <3>3. shown' \in since'.cases \/ \E j \in ListKinds : Coming(j)'
      BY <2>1, <2>2, <2>3, <2>4 DEF CleanList
    <3>4. \A i \in ListKinds : RT!OnItsWay(i)' =>
            req'[i].reply.cases \in since'.cases \/ \E j \in ListKinds \ {i} : Coming(j)'
      BY <2>1, <2>2, <2>3, <2>4 DEF CleanList
    <3>5. RT!OnItsWay("generate")' =>
            RT!GeneratedCounts(req'["generate"].reply.cases)
              = RT!Counts(req'["generate"].reply.cases)
      BY <2>1, <2>3 DEF CleanList
    <3>6. \A j \in ListKinds : RT!Arrived(j)' /\ req'[j].step = "get" => req'[j].reply.ok
      BY <2>1, <2>3 DEF CleanList, RT!Arrived
    <3> QED BY <3>1, <3>2, <3>3, <3>4, <3>5, <3>6 DEF CleanList
  <2> QED BY <2>5, <2>6
<1>13. \/ UNCHANGED <<shown, counts, latest, req, since, clean>> \/ RT!OtherUser
       \/ RT!handleGenerate \/ RT!handleRun \/ RT!handleStatusActionConfirm
       \/ RT!handleEditConfirm \/ (\E k \in RT!Kinds : RT!Answer(k))
       \/ RT!ArriveList \/ RT!ArriveGenerate
       \/ RT!ArriveRuns \/ RT!ArriveRun
       \/ \E k \in RT!Kinds : RT!ArriveChange(k) \/ RT!ArriveReload(k)
  <2>1. CASE UNCHANGED RT!vars
    BY <2>1 DEF RT!vars
  <2>2. CASE \/ \E c \in Cases : RT!handleStatusActionRequest(c) \/ RT!handleEditRequest(c)
             \/ RT!handleStatusActionCancel \/ RT!handleEditCancel \/ RT!ArriveSet
    BY <2>2 DEF RT!handleStatusActionRequest, RT!handleEditRequest,
       RT!handleStatusActionCancel, RT!handleEditCancel, RT!ArriveSet,
       RT!list, RT!evidence
  <2> QED BY <2>1, <2>2 DEF RT!Next, RT!Arrive
<1> QED BY <1>6, <1>7, <1>8, <1>9, <1>10, <1>11, <1>12, <1>13

LEMMA TestsStep == TestsInv /\ (RT!Next \/ UNCHANGED RT!vars) => TestsInv'
<1> SUFFICES ASSUME TestsInv, RT!Next \/ UNCHANGED RT!vars PROVE TestsInv'
  OBVIOUS
<1>1. clean' \in BOOLEAN
  <2>1. clean \in BOOLEAN
    BY DEF TestsInv
  <2>2. CASE \E k, r : RT!Send(k, r)
    BY <2>1, <2>2 DEF RT!Send
  <2>3. CASE \E k \in RT!Kinds : RT!Answer(k)
    BY <2>3 DEF RT!Answer
  <2>4. CASE RT!OtherUser
    BY <2>1, <2>4 DEF RT!OtherUser
  <2>5. CASE clean' = clean
    BY <2>1, <2>5
  <2>6. RT!Arrive => clean' = clean
    BY DEF RT!Arrive, RT!ArriveSet, RT!ArriveList, RT!ArriveRuns,
       RT!ArriveGenerate, RT!ArriveRun, RT!ArriveChange, RT!ArriveReload
  <2>7. UNCHANGED RT!vars => clean' = clean
    BY DEF RT!vars
  <2>8. \/ \E k, r : RT!Send(k, r)
        \/ \E k \in RT!Kinds : RT!Answer(k)
        \/ RT!OtherUser \/ clean' = clean
    BY <2>6, <2>7 DEF RT!Next, RT!handleGenerate, RT!handleRun,
       RT!handleStatusActionRequest, RT!handleEditRequest,
       RT!handleStatusActionCancel, RT!handleEditCancel,
       RT!handleStatusActionConfirm, RT!handleEditConfirm
  <2> QED BY <2>2, <2>3, <2>4, <2>5, <2>8
<1> QED BY <1>1, CasesStep, TestsShownStep, TestsAskedStep, SinceStep, CleanStep DEF TestsInv

LEMMA TestsMeans ==
  TestsInv => /\ RT!TypeOK /\ RT!SettledPageIsCurrent /\ RT!GateIsServerGate
              /\ RT!TabCountsMatchRows /\ RT!VerdictMatchesResults
<1> SUFFICES ASSUME TestsInv
             PROVE  /\ RT!TypeOK /\ RT!SettledPageIsCurrent /\ RT!GateIsServerGate
                    /\ RT!TabCountsMatchRows /\ RT!VerdictMatchesResults
  OBVIOUS
<1>1. /\ CasesStored /\ TestsShown /\ TestsAsked
      /\ runs \in Seq(RT!Run) /\ Len(runs) \in Nat
  BY DEF TestsInv, CasesStored
<1>2. RT!TypeOK
  BY <1>1 DEF RT!TypeOK, CasesStored, TestsShown, TestsAsked, TestRequest, RT!CaseLists
<1>3. RT!Settled /\ clean =>
        /\ shown \in since.cases /\ counts = RT!Counts(shown)
        /\ latest \in since.run..Len(runs)
  <2> SUFFICES ASSUME RT!Settled, clean
               PROVE  /\ shown \in since.cases /\ counts = RT!Counts(shown)
                      /\ latest \in since.run..Len(runs)
    OBVIOUS
  <2>1. \A k \in ListKinds : ~Coming(k)
    BY DEF Coming, ListKinds, RT!Settled, RT!Kinds
  <2>2. \A k \in RunKinds : ~RT!OnItsWay(k)
    BY DEF RT!OnItsWay, RunKinds, RT!Settled, RT!Kinds
  <2>3. CleanList /\ CleanRuns /\ SinceInv
    BY DEF TestsInv
  <2>4. latest \in 0..Len(runs) /\ since.run \in 0..Len(runs) /\ latest >= since.run
    BY <1>1, <2>2, <2>3 DEF CleanRuns, SinceInv, TestsShown
  <2> QED BY <1>1, <2>1, <2>3, <2>4 DEF CleanList
<1>4. RT!SettledPageIsCurrent
  BY <1>3 DEF RT!SettledPageIsCurrent
<1>5. \A i \in 1..Len(runs) : runs[i] # None
  BY <1>1, PagesAssumption DEF RT!CaseAssumption
<1>6. /\ latest \in 0..Len(runs)
      /\ RT!latestRun = (IF latest = 0 THEN None ELSE runs[latest])
      /\ RT!latestRun = None <=> latest = 0
  BY <1>1, <1>5 DEF TestsShown, RT!latestRun
<1>7. \A cs \in RT!CaseLists :
        /\ IsFiniteSet(Cases) /\ RT!Active(cs) \subseteq Cases
        /\ IsFiniteSet(RT!Active(cs)) /\ IsFiniteSet(Cases \ RT!Active(cs))
        /\ Cardinality(RT!Active(cs)) \in Nat
        /\ Cardinality(Cases \ RT!Active(cs)) \in Nat
        /\ RT!Counts(cs).active = Cardinality(RT!Active(cs))
        /\ RT!Counts(cs).disabled
             = IF cs = None THEN 0 ELSE Cardinality(Cases \ RT!Active(cs))
  <2> TAKE cs \in RT!CaseLists
  <2>1. /\ RT!Active(cs) \subseteq Cases /\ Cases \ RT!Active(cs) \subseteq Cases
        /\ IsFiniteSet(Cases)
    BY PagesAssumption DEF RT!Active, RT!CaseAssumption, RT!IsFiniteSet, IsFiniteSet
  <2>2. IsFiniteSet(RT!Active(cs)) /\ IsFiniteSet(Cases \ RT!Active(cs))
    BY <2>1, FS_Subset
  <2>3. Cardinality(RT!Active(cs)) \in Nat /\ Cardinality(Cases \ RT!Active(cs)) \in Nat
    BY <2>2, FS_CardinalityType
  <2>4. /\ RT!Counts(cs).active = Cardinality(RT!Active(cs))
        /\ RT!Counts(cs).disabled
             = IF cs = None THEN 0 ELSE Cardinality(Cases \ RT!Active(cs))
    BY DEF RT!Counts, RT!Cardinality, Cardinality
  <2> QED BY <2>1, <2>2, <2>3, <2>4
<1>8. shown \in RT!CaseLists
  BY <1>1 DEF TestsShown
<1>9. RT!GateIsServerGate
  <2> SUFFICES ASSUME RT!Settled, clean
               PROVE  RT!resolveRuleTestRunGateStatus = RT!Gate(shown, latest)
    BY <1>3 DEF RT!GateIsServerGate
  <2>1. counts.active = 0 <=> RT!Active(shown) = {}
    <3>1. counts.active = Cardinality(RT!Active(shown))
      BY <1>3, <1>7, <1>8
    <3>2. Cardinality(RT!Active(shown)) = 0 <=> RT!Active(shown) = {}
      BY <1>7, <1>8, FS_EmptySet
    <3> QED BY <3>1, <3>2
  <2>2. runStatus = "ready"
    BY DEF RT!Settled
  <2> QED BY <1>6, <2>1, <2>2 DEF RT!resolveRuleTestRunGateStatus, RT!Gate
<1>10. RT!TabCountsMatchRows
  <2> SUFFICES ASSUME RT!Settled, clean, NEW f \in RT!Filters
               PROVE  RT!TabCount(f) = RT!Cardinality(RT!filterRuleTestCases(f))
    BY DEF RT!TabCountsMatchRows
  <2>0. \A S : RT!Cardinality(S) = Cardinality(S)
    BY DEF RT!Cardinality, Cardinality
  <2>1. /\ counts.active = Cardinality(RT!Active(shown))
        /\ counts.disabled
             = IF shown = None THEN 0 ELSE Cardinality(Cases \ RT!Active(shown))
    BY <1>3, <1>7, <1>8
  <2>2. CASE shown = None
    <3>1. RT!Active(shown) = {} /\ Cardinality({}) = 0
      BY <2>2, FS_EmptySet DEF RT!Active
    <3>2. RT!filterRuleTestCases(f) = {}
      BY <2>1, <2>2 DEF RT!filterRuleTestCases
    <3>3. counts.active = 0 /\ counts.disabled = 0
      BY <2>1, <2>2, <3>1
    <3>4. RT!TabCount(f) = 0
      BY <3>3 DEF RT!TabCount, RT!Total, RT!Filters
    <3> QED BY <2>0, <3>1, <3>2, <3>4
  <2>3. CASE shown # None
    <3> DEFINE on == RT!Active(shown) off == Cases \ RT!Active(shown)
    <3>1. IsFiniteSet(on) /\ IsFiniteSet(off) /\ on \cap off = {} /\ on \cup off = Cases
      BY <1>7, <1>8
    <3>2. Cardinality(on \cup off) = Cardinality(on) + Cardinality(off) - Cardinality(on \cap off)
      BY <3>1, FS_Union
    <3>3. Cardinality(Cases) = Cardinality(on) + Cardinality(off)
      <4>1. Cardinality(on) \in Nat /\ Cardinality(off) \in Nat
        BY <1>7, <1>8
      <4>2. Cardinality(on \cap off) = 0
        BY <3>1, FS_EmptySet
      <4> HIDE DEF on, off
      <4>3. Cardinality(on \cup off) = Cardinality(Cases)
        BY <3>1, Zenon
      <4>4. Cardinality(Cases)
              = Cardinality(on) + Cardinality(off) - Cardinality(on \cap off)
        BY <3>2, <4>3, Zenon
      <4> QED BY <4>1, <4>2, <4>4
    <3>4. CASE f = "all"
      BY <2>0, <2>1, <2>3, <3>3, <3>4 DEF RT!TabCount, RT!Total, RT!filterRuleTestCases
    <3>5. CASE f = "active"
      BY <2>0, <2>1, <2>3, <3>5 DEF RT!TabCount, RT!filterRuleTestCases
    <3>6. CASE f = "disabled"
      BY <2>0, <2>1, <2>3, <3>6 DEF RT!TabCount, RT!filterRuleTestCases
    <3> QED BY <3>4, <3>5, <3>6 DEF RT!Filters
  <2> QED BY <2>2, <2>3
<1>11. RT!VerdictMatchesResults
  <2>1. RT!resolveRuleTestRunGateStatus = "failed_run" => latest # 0 /\ ~RT!latestRun.overall
    BY <1>6 DEF RT!resolveRuleTestRunGateStatus
  <2>2. RT!resolveRuleTestRunGateStatus = "open" => latest # 0 /\ RT!latestRun.overall
    BY <1>6 DEF RT!resolveRuleTestRunGateStatus
  <2>3. latest # 0 => /\ RT!latestRun # None
                      /\ RT!latestRun.overall <=> RT!latestRun.failed = {}
    BY <1>1, <1>6 DEF CasesStored
  <2>4. latest # 0 => RT!getFailedRuleTestRunResults = RT!latestRun.failed
    BY <2>3 DEF RT!getFailedRuleTestRunResults
  <2>5. latest # 0 /\ RT!latestRun.failed = {} => \A r : RT!resolveRuleRunStatus(r) # "failed"
    BY <2>3 DEF RT!resolveRuleRunStatus
  <2> QED BY <2>1, <2>2, <2>3, <2>4, <2>5 DEF RT!VerdictMatchesResults
<1> QED BY <1>2, <1>4, <1>9, <1>10, <1>11

-----------------------------------------------------------------------------
(* The compliance evaluations of a report.                                 *)
Evaluations ==
  /\ compiled \subseteq Versions /\ cases \subseteq compiled \cap Enforceable
  /\ verdict \in [Versions -> ES!Verdicts]
  /\ evals \in Seq(Evaluable)
  /\ acts \in 0..EvaluationActs /\ others \in 0..EvaluationOthers

(* What the section holds.  Evidence that has loaded is that of the version*)
(* selected.                                                               *)
Section ==
  /\ status \in [ES!Loads -> ES!Status]
  /\ selected \in Versions \cup {None} /\ resolved \in compiled \cup {None}
  /\ tests = [of |-> tests.of, latest |-> tests.latest]
  /\ tests.of \in Versions \cup {None} /\ tests.latest \in ES!Verdicts
  /\ listed \in Seq(1..Len(evals))
  /\ status["set"] = "ready" => resolved \in {selected, None}
  /\ status["tests"] = "ready" => tests.of = resolved

(* What an answer to a load of the section may say.                        *)
MaySay(r) ==
  /\ r.load = "set" => r.value = None \/ r.value \subseteq {r.of} \cap compiled
  /\ r.load = "tests" => r.value = None \/ \E w \in ES!Verdicts : r.value = {w}
  /\ r.load = "runs" => r.value = None \/ \E m \in 0..Len(evals) : r.value = 1..m

(* A load in flight is the only one of its kind and is about the version   *)
(* selected, or the set that the section holds.                            *)
LoadsInFlight ==
  /\ \A r \in replies :
       /\ r = [load |-> r.load, of |-> r.of, value |-> r.value]
       /\ r.load \in ES!Loads
       /\ MaySay(r)
       /\ r.load = "versions" => status["versions"] = "loading"
       /\ r.load = "set" => /\ r.of = selected /\ selected # None
                            /\ status["set"] = "loading"
       /\ r.load = "tests" => r.of = resolved /\ resolved # None
  /\ \A r, q \in replies : r.load = q.load => r = q

(* An evaluation in flight is of the version selected, which cannot change *)
(* until it is over.                                                       *)
Evaluating ==
  exec # None =>
    /\ exec = [of |-> exec.of, step |-> exec.step, run |-> exec.run,
               fetch |-> exec.fetch]
    /\ exec.of = selected /\ selected # None
    /\ status["versions"] = "ready" /\ status["set"] # "loading"
    /\ exec.step = "posted" => exec.run \in 1..Len(evals)

(* A gate that is open now, an answer that says so or tells of no set, and *)
(* what the section took from one: the gate was open at such a moment.     *)
Gates ==
  /\ opened \subseteq Versions
  /\ \A v \in Versions : ES!ServerGate(v) => v \in opened
  /\ \A r \in replies :
       /\ r.load = "tests" /\ r.value # None /\ r.value = {"passed"} => r.of \in opened
       /\ r.load = "set" /\ r.value # None /\ r.value = {} => r.of \in opened
  /\ status["tests"] = "ready" /\ tests.latest = "passed" => tests.of \in opened
  /\ status["set"] = "ready" /\ resolved = None /\ selected # None =>
       selected \in opened
EvaluationInv == Evaluations /\ Section /\ LoadsInFlight /\ Evaluating /\ Gates

LEMMA EvaluationInit == ES!Init => EvaluationInv
<1> SUFFICES ASSUME ES!Init PROVE EvaluationInv
  OBVIOUS
<1>1. EvaluationActs \in Nat /\ EvaluationOthers \in Nat
  BY PagesAssumption DEF ES!VersionAssumption
<1>2. Evaluations
  <2>1. PICK C \in SUBSET Versions : \E A \in SUBSET (C \cap Enforceable) :
          compiled = C /\ cases = A
    BY DEF ES!Init
  <2>2. /\ verdict \in [Versions -> ES!Verdicts] /\ evals = <<>>
        /\ acts = 0 /\ others = 0
    BY DEF ES!Init
  <2> QED BY <1>1, <2>1, <2>2 DEF Evaluations
<1>3. /\ status = [l \in ES!Loads |-> IF l \in {"versions", "runs"} THEN "loading" ELSE "ready"]
      /\ selected = None /\ resolved = None /\ listed = <<>> /\ exec = None
      /\ tests = [of |-> None, latest |-> "none"]
      /\ replies = {ES!Request(l, None) : l \in {"versions", "runs"}}
  BY DEF ES!Init, ES!Request
<1>4. Section
  <2>1. listed \in Seq(1..Len(evals))
    BY <1>3
  <2>2. status \in [ES!Loads -> ES!Status]
    BY <1>3 DEF ES!Status
  <2> QED BY <1>3, <2>1, <2>2 DEF Section, ES!Verdicts
<1>5. LoadsInFlight
  <2>1. \A r \in replies : \E l \in {"versions", "runs"} :
          r = [load |-> l, of |-> None, value |-> None]
    BY <1>3 DEF ES!Request
  <2>2. status["versions"] = "loading"
    BY <1>3 DEF ES!Loads
  <2>3. ASSUME NEW r \in replies
        PROVE  /\ r = [load |-> r.load, of |-> r.of, value |-> r.value]
               /\ r.load \in {"versions", "runs"} /\ r.value = None /\ r.of = None
    BY <2>1
  <2> QED BY <2>2, <2>3 DEF LoadsInFlight, MaySay, ES!Loads
<1>6. Evaluating
  BY <1>3 DEF Evaluating
<1>7. Gates
  <2>1. opened = {v \in Versions : ES!ServerGate(v)}
    BY DEF ES!Init
  <2>2. \A r \in replies : r.value = None
    BY <1>3 DEF ES!Request
  <2>3. tests.latest = "none"
    BY <1>3
  <2> QED BY <1>3, <2>1, <2>2, <2>3 DEF Gates
<1> QED BY <1>2, <1>4, <1>5, <1>6, <1>7 DEF EvaluationInv

(* Versions are compiled and evaluations recorded for good.                *)
LEMMA EvaluationsStep ==
  EvaluationInv /\ (ES!Next \/ UNCHANGED ES!vars) =>
    /\ Evaluations' /\ compiled \subseteq compiled'
    /\ Len(evals) \in Nat /\ Len(evals') \in Nat /\ Len(evals) <= Len(evals')
<1> SUFFICES ASSUME EvaluationInv, ES!Next \/ UNCHANGED ES!vars
             PROVE  /\ Evaluations' /\ compiled \subseteq compiled'
                    /\ Len(evals) \in Nat /\ Len(evals') \in Nat /\ Len(evals) <= Len(evals')
  OBVIOUS
<1>0. Evaluations /\ Section /\ Evaluating
  BY DEF EvaluationInv
<1>1. /\ EvaluationActs \in Nat /\ EvaluationOthers \in Nat
      /\ Enforceable \subseteq Versions /\ Evaluable \subseteq Versions
  BY PagesAssumption DEF ES!VersionAssumption
<1>2. acts' = acts \/ (acts < EvaluationActs /\ acts' = acts + 1)
  <2>1. acts' = acts \/ (\E v \in Versions : ES!Select(v)) \/ ES!handleExecute
    BY DEF ES!Next, ES!OtherUser, ES!Answer, ES!Arrive, ES!Fail, ES!Execute,
     ES!ExecuteRun, ES!ExecuteAnswered, ES!ExecuteGot, ES!ExecuteFailed,
     ES!vars, ES!server
  <2>2. (\E v \in Versions : ES!Select(v)) => acts < EvaluationActs /\ acts' = acts + 1
    BY DEF ES!Select
  <2>3. ES!handleExecute => acts < EvaluationActs /\ acts' = acts + 1
    BY DEF ES!handleExecute
  <2> QED BY <2>1, <2>2, <2>3
<1>3. others' = others \/ (others < EvaluationOthers /\ others' = others + 1)
  <2>1. others' = others \/ ES!OtherUser
    BY DEF ES!Next, ES!Select, ES!Answer, ES!Arrive, ES!Fail, ES!handleExecute,
     ES!Execute, ES!ExecuteRun, ES!ExecuteAnswered, ES!ExecuteGot,
     ES!ExecuteFailed, ES!vars, ES!server
  <2> QED BY <2>1 DEF ES!OtherUser
<1>4. acts' \in 0..EvaluationActs /\ others' \in 0..EvaluationOthers
  BY <1>0, <1>1, <1>2, <1>3 DEF Evaluations
<1>5. \/ UNCHANGED <<compiled, cases, verdict, evals>>
      \/ \E v \in Versions :
           \/ /\ compiled' = compiled \cup {v}
              /\ UNCHANGED <<cases, verdict, evals>>
           \/ /\ v \in compiled \cap Enforceable
              /\ cases' = (cases \ {v}) \cup ({v} \ cases)
              /\ UNCHANGED <<compiled, verdict, evals>>
           \/ /\ \E r \in {"passed", "failed"} : verdict' = [verdict EXCEPT ![v] = r]
              /\ UNCHANGED <<compiled, cases, evals>>
           \/ /\ v \in Evaluable
              /\ compiled' = compiled \cup {v}
              /\ evals' = Append(evals, v)
              /\ UNCHANGED <<cases, verdict>>
  <2>1. exec # None => exec.of \in Versions
    BY <1>0 DEF Evaluating, Section
  <2>2. CASE ES!OtherUser
    BY <2>2 DEF ES!OtherUser, ES!Accepts
  <2>3. CASE ES!ExecuteRun
    <3>1. CASE ES!Accepts(exec.of)
      BY <2>1, <2>3, <3>1 DEF ES!ExecuteRun, ES!Accepts
    <3>2. CASE ~ES!Accepts(exec.of)
      BY <2>3, <3>2 DEF ES!ExecuteRun
    <3> QED BY <3>1, <3>2
  <2> QED BY <2>2, <2>3 DEF ES!Next, ES!Select, ES!Answer, ES!Arrive, ES!Fail, ES!handleExecute,
     ES!Execute, ES!ExecuteAnswered, ES!ExecuteGot, ES!ExecuteFailed, ES!vars,
     ES!server
<1>6. /\ compiled' \subseteq Versions /\ compiled \subseteq compiled'
      /\ cases' \subseteq compiled' \cap Enforceable
  BY <1>0, <1>1, <1>5 DEF Evaluations
<1>7. verdict' \in [Versions -> ES!Verdicts]
  BY <1>0, <1>5 DEF Evaluations, ES!Verdicts
<1>8. evals' = evals \/ \E v \in Evaluable : evals' = Append(evals, v)
  BY <1>5
<1>9. evals' \in Seq(Evaluable) /\ Len(evals) \in Nat /\ Len(evals) <= Len(evals')
      /\ Len(evals') \in Nat
  <2>1. evals \in Seq(Evaluable) /\ Len(evals) \in Nat
    BY <1>0 DEF Evaluations
  <2>2. CASE evals' = evals
    BY <2>1, <2>2
  <2>3. CASE \E v \in Evaluable : evals' = Append(evals, v)
    <3>1. PICK v \in Evaluable : evals' = Append(evals, v)
      BY <2>3
    <3>2. evals' \in Seq(Evaluable) /\ Len(evals') = Len(evals) + 1
      BY <2>1, <3>1
    <3> QED BY <2>1, <3>2
  <2> QED BY <1>8, <2>2, <2>3
<1> QED BY <1>4, <1>6, <1>7, <1>9 DEF Evaluations

(* What was said stays true of what is compiled and evaluated.             *)
LEMMA StillSaid ==
  ASSUME NEW r, MaySay(r), compiled \subseteq compiled',
         Len(evals) \in Nat, Len(evals') \in Nat, Len(evals) <= Len(evals')
  PROVE  /\ r.load = "set" => r.value = None \/ r.value \subseteq {r.of} \cap compiled'
         /\ r.load = "tests" => r.value = None \/ \E w \in ES!Verdicts : r.value = {w}
         /\ r.load = "runs" => r.value = None \/ \E m \in 0..Len(evals') : r.value = 1..m
<1>1. \A m \in 0..Len(evals) : m \in 0..Len(evals')
  OBVIOUS
<1> QED BY <1>1 DEF MaySay

(* The effects keep what is asked about what is selected and held.         *)
LEMMA ResolveKeeps ==
  ASSUME EvaluationInv, NEW v \in {selected, None}, NEW rs \in SUBSET replies,
         NEW st \in [ES!Loads -> ES!Status],
         ES!Resolve(v, rs, st), v \in compiled \cup {None},
         UNCHANGED <<compiled, evals, selected, listed>>,
         st["versions"] = status["versions"], st["tests"] = status["tests"],
         \A r \in rs : r.load = "set" => st["set"] = "loading"
  PROVE  /\ Section' /\ LoadsInFlight'
         /\ status'["versions"] = st["versions"] /\ status'["set"] = st["set"]
<1>0. Evaluations /\ Section /\ LoadsInFlight /\ compiled \subseteq Versions
  BY DEF EvaluationInv, Evaluations
<1>1. CASE v = resolved
  <2>1. status' = st /\ tests' = tests /\ replies' = rs /\ resolved' = resolved
    BY <1>1 DEF ES!Resolve
  <2>2. Section'
    BY <1>0, <1>1, <2>1 DEF Section
  <2>3. LoadsInFlight'
    BY <1>0, <2>1 DEF LoadsInFlight, MaySay
  <2> QED BY <2>1, <2>2, <2>3
<1>2. CASE v # resolved /\ v \in Enforceable
  <2>1. /\ status' = [st EXCEPT !["tests"] = "loading"] /\ tests' = tests
        /\ replies' = ES!Cancel(rs, {"tests"}) \cup {ES!Request("tests", v)}
        /\ resolved' = v
    BY <1>2 DEF ES!Resolve
  <2>2. /\ status' \in [ES!Loads -> ES!Status] /\ status'["tests"] = "loading"
        /\ status'["versions"] = st["versions"] /\ status'["set"] = st["set"]
    BY <2>1 DEF ES!Loads, ES!Status
  <2>3. Section'
    BY <1>0, <2>1, <2>2 DEF Section
  <2>4. v # None
    BY <1>2, PagesAssumption DEF ES!VersionAssumption
  <2> DEFINE q == ES!Request("tests", v)
  <2>5. /\ q = [load |-> q.load, of |-> q.of, value |-> q.value]
        /\ q.load = "tests" /\ q.of = v /\ q.value = None
    BY DEF ES!Request
  <2>6. \A r \in replies' : r = q \/ (r \in rs /\ r.load # "tests")
    BY <2>1 DEF ES!Cancel
  <2> HIDE DEF q
  <2>7. LoadsInFlight'
    BY <1>0, <2>1, <2>2, <2>4, <2>5, <2>6 DEF LoadsInFlight, MaySay, ES!Loads
  <2> QED BY <2>2, <2>3, <2>7
<1>3. CASE v # resolved /\ v \notin Enforceable
  <2>1. /\ status' = [st EXCEPT !["tests"] = "ready"]
        /\ tests' = [of |-> v, latest |-> "none"]
        /\ replies' = ES!Cancel(rs, {"tests"})
        /\ resolved' = v
    BY <1>3 DEF ES!Resolve
  <2>2. /\ status' \in [ES!Loads -> ES!Status]
        /\ status'["versions"] = st["versions"] /\ status'["set"] = st["set"]
    BY <2>1 DEF ES!Loads, ES!Status
  <2>3. Section'
    BY <1>0, <2>1, <2>2 DEF Section, ES!Verdicts
  <2>4. \A r \in replies' : r \in rs /\ r.load # "tests"
    BY <2>1 DEF ES!Cancel
  <2>5. LoadsInFlight'
    BY <1>0, <2>2, <2>4 DEF LoadsInFlight, MaySay
  <2> QED BY <2>2, <2>3, <2>5
<1> QED BY <1>1, <1>2, <1>3

LEMMA SetEffectKeeps ==
  ASSUME EvaluationInv, NEW v \in Versions, NEW rs \in SUBSET replies,
         ES!SetEffect(v, rs), status' \in [ES!Loads -> ES!Status],
         UNCHANGED <<compiled, evals, resolved, tests, listed>>,
         status'["set"] = "loading", status'["tests"] = status["tests"],
         \A r \in rs : r.load = "versions" => status'["versions"] = "loading"
  PROVE  Section' /\ LoadsInFlight'
<1>0. Evaluations /\ Section /\ LoadsInFlight
  BY DEF EvaluationInv
<1>1. selected' = v /\ replies' = ES!Cancel(rs, {"set"}) \cup {ES!Request("set", v)}
  BY DEF ES!SetEffect
<1>2. Section'
  BY <1>0, <1>1 DEF Section
<1>3. v # None
  BY PagesAssumption DEF ES!VersionAssumption
<1> DEFINE q == ES!Request("set", v)
<1>4. /\ q = [load |-> q.load, of |-> q.of, value |-> q.value]
      /\ q.load = "set" /\ q.of = v /\ q.value = None
  BY DEF ES!Request
<1>5. \A r \in replies' : r = q \/ (r \in rs /\ r.load # "set")
  BY <1>1 DEF ES!Cancel
<1> HIDE DEF q
<1>6. LoadsInFlight'
  BY <1>0, <1>1, <1>3, <1>4, <1>5 DEF LoadsInFlight, MaySay, ES!Loads
<1> QED BY <1>2, <1>6

LEMMA SectionStep ==
  EvaluationInv /\ (ES!Next \/ UNCHANGED ES!vars) =>
    Section' /\ LoadsInFlight' /\ Evaluating'
<1> SUFFICES ASSUME EvaluationInv, ES!Next \/ UNCHANGED ES!vars
             PROVE  Section' /\ LoadsInFlight' /\ Evaluating'
  OBVIOUS
<1>0. Evaluations /\ Section /\ LoadsInFlight /\ Evaluating
  BY DEF EvaluationInv
<1>1. /\ Evaluations' /\ compiled \subseteq compiled'
      /\ Len(evals) \in Nat /\ Len(evals') \in Nat /\ Len(evals) <= Len(evals')
  BY EvaluationsStep
<1>2. /\ \A m \in 0..Len(evals) : m \in 0..Len(evals')
      /\ \A m \in 1..Len(evals) : m \in 1..Len(evals')
  BY <1>1
<1>3. listed \in Seq(1..Len(evals'))
  <2> DEFINE N == 1..Len(evals)  M == 1..Len(evals')
  <2>1. listed \in Seq(N) /\ N \subseteq M
    BY <1>0, <1>2 DEF Section
  <2> HIDE DEF N, M
  <2>2. listed \in Seq(M)
    BY <2>1
  <2> QED BY <2>2 DEF M
<1>4. CASE UNCHANGED <<status, selected, resolved, tests, replies>>
           /\ listed' \in Seq(1..Len(evals')) /\ Evaluating'
  <2>1. Section'
    BY <1>0, <1>1, <1>4 DEF Section
  <2>2. LoadsInFlight'
    <3>1. \A r \in replies : MaySay(r)'
      <4> TAKE r \in replies
      <4>1. MaySay(r)
        BY <1>0 DEF LoadsInFlight
      <4> QED BY <1>1, <4>1, StillSaid DEF MaySay
    <3> QED BY <1>0, <1>4, <3>1 DEF LoadsInFlight
  <2> QED BY <1>4, <2>1, <2>2
<1>5. CASE ES!OtherUser \/ UNCHANGED ES!vars
  <2>1. UNCHANGED <<status, selected, resolved, tests, replies, listed, exec>>
    BY <1>5 DEF ES!OtherUser, ES!vars
  <2>2. Evaluating'
    BY <1>0, <1>2, <2>1 DEF Evaluating
  <2> QED BY <1>3, <1>4, <2>1, <2>2
<1>6. CASE ES!handleExecute
  <2>1. /\ UNCHANGED <<status, selected, resolved, tests, replies, listed, evals>>
        /\ exec' = [of |-> selected, step |-> "post", run |-> 0, fetch |-> resolved = None]
        /\ status["versions"] = "ready" /\ selected # None /\ status["set"] # "loading"
    BY <1>6 DEF ES!handleExecute, ES!CanRun, ES!FormShown, ES!server
  <2>2. Evaluating'
    BY <2>1 DEF Evaluating
  <2> QED BY <1>3, <1>4, <2>1, <2>2
<1>7. CASE ES!ExecuteRun
  <2>1. /\ UNCHANGED <<status, selected, resolved, tests, replies, listed>>
        /\ exec # None
    BY <1>7 DEF ES!ExecuteRun
  <2>2. exec = [of |-> exec.of, step |-> exec.step, run |-> exec.run, fetch |-> exec.fetch]
    BY <1>0, <2>1 DEF Evaluating
  <2>3. CASE ES!Accepts(exec.of)
    <3> DEFINE n == Len(evals) + 1
    <3>1. /\ exec' = [exec EXCEPT !.step = "posted", !.run = n]
          /\ evals' = Append(evals, exec.of)
      BY <1>7, <2>3 DEF ES!ExecuteRun
    <3>2. n \in 1..Len(evals')
      <4>1. exec.of \in Evaluable /\ evals \in Seq(Evaluable)
        BY <1>0, <2>3 DEF ES!Accepts, Evaluations
      <4>2. Len(evals') = Len(evals) + 1
        BY <3>1, <4>1
      <4> QED BY <1>1, <4>2
    <3> HIDE DEF n
    <3>3. exec' = [of |-> exec.of, step |-> "posted", run |-> n, fetch |-> exec.fetch]
      BY <2>2, <3>1
    <3>4. exec'.of = exec.of /\ exec'.step = "posted" /\ exec'.run = n
          /\ exec'.fetch = exec.fetch
      BY <3>3
    <3>5. Evaluating'
      BY <1>0, <2>1, <3>2, <3>3, <3>4 DEF Evaluating
    <3> QED BY <1>3, <1>4, <2>1, <3>5
  <2>4. CASE ~ES!Accepts(exec.of)
    <3>1. exec' = [exec EXCEPT !.step = "failed"] /\ evals' = evals
      BY <1>7, <2>4 DEF ES!ExecuteRun
    <3>2. exec' = [of |-> exec.of, step |-> "failed", run |-> exec.run, fetch |-> exec.fetch]
      BY <2>2, <3>1
    <3>3. Evaluating'
      BY <1>0, <2>1, <3>2 DEF Evaluating
    <3> QED BY <1>3, <1>4, <2>1, <3>3
  <2> QED BY <2>3, <2>4
<1>8. CASE ES!ExecuteAnswered
  <2>1. /\ UNCHANGED <<status, selected, resolved, tests, replies, evals>>
        /\ exec # None /\ exec.step = "posted" /\ listed' = <<exec.run>> \o listed
        /\ exec' = IF exec.fetch THEN [exec EXCEPT !.step = "get"] ELSE None
    BY <1>8 DEF ES!ExecuteAnswered, ES!server
  <2>2. /\ exec = [of |-> exec.of, step |-> exec.step, run |-> exec.run,
                   fetch |-> exec.fetch]
        /\ exec.run \in 1..Len(evals')
    BY <1>0, <2>1 DEF Evaluating
  <2>3. Evaluating'
    <3>1. CASE exec.fetch
      <4>1. exec' = [of |-> exec.of, step |-> "get", run |-> exec.run,
                     fetch |-> exec.fetch]
        BY <2>1, <2>2, <3>1
      <4> QED BY <1>0, <2>1, <4>1 DEF Evaluating
    <3>2. CASE ~exec.fetch
      BY <2>1, <3>2 DEF Evaluating
    <3> QED BY <3>1, <3>2
  <2>4. listed' \in Seq(1..Len(evals'))
    <3> DEFINE M == 1..Len(evals')
    <3>1. listed \in Seq(M) /\ exec.run \in M
      BY <1>3, <2>2
    <3> HIDE DEF M
    <3>2. <<exec.run>> \o listed \in Seq(M)
      BY <3>1
    <3> QED BY <2>1, <3>2 DEF M
  <2> QED BY <1>4, <2>1, <2>3, <2>4
<1>9. CASE ES!ExecuteFailed
  <2>1. UNCHANGED <<status, selected, resolved, tests, replies, listed>> /\ exec' = None
    BY <1>9 DEF ES!ExecuteFailed
  <2>2. Evaluating'
    BY <2>1 DEF Evaluating
  <2> QED BY <1>3, <1>4, <2>1, <2>2
<1>10. CASE ES!ExecuteGot
  <2> DEFINE v == ES!The({exec.of} \cap compiled)
  <2>1. /\ exec # None /\ exec' = None /\ ES!Resolve(v, replies, status)
        /\ UNCHANGED <<compiled, evals, selected, listed>>
    BY <1>10 DEF ES!ExecuteGot, ES!Read, ES!server
  <2>2. v \in {selected, None} /\ v \in compiled \cup {None}
    <3>1. exec.of = selected
      BY <1>0, <2>1 DEF Evaluating
    <3> QED BY <3>1 DEF ES!The
  <2>3. status \in [ES!Loads -> ES!Status] /\ replies \in SUBSET replies
        /\ \A r \in replies : r.load = "set" => status["set"] = "loading"
    BY <1>0 DEF Section, LoadsInFlight
  <2> HIDE DEF v
  <2>4. Section' /\ LoadsInFlight'
    BY <2>1, <2>2, <2>3, ResolveKeeps
  <2> QED BY <2>1, <2>4 DEF Evaluating
<1>11. CASE \E v \in Versions : ES!Select(v)
  <2>1. PICK v \in Versions : ES!Select(v)
    BY <1>11
  <2>2. /\ ES!SetEffect(v, replies) /\ exec = None /\ exec' = None
        /\ status' = [status EXCEPT !["set"] = "loading"]
        /\ UNCHANGED <<compiled, evals, resolved, tests, listed>>
    BY <2>1 DEF ES!Select, ES!server
  <2>3. /\ status' \in [ES!Loads -> ES!Status] /\ status'["set"] = "loading"
        /\ status'["tests"] = status["tests"]
        /\ \A r \in replies : r.load = "versions" => status'["versions"] = "loading"
    BY <1>0, <2>2 DEF Section, LoadsInFlight, ES!Loads, ES!Status
  <2>4. Section' /\ LoadsInFlight'
    BY <2>2, <2>3, SetEffectKeeps
  <2> QED BY <2>2, <2>4 DEF Evaluating
<1>12. CASE \E r \in replies : ES!Answer(r)
  <2>1. PICK r \in replies : ES!Answer(r)
    BY <1>12
  <2> DEFINE v == ES!Read(r.load, r.of)
             w == [r EXCEPT !.value = v]
  <2>2. /\ replies' = (replies \ {r}) \cup {w}
        /\ UNCHANGED <<compiled, cases, verdict, evals, status, selected, resolved, tests,
                       listed, exec>>
    BY <2>1 DEF ES!Answer, ES!server
  <2>3. /\ r.load = "set" => v = {r.of} \cap compiled
        /\ r.load = "tests" => v = {verdict[r.of]}
        /\ r.load = "runs" => v = 1..Len(evals)
    BY DEF ES!Read
  <2>4. r.load = "tests" => verdict[r.of] \in ES!Verdicts
    <3>1. r.load = "tests" => r.of \in Versions
      BY <1>0 DEF LoadsInFlight, Section, Evaluations
    <3> QED BY <1>0, <3>1 DEF Evaluations
  <2> HIDE DEF v
  <2>5. /\ w = [load |-> w.load, of |-> w.of, value |-> w.value]
        /\ w.load = r.load /\ w.of = r.of /\ w.value = v
    BY <1>0 DEF LoadsInFlight
  <2> HIDE DEF w
  <2>6. MaySay(w)
    <3>1. Len(evals) \in 0..Len(evals)
      BY <1>1
    <3> QED BY <2>3, <2>4, <2>5, <3>1 DEF MaySay
  <2>7. LoadsInFlight'
    <3>1. \A q \in replies' : (q \in replies \ {r}) \/ q = w
      BY <2>2
    <3>2. \A q \in replies' : MaySay(q)'
      BY <1>0, <2>2, <2>6, <3>1 DEF LoadsInFlight, MaySay
    <3> QED BY <1>0, <2>2, <2>5, <3>1, <3>2 DEF LoadsInFlight
  <2>8. Section' /\ Evaluating'
    BY <1>0, <2>2 DEF Section, Evaluating
  <2> QED BY <2>7, <2>8
<1>13. CASE \E r \in replies : ES!Arrive(r)
  <2>1. PICK r \in replies : ES!Arrive(r)
    BY <1>13
  <2>2. UNCHANGED <<compiled, evals, exec>> /\ r.value # None
    BY <2>1 DEF ES!Arrive, ES!server
  <2>3. CASE ES!ArriveVersions(r)
    <3>1. /\ r.load = "versions" /\ ES!SetEffect(Newest, replies \ {r})
          /\ status' = [status EXCEPT !["versions"] = "ready", !["set"] = "loading"]
          /\ UNCHANGED <<resolved, tests, listed>>
      BY <2>3 DEF ES!ArriveVersions
    <3>2. /\ status' \in [ES!Loads -> ES!Status] /\ status'["set"] = "loading"
          /\ status'["tests"] = status["tests"]
      BY <1>0, <3>1 DEF Section, ES!Loads, ES!Status
    <3>3. exec = None
      BY <1>0, <3>1 DEF LoadsInFlight, Evaluating
    <3>4. \A q \in replies \ {r} : q.load # "versions"
      BY <1>0, <3>1 DEF LoadsInFlight
    <3>5. Newest \in Versions /\ replies \ {r} \in SUBSET replies
      BY PagesAssumption DEF ES!VersionAssumption
    <3>6. Section' /\ LoadsInFlight'
      BY <2>2, <3>1, <3>2, <3>4, <3>5, SetEffectKeeps
    <3> QED BY <2>2, <3>3, <3>6 DEF Evaluating
  <2>4. CASE ES!ArriveRuns(r)
    <3>1. /\ r.load = "runs" /\ listed' = ES!SeqUpTo(r.value)
          /\ status' = [status EXCEPT !["runs"] = "ready"]
          /\ replies' = replies \ {r} /\ UNCHANGED <<selected, resolved, tests>>
      BY <2>4 DEF ES!ArriveRuns
    <3>2. PICK m \in 0..Len(evals) : r.value = 1..m
      BY <1>0, <2>2, <3>1 DEF LoadsInFlight, MaySay
    <3>3. Cardinality(1..m) = m /\ m \in Nat
      <4>1. m \in Nat
        BY <1>1
      <4>2. Cardinality(1..m) = IF 1 > m THEN 0 ELSE m - 1 + 1
        BY <4>1, FS_Interval
      <4> QED BY <4>1, <4>2
    <3>4. listed' = [i \in 1..m |-> m + 1 - i]
      <4>1. listed' = [i \in 1..Cardinality(1..m) |-> Cardinality(1..m) + 1 - i]
        BY <3>1, <3>2 DEF ES!SeqUpTo, ES!Cardinality, Cardinality
      <4> QED BY <3>3, <4>1
    <3>5. \A i \in 1..m : m + 1 - i \in 1..Len(evals)
      BY <1>1, <3>2
    <3>6. listed' \in Seq(1..Len(evals))
      BY <3>3, <3>4, <3>5
    <3>7. /\ status' \in [ES!Loads -> ES!Status]
          /\ \A l \in {"versions", "set", "tests"} : status'[l] = status[l]
      BY <1>0, <3>1 DEF Section, ES!Loads, ES!Status
    <3>8. Section'
      BY <1>0, <2>2, <3>1, <3>6, <3>7 DEF Section
    <3>9. LoadsInFlight' /\ Evaluating'
      BY <1>0, <2>2, <3>1, <3>7 DEF LoadsInFlight, MaySay, Evaluating
    <3> QED BY <3>8, <3>9
  <2>5. CASE ES!ArriveSet(r)
    <3> DEFINE v == ES!The(r.value)  st == [status EXCEPT !["set"] = "ready"]
               rs == replies \ {r}
    <3>1. /\ r.load = "set" /\ ES!Resolve(v, rs, st)
          /\ UNCHANGED <<selected, listed>>
      BY <2>5 DEF ES!ArriveSet
    <3>2. /\ r.value \subseteq {r.of} \cap compiled /\ r.of = selected
          /\ status["set"] = "loading"
      BY <1>0, <2>2, <3>1 DEF LoadsInFlight, MaySay
    <3>3. v \in {selected, None} /\ v \in compiled \cup {None}
      BY <3>2 DEF ES!The
    <3>4. exec = None
      BY <1>0, <3>2 DEF Evaluating
    <3>5. /\ st \in [ES!Loads -> ES!Status] /\ st["versions"] = status["versions"]
          /\ st["tests"] = status["tests"]
      BY <1>0 DEF Section, ES!Loads, ES!Status
    <3>6. \A q \in rs : q.load # "set"
      BY <1>0, <3>1 DEF LoadsInFlight
    <3>7. rs \in SUBSET replies
      OBVIOUS
    <3> HIDE DEF v, st, rs
    <3>8. Section' /\ LoadsInFlight'
      BY <2>2, <3>1, <3>3, <3>5, <3>6, <3>7, ResolveKeeps
    <3> QED BY <2>2, <3>4, <3>8 DEF Evaluating
  <2>6. CASE ES!ArriveTests(r)
    <3>1. /\ r.load = "tests" /\ tests' = [of |-> r.of, latest |-> ES!The(r.value)]
          /\ status' = [status EXCEPT !["tests"] = "ready"]
          /\ replies' = replies \ {r} /\ UNCHANGED <<selected, resolved, listed>>
      BY <2>6 DEF ES!ArriveTests
    <3>2. PICK w \in ES!Verdicts : r.value = {w}
      BY <1>0, <2>2, <3>1 DEF LoadsInFlight, MaySay
    <3>3. ES!The(r.value) = w
      BY <3>2 DEF ES!The
    <3>4. r.of = resolved /\ resolved \in Versions \cup {None}
      BY <1>0, <3>1 DEF LoadsInFlight, Section, Evaluations
    <3>5. tests' = [of |-> resolved, latest |-> w]
      BY <3>1, <3>3, <3>4
    <3>6. /\ status' \in [ES!Loads -> ES!Status]
          /\ \A l \in {"versions", "set"} : status'[l] = status[l]
      BY <1>0, <3>1 DEF Section, ES!Loads, ES!Status
    <3>7. Section'
      BY <1>0, <2>2, <3>1, <3>4, <3>5, <3>6 DEF Section
    <3>8. LoadsInFlight' /\ Evaluating'
      BY <1>0, <2>2, <3>1, <3>6 DEF LoadsInFlight, MaySay, Evaluating
    <3> QED BY <3>7, <3>8
  <2> QED BY <2>1, <2>3, <2>4, <2>5, <2>6 DEF ES!Arrive
<1>14. CASE \E r \in replies : ES!Fail(r)
  <2>1. PICK r \in replies : ES!Fail(r)
    BY <1>14
  <2>2. /\ replies' = replies \ {r} /\ status' = [status EXCEPT ![r.load] = "error"]
        /\ UNCHANGED <<compiled, evals, selected, resolved, tests, listed, exec>>
    BY <2>1 DEF ES!Fail, ES!AfterFailure, ES!server
  <2>3. r.load \in ES!Loads
    BY <1>0 DEF LoadsInFlight
  <2>4. /\ status' \in [ES!Loads -> ES!Status] /\ status'[r.load] = "error"
        /\ \A l \in ES!Loads \ {r.load} : status'[l] = status[l]
    BY <1>0, <2>2, <2>3 DEF Section, ES!Status
  <2>5. Section'
    BY <1>0, <2>2, <2>4 DEF Section, ES!Loads
  <2>6. LoadsInFlight'
    <3>1. \A q \in replies' : q \in replies /\ q.load # r.load
      BY <1>0, <2>2 DEF LoadsInFlight
    <3> QED BY <1>0, <2>2, <2>4, <3>1 DEF LoadsInFlight, MaySay, ES!Loads
  <2>7. Evaluating'
    <3>1. exec # None => r.load \notin {"versions", "set"}
      BY <1>0 DEF LoadsInFlight, Evaluating
    <3> QED BY <1>0, <2>2, <2>4, <3>1 DEF Evaluating, ES!Loads
  <2> QED BY <2>5, <2>6, <2>7
<1> QED BY <1>5, <1>6, <1>7, <1>8, <1>9, <1>10, <1>11, <1>12, <1>13, <1>14
     DEF ES!Next, ES!Execute

(* What the section takes from a set says that the gate was open.          *)
LEMMA ResolveOpen ==
  ASSUME EvaluationInv, NEW v, NEW rs \in SUBSET replies,
         NEW st \in [ES!Loads -> ES!Status], ES!Resolve(v, rs, st),
         UNCHANGED <<compiled, cases, verdict, selected, opened>>,
         st["tests"] = status["tests"],
         v = None /\ st["set"] = "ready" /\ selected # None => selected \in opened
  PROVE  Gates'
<1>0. Gates
  BY DEF EvaluationInv
<1>1. \A w \in Versions : ES!ServerGate(w)' => w \in opened
  BY <1>0 DEF Gates, ES!ServerGate
<1>2. resolved' = v
  BY DEF ES!Resolve
<1>3. CASE v = resolved
  <2>1. status' = st /\ tests' = tests /\ replies' = rs
    BY <1>3 DEF ES!Resolve
  <2> QED BY <1>0, <1>1, <1>2, <2>1 DEF Gates
<1>4. CASE v # resolved /\ v \in Enforceable
  <2>1. /\ status' = [st EXCEPT !["tests"] = "loading"] /\ tests' = tests
        /\ replies' = ES!Cancel(rs, {"tests"}) \cup {ES!Request("tests", v)}
    BY <1>4 DEF ES!Resolve
  <2>2. status'["tests"] = "loading" /\ status'["set"] = st["set"]
    BY <2>1 DEF ES!Loads
  <2>3. \A r \in replies' : r \in replies \/ r.value = None
    BY <2>1 DEF ES!Cancel, ES!Request
  <2> QED BY <1>0, <1>1, <1>2, <2>2, <2>3 DEF Gates
<1>5. CASE v # resolved /\ v \notin Enforceable
  <2>1. /\ status' = [st EXCEPT !["tests"] = "ready"]
        /\ tests' = [of |-> v, latest |-> "none"]
        /\ replies' = ES!Cancel(rs, {"tests"})
    BY <1>5 DEF ES!Resolve
  <2>2. status'["set"] = st["set"] /\ tests'.latest = "none"
    BY <2>1 DEF ES!Loads
  <2>3. \A r \in replies' : r \in replies
    BY <2>1 DEF ES!Cancel
  <2> QED BY <1>0, <1>1, <1>2, <2>2, <2>3 DEF Gates
<1> QED BY <1>3, <1>4, <1>5

LEMMA GatesStep ==
  EvaluationInv /\ (ES!Next \/ UNCHANGED ES!vars) => Gates'
<1> SUFFICES ASSUME EvaluationInv, ES!Next \/ UNCHANGED ES!vars
             PROVE  Gates'
  OBVIOUS
<1>0. Evaluations /\ Section /\ LoadsInFlight /\ Evaluating /\ Gates
  BY DEF EvaluationInv
<1>2. CASE UNCHANGED <<status, selected, resolved, tests, replies>> /\ ES!Opens
  <2>1. opened' = opened \cup {v \in Versions : ES!ServerGate(v)'}
    BY <1>2 DEF ES!Opens
  <2> QED BY <1>0, <1>2, <2>1 DEF Gates
<1>3. CASE ES!OtherUser
  BY <1>2, <1>3 DEF ES!OtherUser
<1>4. CASE ES!ExecuteRun
  BY <1>2, <1>4 DEF ES!ExecuteRun
<1>5. CASE UNCHANGED <<compiled, cases, verdict, opened, status, selected, resolved,
                       tests, replies>>
  BY <1>0, <1>5 DEF Gates, ES!ServerGate
<1>6. CASE \/ UNCHANGED ES!vars \/ ES!handleExecute \/ ES!ExecuteAnswered
           \/ ES!ExecuteFailed
  BY <1>5, <1>6 DEF ES!vars, ES!handleExecute, ES!ExecuteAnswered, ES!ExecuteFailed,
     ES!server
<1>7. CASE ES!ExecuteGot
  <2> DEFINE v == ES!The({exec.of} \cap compiled)
  <2>1. /\ exec # None /\ ES!Resolve(v, replies, status)
        /\ UNCHANGED <<compiled, cases, verdict, selected, opened>>
    BY <1>7 DEF ES!ExecuteGot, ES!Read, ES!server
  <2>2. exec.of = selected /\ selected # None /\ selected \in Versions
    BY <1>0, <2>1 DEF Evaluating, Section
  <2>3. v = None => selected \in opened
    <3>1. selected \in compiled => v = selected
      BY <2>2 DEF ES!The
    <3>2. selected \notin compiled => ES!ServerGate(selected)
      BY DEF ES!ServerGate
    <3> HIDE DEF v
    <3> QED BY <1>0, <2>2, <3>1, <3>2 DEF Gates
  <2>4. status \in [ES!Loads -> ES!Status] /\ replies \in SUBSET replies
    BY <1>0 DEF Section
  <2> HIDE DEF v
  <2> QED BY <2>1, <2>3, <2>4, ResolveOpen
<1>8. CASE \E v \in Versions : ES!Select(v)
  <2>1. PICK v \in Versions : ES!Select(v)
    BY <1>8
  <2>2. /\ replies' = ES!Cancel(replies, {"set"}) \cup {ES!Request("set", v)}
        /\ status' = [status EXCEPT !["set"] = "loading"]
        /\ UNCHANGED <<compiled, cases, verdict, resolved, tests, opened>>
    BY <2>1 DEF ES!Select, ES!SetEffect, ES!server
  <2>3. status'["set"] = "loading" /\ status'["tests"] = status["tests"]
    BY <1>0, <2>2 DEF Section, ES!Loads
  <2>4. \A r \in replies' : r \in replies \/ r.value = None
    BY <2>2 DEF ES!Cancel, ES!Request
  <2> QED BY <1>0, <2>2, <2>3, <2>4 DEF Gates, ES!ServerGate
<1>9. CASE \E r \in replies : ES!Answer(r)
  <2>1. PICK r \in replies : ES!Answer(r)
    BY <1>9
  <2> DEFINE v == ES!Read(r.load, r.of)
             w == [r EXCEPT !.value = v]
  <2>2. /\ replies' = (replies \ {r}) \cup {w}
        /\ UNCHANGED <<compiled, cases, verdict, status, selected, resolved, tests,
                       opened>>
    BY <2>1 DEF ES!Answer, ES!server
  <2>3. /\ r.load = "set" => v = {r.of} \cap compiled
        /\ r.load = "tests" => v = {verdict[r.of]}
    BY DEF ES!Read
  <2>4. r.load \in {"set", "tests"} => r.of \in Versions
    BY <1>0 DEF LoadsInFlight, Section, Evaluations
  <2> HIDE DEF v
  <2>5. w.load = r.load /\ w.of = r.of /\ w.value = v
    BY <1>0 DEF LoadsInFlight
  <2> HIDE DEF w
  <2>6. r.load = "set" /\ v = {} => r.of \in opened
    BY <1>0, <2>3, <2>4 DEF Gates, ES!ServerGate
  <2>7. r.load = "tests" /\ v = {"passed"} => r.of \in opened
    <3>1. r.load = "tests" /\ v = {"passed"} => verdict[r.of] = "passed"
      BY <2>3
    <3> QED BY <1>0, <2>4, <3>1 DEF Gates, ES!ServerGate
  <2>8. \A q \in replies' : q \in replies \/ q = w
    BY <2>2
  <2> QED BY <1>0, <2>2, <2>5, <2>6, <2>7, <2>8 DEF Gates, ES!ServerGate
<1>10. CASE \E r \in replies : ES!Arrive(r)
  <2>1. PICK r \in replies : ES!Arrive(r)
    BY <1>10
  <2>2. UNCHANGED <<compiled, cases, verdict, opened>> /\ r.value # None
    BY <2>1 DEF ES!Arrive, ES!server
  <2>3. CASE ES!ArriveVersions(r)
    <3>1. /\ replies' = ES!Cancel(replies \ {r}, {"set"}) \cup {ES!Request("set", Newest)}
          /\ status' = [status EXCEPT !["versions"] = "ready", !["set"] = "loading"]
          /\ UNCHANGED <<resolved, tests>>
      BY <2>3 DEF ES!ArriveVersions, ES!SetEffect
    <3>2. status'["set"] = "loading" /\ status'["tests"] = status["tests"]
      BY <1>0, <3>1 DEF Section, ES!Loads
    <3>3. \A q \in replies' : q \in replies \/ q.value = None
      BY <3>1 DEF ES!Cancel, ES!Request
    <3> QED BY <1>0, <2>2, <3>1, <3>2, <3>3 DEF Gates, ES!ServerGate
  <2>4. CASE ES!ArriveRuns(r)
    <3>1. /\ status' = [status EXCEPT !["runs"] = "ready"]
          /\ replies' = replies \ {r} /\ UNCHANGED <<selected, resolved, tests>>
      BY <2>4 DEF ES!ArriveRuns
    <3>2. status'["set"] = status["set"] /\ status'["tests"] = status["tests"]
      BY <1>0, <3>1 DEF Section, ES!Loads
    <3> QED BY <1>0, <2>2, <3>1, <3>2 DEF Gates, ES!ServerGate
  <2>5. CASE ES!ArriveSet(r)
    <3> DEFINE v == ES!The(r.value)  st == [status EXCEPT !["set"] = "ready"]
               rs == replies \ {r}
    <3>1. /\ r.load = "set" /\ ES!Resolve(v, rs, st) /\ selected' = selected
      BY <2>5 DEF ES!ArriveSet
    <3>2. /\ r.value \subseteq {r.of} \cap compiled /\ r.of = selected
          /\ selected # None
      BY <1>0, <2>2, <3>1 DEF LoadsInFlight, MaySay
    <3>3. v = None => selected \in opened
      <4>1. r.value # {} => v = selected
        BY <3>2 DEF ES!The
      <4>2. r.value = {} => selected \in opened
        BY <1>0, <2>2, <3>1, <3>2 DEF Gates
      <4> HIDE DEF v
      <4> QED BY <3>2, <4>1, <4>2
    <3>4. st \in [ES!Loads -> ES!Status] /\ st["tests"] = status["tests"]
      BY <1>0 DEF Section, ES!Loads, ES!Status
    <3>5. rs \in SUBSET replies
      OBVIOUS
    <3> HIDE DEF v, st, rs
    <3> QED BY <2>2, <3>1, <3>3, <3>4, <3>5, ResolveOpen
  <2>6. CASE ES!ArriveTests(r)
    <3>1. /\ r.load = "tests" /\ tests' = [of |-> r.of, latest |-> ES!The(r.value)]
          /\ status' = [status EXCEPT !["tests"] = "ready"]
          /\ replies' = replies \ {r} /\ UNCHANGED <<selected, resolved>>
      BY <2>6 DEF ES!ArriveTests
    <3>2. PICK w \in ES!Verdicts : r.value = {w}
      BY <1>0, <2>2, <3>1 DEF LoadsInFlight, MaySay
    <3>3. tests'.of = r.of /\ tests'.latest = w
      BY <3>1, <3>2 DEF ES!The
    <3>4. w = "passed" => r.of \in opened
      BY <1>0, <2>2, <3>1, <3>2 DEF Gates
    <3>5. status'["set"] = status["set"]
      BY <1>0, <3>1 DEF Section, ES!Loads
    <3> QED BY <1>0, <2>2, <3>1, <3>3, <3>4, <3>5 DEF Gates, ES!ServerGate
  <2> QED BY <2>1, <2>3, <2>4, <2>5, <2>6 DEF ES!Arrive
<1>11. CASE \E r \in replies : ES!Fail(r)
  <2>1. PICK r \in replies : ES!Fail(r)
    BY <1>11
  <2>2. /\ replies' = replies \ {r} /\ status' = [status EXCEPT ![r.load] = "error"]
        /\ UNCHANGED <<compiled, cases, verdict, selected, resolved, tests, opened>>
    BY <2>1 DEF ES!Fail, ES!AfterFailure, ES!server
  <2>3. \A l \in ES!Loads : status'[l] = "ready" => status[l] = "ready"
    BY <1>0, <2>2 DEF Section, ES!Status
  <2> QED BY <1>0, <2>2, <2>3 DEF Gates, ES!ServerGate, ES!Loads
<1> QED BY <1>3, <1>4, <1>6, <1>7, <1>8, <1>9, <1>10, <1>11 DEF ES!Next, ES!Execute

LEMMA EvaluationStep ==
  EvaluationInv /\ (ES!Next \/ UNCHANGED ES!vars) => EvaluationInv'
BY EvaluationsStep, SectionStep, GatesStep DEF EvaluationInv

LEMMA EvaluationMeans ==
  EvaluationInv => ES!TypeOK /\ ES!EvidenceIsSelected /\ ES!GateSound
<1> SUFFICES ASSUME EvaluationInv
             PROVE  ES!TypeOK /\ ES!EvidenceIsSelected /\ ES!GateSound
  OBVIOUS
<1>0. Evaluations /\ Section /\ Gates
  BY DEF EvaluationInv
<1>1. ES!TypeOK
  <2>1. \A i \in DOMAIN listed : listed[i] \in 1..Len(evals)
    BY <1>0 DEF Section
  <2> QED BY <1>0, <2>1 DEF Evaluations, Section, Gates, ES!TypeOK
<1>2. ES!EvidenceIsSelected
  BY <1>0 DEF Section, ES!EvidenceIsSelected
<1>3. ES!GateSound
  <2> SUFFICES ASSUME ES!CanRun, status["set"] = "ready", status["tests"] = "ready"
               PROVE  selected \in opened
    BY DEF ES!GateSound
  <2>1. selected # None /\ selected \in Versions
    BY <1>0 DEF ES!CanRun, Section
  <2>2. CASE resolved = None
    BY <1>0, <2>1, <2>2 DEF Gates
  <2>3. CASE resolved = selected /\ selected \notin Enforceable
    <3>1. ES!ServerGate(selected)
      BY <1>0, <2>3 DEF Evaluations, ES!ServerGate
    <3> QED BY <1>0, <2>1, <3>1 DEF Gates
  <2>4. CASE resolved = selected /\ selected \in Enforceable
    <3>1. ES!RuleCount = 1
      BY <2>4 DEF ES!RuleCount
    <3>2. ~ES!isRuleTestGateClosed
      BY DEF ES!CanRun
    <3>3. tests.latest \notin {"none", "failed"}
      BY <3>1, <3>2 DEF ES!isRuleTestGateClosed, ES!resolveRuleTestRunGateStatus
    <3>4. tests.latest = "passed" /\ tests.of = selected
      BY <1>0, <2>4, <3>3 DEF Section, ES!Verdicts
    <3> QED BY <1>0, <3>4 DEF Gates
  <2> QED BY <1>0, <2>2, <2>3, <2>4 DEF Section
<1> QED BY <1>1, <1>2, <1>3

-----------------------------------------------------------------------------
(* The Expense Reports page.                                               *)

(* What the page and the server hold.                                      *)
Stored ==
  /\ reports \in Seq(Good) /\ Len(reports) <= MaxReports
  /\ list \in Seq(ER!Numbers)
  /\ sel \in ER!Numbers \cup {0} /\ rep \in ER!Numbers \cup {0}
  /\ detail \in {"idle", "loading", "ready", "error"}
  /\ loading \in BOOLEAN /\ loadError \in BOOLEAN /\ due \in BOOLEAN
  /\ importOpen \in BOOLEAN /\ canImport \in BOOLEAN
  /\ file \in ER!Files \cup {None}
  /\ acts \in 0..ImportActs

(* An import in flight is of the chosen file, and no error is shown yet.   *)
Importing ==
  /\ errors = [kind |-> errors.kind, of |-> errors.of]
  /\ errors.kind \in {"none", "upload", "validation"}
  /\ errors.kind = "validation" => errors.of = file
  /\ upload # None =>
       /\ upload = [of |-> upload.of, step |-> upload.step, id |-> upload.id]
       /\ upload.of = file /\ upload.of \in ER!Files
       /\ errors.kind = "none"
       /\ upload.step = "saved" => upload.id \in ER!Numbers

Asked ==
  \A r \in replies :
    /\ r = [load |-> r.load, of |-> r.of, value |-> r.value]
    /\ r.load \in {"list", "detail"}
    /\ r.load = "list" => r.value = None \/ r.value \in 0..Len(reports)
    /\ r.load = "detail" => r.of \in ER!Numbers /\ r.value \in {None, r.of}

(* Once the effect has run: a request for a report is for the one          *)
(* selected, and is only open while none is held.                          *)
Settled ==
  ~due =>
    /\ \A r \in replies : r.load = "detail" => r.of = sel /\ rep = 0
    /\ detail = "ready" => rep = sel /\ sel # 0
    /\ sel = 0 => rep = 0
ReportsInv == Stored /\ Importing /\ Asked /\ Settled

LEMMA ReportsInit == ER!Init => ReportsInv
<1> SUFFICES ASSUME ER!Init PROVE ReportsInv
  OBVIOUS
<1>1. PICK n \in 0..1 : reports \in [1..n -> Good]
  BY DEF ER!Init
<1>2. reports \in Seq(Good) /\ Len(reports) = n
  BY <1>1
<1>3. MaxReports \in Nat \ {0} /\ ImportActs \in Nat
  BY PagesAssumption DEF ER!BoundAssumption
<1>4. /\ list = <<>> /\ loading = TRUE /\ loadError = FALSE /\ canImport \in BOOLEAN
      /\ sel = 0 /\ rep = 0 /\ detail = "idle" /\ due = FALSE
      /\ importOpen = FALSE /\ file = None /\ upload = None /\ acts = 0
      /\ errors = ER!NoErrors /\ replies = {ER!Request("list", 0)}
  BY DEF ER!Init
<1>5. Stored
  <2>1. n <= MaxReports /\ 0 \in 0..ImportActs
    BY <1>3
  <2>2. list \in Seq(ER!Numbers)
    BY <1>4
  <2>3. /\ sel \in {0} /\ rep \in {0} /\ detail \in {"idle", "loading", "ready", "error"}
        /\ loading \in BOOLEAN /\ loadError \in BOOLEAN /\ due \in BOOLEAN
        /\ importOpen \in BOOLEAN /\ canImport \in BOOLEAN
        /\ file \in ER!Files \cup {None}
    BY <1>4
  <2> QED BY <1>2, <1>4, <2>1, <2>2, <2>3 DEF Stored
<1>6. Importing
  BY <1>4 DEF Importing, ER!NoErrors
<1>7. Asked /\ Settled
  BY <1>4 DEF Asked, Settled, ER!Request
<1> QED BY <1>5, <1>6, <1>7 DEF ReportsInv

(* Reports are only added.                                                 *)
Keeps == /\ reports' \in Seq(Good) /\ Len(reports') <= MaxReports
         /\ Len(reports) <= Len(reports')
LEMMA MoreReports ==
  ASSUME Stored, Keeps
  PROVE  /\ Len(reports) \in Nat /\ Len(reports') \in Nat
         /\ ER!Numbers \subseteq ER!Numbers'
         /\ list \in Seq(ER!Numbers')
         /\ \A n \in 0..Len(reports) : n \in 0..Len(reports')
<1>1. Len(reports) \in Nat /\ Len(reports') \in Nat
  BY DEF Stored, Keeps
<1>2. \A n \in 1..Len(reports) : n \in 1..Len(reports')
  BY <1>1 DEF Keeps
<1>3. \A n \in 0..Len(reports) : n \in 0..Len(reports')
  BY <1>1 DEF Keeps
<1>4. ER!Numbers \subseteq ER!Numbers'
  BY <1>2 DEF ER!Numbers
<1>5. list \in Seq(ER!Numbers')
  <2> DEFINE N == ER!Numbers  M == ER!Numbers'
  <2>1. list \in Seq(N) /\ N \subseteq M
    BY <1>4 DEF Stored
  <2> HIDE DEF N, M
  <2>2. list \in Seq(M)
    BY <2>1
  <2> QED BY <2>2 DEF M
<1> QED BY <1>1, <1>3, <1>4, <1>5

LEMMA ReportsKept ==
  ReportsInv /\ (ER!Next \/ UNCHANGED ER!vars) => Keeps
<1> SUFFICES ASSUME ReportsInv, ER!Next \/ UNCHANGED ER!vars PROVE Keeps
  OBVIOUS
<1>1. reports \in Seq(Good) /\ Len(reports) <= MaxReports /\ Len(reports) \in Nat
  BY DEF ReportsInv, Stored
<1>2. MaxReports \in Nat
  BY PagesAssumption DEF ER!BoundAssumption
<1>3. \/ reports' = reports
      \/ Len(reports) < MaxReports /\ \E f \in Good : reports' = Append(reports, f)
  BY DEF ER!Next, ER!DetailEffect, ER!User, ER!Open, ER!Back, ER!ToggleImport,
     ER!handleSubmit, ER!Choose, ER!Network, ER!ArriveList, ER!FailList,
     ER!ArriveDetail, ER!FailDetail, ER!ImportSaved, ER!ImportRejected, ER!ImportLost,
     ER!Server, ER!import_expense_report, ER!Saved, ER!OtherImport, ER!Answer, ER!vars
<1>4. CASE reports' = reports
  BY <1>1, <1>4 DEF Keeps
<1>5. CASE Len(reports) < MaxReports /\ \E f \in Good : reports' = Append(reports, f)
  <2>1. PICK f \in Good : reports' = Append(reports, f)
    BY <1>5
  <2>2. reports' \in Seq(Good) /\ Len(reports') = Len(reports) + 1
    BY <1>1, <2>1
  <2> QED BY <1>1, <1>2, <1>5, <2>2 DEF Keeps
<1> QED BY <1>3, <1>4, <1>5

LEMMA StoredStep ==
  ReportsInv /\ (ER!Next \/ UNCHANGED ER!vars) => Stored'
<1> SUFFICES ASSUME ReportsInv, ER!Next \/ UNCHANGED ER!vars PROVE Stored'
  OBVIOUS
<1>0. Stored /\ Importing /\ Asked /\ Keeps
  BY ReportsKept DEF ReportsInv
<1>1. /\ Len(reports) \in Nat /\ Len(reports') \in Nat
      /\ ER!Numbers \subseteq ER!Numbers'
      /\ list \in Seq(ER!Numbers')
      /\ \A n \in 0..Len(reports) : n \in 0..Len(reports')
  BY <1>0, MoreReports
<1>2. acts' \in 0..ImportActs
  <2>1. acts' = acts \/ ER!Act
    BY DEF ER!Next, ER!DetailEffect, ER!User, ER!Open, ER!Back, ER!ToggleImport,
       ER!handleSubmit, ER!Choose, ER!Network, ER!ArriveList, ER!FailList,
       ER!ArriveDetail, ER!FailDetail, ER!ImportSaved, ER!ImportRejected,
       ER!ImportLost, ER!Server, ER!import_expense_report, ER!OtherImport, ER!Answer,
       ER!vars
  <2>2. ImportActs \in Nat
    BY PagesAssumption DEF ER!BoundAssumption
  <2> QED BY <1>0, <2>1, <2>2 DEF Stored, ER!Act
<1>3. list' \in Seq(ER!Numbers')
  <2>1. CASE list' = list
    BY <1>1, <2>1
  <2>2. CASE \E r \in replies : ER!ArriveList(r)
    <3>1. PICK r \in replies : r.load = "list" /\ r.value # None
                               /\ list' = ER!NewestFirst(r.value)
      BY <2>2 DEF ER!ArriveList
    <3> DEFINE n == r.value
    <3>2. n \in 0..Len(reports')
      BY <1>0, <1>1, <3>1 DEF Asked
    <3>3. list' = [i \in 1..n |-> n + 1 - i]
      BY <3>1 DEF ER!NewestFirst
    <3> HIDE DEF n
    <3>4. n \in Nat /\ \A i \in 1..n : n + 1 - i \in 1..Len(reports')
      BY <1>1, <3>2
    <3>5. list' \in Seq(1..Len(reports'))
      BY <3>3, <3>4
    <3> QED BY <3>5 DEF ER!Numbers
  <2>3. CASE ER!ImportSaved
    <3>1. list' = <<upload.id>> \o list /\ upload.id \in ER!Numbers
      BY <1>0, <2>3 DEF ER!ImportSaved, Importing
    <3> DEFINE M == ER!Numbers'
    <3>2. upload.id \in M /\ list \in Seq(M)
      BY <1>1, <3>1
    <3> HIDE DEF M
    <3>3. <<upload.id>> \o list \in Seq(M)
      BY <3>2
    <3> QED BY <3>1, <3>3 DEF M
  <2> QED BY <2>1, <2>2, <2>3 DEF ER!Next, ER!DetailEffect, ER!User, ER!Open, ER!Back,
       ER!ToggleImport, ER!handleSubmit, ER!Choose, ER!Network, ER!FailList,
       ER!ArriveDetail, ER!FailDetail, ER!ImportRejected, ER!ImportLost, ER!Server,
       ER!import_expense_report, ER!OtherImport, ER!Answer, ER!vars, ER!catalog
<1>4. sel' \in ER!Numbers' \cup {0}
  <2>1. \A i \in DOMAIN list : list[i] \in ER!Numbers
    BY <1>0 DEF Stored
  <2>2. sel' = sel \/ sel' = 0 \/ sel' \in ER!Numbers
    BY <1>0, <2>1 DEF ER!Next, ER!DetailEffect, ER!User, ER!Open, ER!Back, ER!ToggleImport,
       ER!handleSubmit, ER!Choose, ER!Network, ER!ArriveList, ER!FailList,
       ER!ArriveDetail, ER!FailDetail, ER!ImportSaved, ER!ImportRejected,
       ER!ImportLost, ER!Server, ER!import_expense_report, ER!OtherImport, ER!Answer,
       ER!vars, ER!Rows, Importing
  <2> QED BY <1>0, <1>1, <2>2 DEF Stored
<1>5. rep' \in ER!Numbers' \cup {0}
  <2>1. rep' = rep \/ rep' = 0 \/ rep' \in ER!Numbers
    BY <1>0 DEF ER!Next, ER!DetailEffect, ER!User, ER!Open, ER!Back, ER!ToggleImport,
       ER!handleSubmit, ER!Choose, ER!Network, ER!ArriveList, ER!FailList,
       ER!ArriveDetail, ER!FailDetail, ER!ImportSaved, ER!ImportRejected,
       ER!ImportLost, ER!Server, ER!import_expense_report, ER!OtherImport, ER!Answer,
       ER!vars, Asked, Importing
  <2> QED BY <1>0, <1>1, <2>1 DEF Stored
<1>6. /\ detail' \in {"idle", "loading", "ready", "error"}
      /\ loading' \in BOOLEAN /\ loadError' \in BOOLEAN
  BY <1>0 DEF Stored, ER!Next, ER!DetailEffect, ER!User, ER!Open, ER!Back,
     ER!ToggleImport, ER!handleSubmit, ER!Choose, ER!Network, ER!ArriveList,
     ER!FailList, ER!ArriveDetail, ER!FailDetail, ER!AfterFailure, ER!ImportSaved,
     ER!ImportRejected, ER!ImportLost, ER!Server, ER!import_expense_report,
     ER!OtherImport, ER!Answer, ER!vars, ER!catalog
<1>7. due' \in BOOLEAN /\ importOpen' \in BOOLEAN /\ canImport' \in BOOLEAN
  BY <1>0, Zenon DEF Stored, ER!Next, ER!DetailEffect, ER!User, ER!Open, ER!Back,
     ER!ToggleImport, ER!handleSubmit, ER!Choose, ER!Network, ER!ArriveList,
     ER!FailList, ER!ArriveDetail, ER!FailDetail, ER!ImportSaved,
     ER!ImportRejected, ER!ImportLost, ER!Server, ER!import_expense_report,
     ER!OtherImport, ER!Answer, ER!vars, ER!panel, ER!OpenIfEmpty
<1>8. file' \in ER!Files \cup {None}
  BY <1>0 DEF Stored, ER!Next, ER!DetailEffect, ER!User, ER!Open, ER!Back,
     ER!ToggleImport, ER!handleSubmit, ER!Choose, ER!Network, ER!ArriveList,
     ER!FailList, ER!ArriveDetail, ER!FailDetail, ER!ImportSaved,
     ER!ImportRejected, ER!ImportLost, ER!Server, ER!import_expense_report,
     ER!OtherImport, ER!Answer, ER!vars, ER!panel
<1> QED BY <1>0, <1>2, <1>3, <1>4, <1>5, <1>6, <1>7, <1>8 DEF Stored, Keeps

LEMMA ImportingStep ==
  ReportsInv /\ (ER!Next \/ UNCHANGED ER!vars) => Importing'
<1> SUFFICES ASSUME ReportsInv, ER!Next \/ UNCHANGED ER!vars PROVE Importing'
  OBVIOUS
<1>0. Stored /\ Importing /\ Keeps
  BY ReportsKept DEF ReportsInv
<1>1. Len(reports) \in Nat /\ ER!Numbers \subseteq ER!Numbers'
  BY <1>0, MoreReports
<1>2. CASE UNCHANGED <<errors, upload, file>>
  BY <1>0, <1>1, <1>2 DEF Importing
<1>3. CASE \E f \in ER!Files \cup {None} : ER!Choose(f)
  BY <1>0, <1>3 DEF Importing, ER!Choose, ER!ErrorsCleared, ER!NoErrors
<1>4. CASE ER!handleSubmit
  <2>1. CASE file = None
    BY <1>0, <1>4, <2>1 DEF Importing, ER!handleSubmit
  <2>2. CASE file # None
    <3>1. /\ upload' = [of |-> file, step |-> "sent", id |-> 0]
          /\ errors' = ER!NoErrors /\ file' = file
      BY <1>4, <2>2 DEF ER!handleSubmit
    <3>2. file \in ER!Files
      BY <1>0, <2>2 DEF Stored
    <3>3. ER!Files' = ER!Files
      BY DEF ER!Files
    <3> QED BY <3>1, <3>2, <3>3 DEF Importing, ER!NoErrors
  <2> QED BY <2>1, <2>2
<1>5. CASE ER!import_expense_report
  <2> DEFINE u1 == IF upload.of \in Good THEN "saved" ELSE "rejected"
             m  == Len(reports')
  <2>1. /\ upload # None /\ errors' = errors /\ file' = file
        /\ upload' = [upload EXCEPT !.step = u1, !.id = m]
        /\ reports' = ER!Saved(reports, upload.of)
    BY <1>5 DEF ER!import_expense_report, ER!panel
  <2>2. upload.of \in Good => m \in 1..m
    <3>1. SUFFICES ASSUME upload.of \in Good PROVE m \in 1..m
      OBVIOUS
    <3>2. reports \in Seq(Good) /\ reports' = Append(reports, upload.of)
      BY <1>0, <2>1, <3>1 DEF Stored, ER!Saved
    <3>3. Len(reports') = Len(reports) + 1
      BY <3>2
    <3> QED BY <1>1, <3>3
  <2>3. u1 = "saved" => m \in ER!Numbers'
    BY <2>2 DEF ER!Numbers
  <2>4. u1 \in {"saved", "rejected"}
    OBVIOUS
  <2>5. ER!Files' = ER!Files
    BY DEF ER!Files
  <2> HIDE DEF u1, m
  <2>6. upload' = [of |-> upload.of, step |-> u1, id |-> m]
    BY <1>0, <2>1 DEF Importing
  <2>7. /\ upload'.of = upload.of /\ upload'.step = u1 /\ upload'.id = m
    BY <2>6
  <2> QED BY <1>0, <2>1, <2>3, <2>5, <2>6, <2>7 DEF Importing
<1>6. CASE ER!ImportSaved \/ ER!ImportRejected \/ ER!ImportLost
  BY <1>0, <1>6 DEF Importing, ER!ImportSaved, ER!ImportRejected, ER!ImportLost
<1> QED BY <1>2, <1>3, <1>4, <1>5, <1>6 DEF ER!Next, ER!DetailEffect, ER!User,
     ER!Open, ER!Back, ER!ToggleImport, ER!Network, ER!ArriveList, ER!FailList,
     ER!ArriveDetail, ER!FailDetail, ER!Server, ER!OtherImport, ER!Answer, ER!vars,
     ER!panel

LEMMA AskedStep ==
  ReportsInv /\ (ER!Next \/ UNCHANGED ER!vars) => Asked'
<1> SUFFICES ASSUME ReportsInv, ER!Next \/ UNCHANGED ER!vars PROVE Asked'
  OBVIOUS
<1>0. Stored /\ Asked /\ Keeps
  BY ReportsKept DEF ReportsInv
<1>1. /\ Len(reports) \in Nat /\ Len(reports') \in Nat
      /\ ER!Numbers \subseteq ER!Numbers'
      /\ \A n \in 0..Len(reports) : n \in 0..Len(reports')
  BY <1>0, MoreReports
<1>2. CASE replies' \subseteq replies
  BY <1>0, <1>1, <1>2 DEF Asked
<1>3. CASE ER!DetailEffect
  <2>1. \A r \in replies' : \/ r \in replies
                            \/ r = ER!Request("detail", sel) /\ sel # 0
    BY <1>3 DEF ER!DetailEffect, ER!Cancel
  <2>2. sel # 0 => sel \in ER!Numbers'
    BY <1>0, <1>1 DEF Stored
  <2>3. \A r : r = ER!Request("detail", sel) =>
          /\ r = [load |-> r.load, of |-> r.of, value |-> r.value]
          /\ r.load = "detail" /\ r.of = sel /\ r.value = None
    BY DEF ER!Request
  <2> QED BY <1>0, <1>1, <2>1, <2>2, <2>3 DEF Asked
<1>4. CASE \E r \in replies : ER!Answer(r)
  <2>1. PICK r \in replies : ER!Answer(r)
    BY <1>4
  <2> DEFINE v == IF r.load = "list" THEN Len(reports) ELSE r.of
             w == [r EXCEPT !.value = v]
  <2>2. replies' = (replies \ {r}) \cup {w}
    BY <2>1 DEF ER!Answer
  <2>3. /\ r.load = "list" => v \in 0..Len(reports)
        /\ r.load = "detail" => v = r.of
    BY <1>1
  <2> HIDE DEF v
  <2>4. /\ w = [load |-> w.load, of |-> w.of, value |-> w.value]
        /\ w.load = r.load /\ w.of = r.of /\ w.value = v
    BY <1>0 DEF Asked
  <2> HIDE DEF w
  <2> QED BY <1>0, <1>1, <2>2, <2>3, <2>4 DEF Asked
<1> QED BY <1>2, <1>3, <1>4 DEF ER!Next, ER!User, ER!Open, ER!Back, ER!ToggleImport,
     ER!handleSubmit, ER!Choose, ER!Network, ER!ArriveList, ER!FailList,
     ER!ArriveDetail, ER!FailDetail, ER!ImportSaved, ER!ImportRejected, ER!ImportLost,
     ER!Server, ER!import_expense_report, ER!OtherImport, ER!vars

LEMMA SettledStep ==
  ReportsInv /\ (ER!Next \/ UNCHANGED ER!vars) => Settled'
<1> SUFFICES ASSUME ReportsInv, ER!Next \/ UNCHANGED ER!vars PROVE Settled'
  OBVIOUS
<1>0. Stored /\ Asked /\ Settled /\ Asked'
  BY AskedStep DEF ReportsInv
<1>1. CASE UNCHANGED <<due, detail, rep, sel>> /\ replies' \subseteq replies
  BY <1>0, <1>1 DEF Settled
<1>2. CASE due'
  BY <1>2 DEF Settled
<1>3. CASE ER!DetailEffect /\ ~due'
  <2>1. \A r \in ER!Cancel("detail") : r.load # "detail"
    BY DEF ER!Cancel
  <2>2. ER!Request("detail", sel).of = sel
    BY DEF ER!Request
  <2> QED BY <1>3, <2>1, <2>2 DEF ER!DetailEffect, ER!HoldsReport, Settled
<1>4. CASE \E r \in replies : ER!Answer(r)
  <2>1. PICK r \in replies : ER!Answer(r)
    BY <1>4
  <2> DEFINE v == IF r.load = "list" THEN Len(reports) ELSE r.of
             w == [r EXCEPT !.value = v]
  <2>2. /\ replies' = (replies \ {r}) \cup {w}
        /\ UNCHANGED <<due, detail, rep, sel>>
    BY <2>1 DEF ER!Answer
  <2>3. w.load = r.load /\ w.of = r.of
    BY <1>0 DEF Asked
  <2> HIDE DEF w
  <2> QED BY <1>0, <2>2, <2>3 DEF Settled
<1>5. CASE \E r \in replies : ER!ArriveDetail(r) /\ ~due'
  <2>1. PICK r \in replies : ER!ArriveDetail(r) /\ ~due'
    BY <1>5
  <2>2. /\ r.load = "detail" /\ r.value # None /\ ~due /\ rep = r.value
    BY <2>1 DEF ER!ArriveDetail
  <2>3. rep = 0 /\ r.of = sel /\ r.value = r.of /\ r.of \in ER!Numbers
    BY <1>0, <2>2 DEF Settled, Asked
  <2>4. 0 \notin ER!Numbers
    <3>1. Len(reports) \in Nat
      BY <1>0 DEF Stored
    <3> QED BY <3>1 DEF ER!Numbers
  <2> QED BY <2>2, <2>3, <2>4
<1>6. CASE \E r \in replies : ER!FailDetail(r)
  BY <1>0, <1>6 DEF Settled, ER!FailDetail, ER!AfterFailure
<1>7. due' \/ ~due'
  OBVIOUS
<1> QED BY <1>1, <1>2, <1>3, <1>4, <1>5, <1>6, <1>7 DEF ER!Next, ER!User, ER!Open,
     ER!Back, ER!ToggleImport, ER!handleSubmit, ER!Choose, ER!Network, ER!ArriveList,
     ER!FailList, ER!ImportSaved, ER!ImportRejected, ER!ImportLost, ER!Server,
     ER!import_expense_report, ER!OtherImport, ER!vars

LEMMA ReportsStep ==
  ReportsInv /\ (ER!Next \/ UNCHANGED ER!vars) => ReportsInv'
BY StoredStep, ImportingStep, AskedStep, SettledStep DEF ReportsInv

LEMMA ReportsMeans ==
  ReportsInv => ER!TypeOK /\ ER!DetailIsSelected /\ ER!ErrorsOfChosenFile
<1> SUFFICES ASSUME ReportsInv
             PROVE  ER!TypeOK /\ ER!DetailIsSelected /\ ER!ErrorsOfChosenFile
  OBVIOUS
<1>0. Stored /\ Importing /\ Settled
  BY DEF ReportsInv
<1>1. ER!TypeOK
  <2>1. \A i \in DOMAIN list : list[i] \in ER!Numbers
    BY <1>0 DEF Stored
  <2>2. {loading, loadError, due, importOpen, canImport} \subseteq BOOLEAN
    BY <1>0 DEF Stored
  <2> QED BY <1>0, <2>1, <2>2 DEF Stored, Importing, ER!TypeOK
<1>2. ER!DetailIsSelected
  BY <1>0 DEF Stored, Settled, ER!DetailIsSelected, ER!DetailView
<1>3. ER!ErrorsOfChosenFile
  BY <1>0 DEF Importing, ER!ErrorsOfChosenFile, ER!ErrorsShown
<1> QED BY <1>1, <1>2, <1>3

-----------------------------------------------------------------------------
(* The catalogue of Compliance Evaluation Runs: numbers in descending      *)
(* order.                                                                  *)
LEMMA Greatest ==
  ASSUME NEW n \in Nat, NEW S \in SUBSET (1..n), S # {}
  PROVE  \E i \in S : \A j \in S : j <= i
<1> DEFINE D == {n - i : i \in S}
<1>1. \A i \in S : i \in Nat /\ n - i \in Nat
  OBVIOUS
<1>2. D \in SUBSET Nat /\ D # {}
  BY <1>1
<1>3. PICK d \in D : \A e \in D : d <= e
  <2> HIDE DEF D
  <2> QED BY <1>2, Least
<1>4. PICK i \in S : d = n - i
  BY <1>3
<1>5. \A j \in S : n - i <= n - j
  BY <1>3, <1>4
<1>6. \A j \in S : j <= i
  BY <1>1, <1>5
<1> QED BY <1>6

(* The rank of a number among some, the greatest having rank 1.            *)
DownTo(P, i) == {j \in P : j >= i}
Rank(P, i) == Cardinality(DownTo(P, i))

LEMMA Ranks ==
  ASSUME NEW n \in Nat, NEW P \in SUBSET (1..n)
  PROVE  /\ IsFiniteSet(P) /\ Cardinality(P) \in Nat
         /\ \A i \in Nat : /\ IsFiniteSet(DownTo(P, i)) /\ Rank(P, i) \in Nat
                           /\ Rank(P, i) <= Cardinality(P)
<1>1. IsFiniteSet(1..n)
  BY FS_Interval
<1>2. IsFiniteSet(P)
  BY <1>1, FS_Subset
<1>3. \A i \in Nat : IsFiniteSet(DownTo(P, i)) /\ Rank(P, i) <= Cardinality(P)
  <2>1. \A i \in Nat : DownTo(P, i) \subseteq P
    BY DEF DownTo
  <2> QED BY <1>2, <2>1, FS_Subset DEF Rank
<1> QED BY <1>2, <1>3, FS_CardinalityType DEF Rank

(* The greater number has the smaller rank.                                *)
LEMMA GreaterIsFirst ==
  ASSUME NEW n \in Nat, NEW P \in SUBSET (1..n), NEW a \in P, NEW b \in P, a < b
  PROVE  Rank(P, b) < Rank(P, a)
<1>0. \A m \in P : m \in Nat
  OBVIOUS
<1>1. DownTo(P, b) \subseteq DownTo(P, a) /\ a \in DownTo(P, a) /\ a \notin DownTo(P, b)
  <2>1. a \in Nat /\ b \in Nat
    BY <1>0
  <2>2. a >= a /\ ~(a >= b)
    BY <2>1
  <2>3. \A m \in P : m >= b => m >= a
    BY <1>0, <2>1
  <2> QED BY <2>2, <2>3 DEF DownTo
<1>2. /\ IsFiniteSet(DownTo(P, a)) /\ Rank(P, a) \in Nat /\ Rank(P, b) \in Nat
      /\ IsFiniteSet(DownTo(P, b))
  BY <1>0, Ranks
<1>3. Cardinality(DownTo(P, b)) <= Cardinality(DownTo(P, a)) 
      /\ (Cardinality(DownTo(P, b)) = Cardinality(DownTo(P, a))
            => DownTo(P, b) = DownTo(P, a))
  <2>1. DownTo(P, b) \in SUBSET DownTo(P, a)
    BY <1>1
  <2> QED BY <1>2, <2>1, FS_Subset
<1>4. Rank(P, b) # Rank(P, a)
  BY <1>1, <1>3 DEF Rank
<1> QED BY <1>2, <1>3, <1>4 DEF Rank

LEMMA RankIsThere ==
  ASSUME NEW n \in Nat, NEW P \in SUBSET (1..n), NEW k \in 1..Cardinality(P)
  PROVE  \E i \in P : Rank(P, i) = k
<1> DEFINE Missing == {m \in 1..Cardinality(P) : \A i \in P : Rank(P, i) # m}
<1>0. Cardinality(P) \in Nat /\ IsFiniteSet(P)
  BY Ranks
<1> SUFFICES ASSUME Missing # {} PROVE FALSE
  OBVIOUS
<1>5. \A j \in P : j \in Nat
  OBVIOUS
<1>1. PICK m \in Missing : \A j \in Missing : m <= j
  <2>1. Missing \in SUBSET Nat
    BY <1>0
  <2> HIDE DEF Missing
  <2> QED BY <2>1, Least
<1>2. m \in 1..Cardinality(P) /\ \A i \in P : Rank(P, i) # m
  BY <1>1
<1>3. CASE m = 1
  <2>1. P # {}
    BY <1>0, <1>2, FS_EmptySet
  <2>3. PICK i \in P : \A j \in P : j <= i
    BY <2>1, Greatest
  <2>4. DownTo(P, i) = {i}
    <3>1. \A j \in P : j >= i <=> j = i
      BY <1>5, <2>3
    <3> QED BY <3>1 DEF DownTo
  <2>5. Rank(P, i) = 1
    BY <2>4, FS_Singleton DEF Rank
  <2> QED BY <1>2, <1>3, <2>5
<1>4. CASE m # 1
  <2>1. m - 1 \in 1..Cardinality(P) /\ m - 1 \notin Missing
    BY <1>0, <1>1, <1>2, <1>4
  <2>2. PICK i \in P : Rank(P, i) = m - 1
    BY <2>1
  <2> DEFINE Later == {j \in P : ~(j >= i)}
  <2>3. Later # {}
    <3> SUFFICES ASSUME Later = {} PROVE FALSE
      OBVIOUS
    <3>1. DownTo(P, i) = P
      BY DEF DownTo
    <3> QED BY <1>0, <1>2, <2>2, <3>1 DEF Rank
  <2>4. PICK l \in Later : \A j \in Later : j <= l
    <3>1. Later \in SUBSET (1..n)
      OBVIOUS
    <3> HIDE DEF Later
    <3> QED BY <2>3, <3>1, Greatest
  <2>5. DownTo(P, l) = DownTo(P, i) \cup {l} /\ l \notin DownTo(P, i) /\ l \in P
    <3>1. \A j \in P : j >= l <=> j >= i \/ j = l
      <4> TAKE j \in P
      <4>1. j \in Nat /\ i \in Nat /\ l \in Nat /\ ~(l >= i)
        BY <1>5, <2>4
      <4>2. ~(j >= i) => j <= l
        BY <2>4
      <4> QED BY <4>1, <4>2
    <3> QED BY <2>4, <3>1 DEF DownTo
  <2>6. Rank(P, l) = Rank(P, i) + 1
    <3>1. IsFiniteSet(DownTo(P, i))
      BY <1>5, Ranks
    <3> QED BY <2>5, <3>1, FS_AddElement DEF Rank
  <2>7. Rank(P, l) = m
    BY <1>0, <1>2, <2>2, <2>6
  <2> QED BY <1>2, <2>5, <2>7
<1> QED BY <1>3, <1>4

(* The catalogue lists each run it read, the newest first.                 *)
LEMMA NewestFirstLists ==
  ASSUME NEW n \in Nat, NEW P \in SUBSET (1..n)
  PROVE  /\ CR!NewestFirst(P) \in Seq(P)
         /\ \A x \in P : \E i \in DOMAIN CR!NewestFirst(P) : CR!NewestFirst(P)[i] = x
         /\ \A i, j \in DOMAIN CR!NewestFirst(P) :
              i < j => CR!NewestFirst(P)[i] > CR!NewestFirst(P)[j]
<1> DEFINE s == CR!NewestFirst(P)
           At(k) == CHOOSE x \in P : Rank(P, x) = k
<1>0. \A x \in P : x \in Nat
  OBVIOUS
<1>1. Cardinality(P) \in Nat /\ \A x \in P : x \in Nat
  <2>1. Cardinality(P) \in Nat
    BY Ranks
  <2> QED BY <1>0, <2>1
<1>2. s = [k \in 1..Cardinality(P) |-> At(k)]
  BY DEF CR!NewestFirst, CR!Cardinality, Cardinality, Rank, DownTo
<1>3. \A k \in 1..Cardinality(P) : At(k) \in P /\ Rank(P, At(k)) = k
  <2>1. \A k \in 1..Cardinality(P) : \E i \in P : Rank(P, i) = k
    BY RankIsThere
  <2> QED BY <2>1
<1> HIDE DEF At, s
<1>4. DOMAIN s = 1..Cardinality(P) /\ \A k \in 1..Cardinality(P) : s[k] = At(k)
  BY <1>2
<1>5. s \in Seq(P)
  BY <1>1, <1>2, <1>3
<1>6. ASSUME NEW x \in P PROVE \E i \in DOMAIN s : s[i] = x
  <2> DEFINE k == Rank(P, x)
  <2>1. k \in 1..Cardinality(P)
    <3>1. x \in Nat /\ IsFiniteSet(DownTo(P, x)) /\ k \in Nat /\ k <= Cardinality(P)
      BY <1>1, Ranks
    <3>2. x \in DownTo(P, x)
      BY <3>1 DEF DownTo
    <3>3. k # 0
      BY <3>1, <3>2, FS_EmptySet DEF Rank
    <3> QED BY <1>1, <3>1, <3>3
  <2>2. At(k) \in P /\ Rank(P, At(k)) = k
    BY <1>3, <2>1
  <2> DEFINE y == At(k)
  <2>3. y \in P /\ Rank(P, y) = k /\ k \in Nat
    BY <1>1, <2>1, <2>2
  <2>4. y = x
    <3> HIDE DEF y
    <3>1. \A a, b \in P : a < b => Rank(P, b) < Rank(P, a)
      BY GreaterIsFirst
    <3>2. y < x => k < k
      BY <2>3, <3>1
    <3>3. x < y => k < k
      BY <2>3, <3>1
    <3>4. y \in Nat /\ x \in Nat
      BY <1>1, <2>3
    <3> QED BY <2>3, <3>2, <3>3, <3>4
  <2> QED BY <1>4, <2>1, <2>4
<1>7. ASSUME NEW i \in DOMAIN s, NEW j \in DOMAIN s, i < j
      PROVE  s[i] > s[j]
  <2>1. /\ At(i) \in P /\ At(j) \in P /\ Rank(P, At(i)) = i /\ Rank(P, At(j)) = j
        /\ i \in Nat /\ j \in Nat
    BY <1>1, <1>3, <1>4
  <2>2. At(i) \in Nat /\ At(j) \in Nat
    BY <1>1, <2>1
  <2>3. ~(At(i) < At(j))
    <3>1. At(i) < At(j) => j < i
      BY <2>1, GreaterIsFirst
    <3> QED BY <1>7, <2>1, <3>1
  <2>4. At(i) # At(j)
    BY <1>7, <2>1
  <2>5. s[i] = At(i) /\ s[j] = At(j)
    BY <1>4
  <2> QED BY <2>2, <2>3, <2>4, <2>5
<1> QED BY <1>5, <1>6, <1>7 DEF s

-----------------------------------------------------------------------------
(* A table in pages.                                                       *)
LEMMA Quotient ==
  ASSUME NEW a \in Nat, NEW b \in Nat \ {0}
  PROVE  /\ a \div b \in Nat
         /\ (a \div b) * b <= a /\ a < (a \div b) * b + b
OBVIOUS

LEMMA Times ==
  ASSUME NEW a \in Nat \ {0}, NEW b \in Nat
  PROVE  a * b >= b
<1>1. a * b = (a - 1) * b + b /\ (a - 1) * b \in Nat
  <2>1. \A c \in Nat : (c + 1) * b = c * b + b /\ c * b \in Nat
    OBVIOUS
  <2>2. a - 1 \in Nat /\ (a - 1) + 1 = a
    OBVIOUS
  <2> QED BY <2>1, <2>2
<1> QED BY <1>1

LEMMA Pages1 ==
  ASSUME NEW n \in Nat
  PROVE  /\ CR!TotalPages(n) \in Nat \ {0}
         /\ n > 0 => /\ n <= CR!TotalPages(n) * PageSize
                     /\ n > (CR!TotalPages(n) - 1) * PageSize
<1> DEFINE t == (n + PageSize - 1) \div PageSize
<1>1. PageSize \in Nat \ {0}
  BY PagesAssumption DEF CR!PageAssumption
<1>2. n + PageSize - 1 \in Nat
  BY <1>1
<1>3. t \in Nat /\ t * PageSize <= n + PageSize - 1
      /\ n + PageSize - 1 < t * PageSize + PageSize
  BY <1>1, <1>2, Quotient
<1>4. CR!TotalPages(n) = IF t = 0 THEN 1 ELSE t
  BY DEF CR!TotalPages, CR!AtLeast
<1> HIDE DEF t
<1>5. t * PageSize \in Nat /\ (t - 1) * PageSize = t * PageSize - PageSize
  BY <1>1, <1>3
<1>6. n > 0 => t # 0
  <2>1. t = 0 => t * PageSize = 0
    BY <1>1
  <2> QED BY <1>1, <1>3, <2>1
<1>7. n > 0 => n <= t * PageSize /\ n > (t - 1) * PageSize
  BY <1>1, <1>3, <1>5
<1> QED BY <1>3, <1>4, <1>6, <1>7

LEMMA PagesEnd ==
  ASSUME NEW n \in Nat, NEW p \in 1..CR!TotalPages(n)
  PROVE  CR!Ends(p, n)
<1> DEFINE t == CR!TotalPages(n)
<1>1. PageSize \in Nat \ {0}
  BY PagesAssumption DEF CR!PageAssumption
<1>2. t \in Nat \ {0} /\ n > 0 => n <= t * PageSize /\ n > (t - 1) * PageSize
  BY Pages1
<1>3. t \in Nat \ {0} /\ p \in 1..t
  BY Pages1
<1>4. CR!SafePage(p, n) = p
  BY <1>3 DEF CR!SafePage
<1> DEFINE start == (p - 1) * PageSize
<1>5. CR!startIndex(p, n) = start
  BY <1>4 DEF CR!startIndex
<1>6. CR!paginateItems(p, n) = {i \in 1..n : i > start /\ i <= start + PageSize}
  BY <1>5 DEF CR!paginateItems
<1>7. CR!Next(p, n) <=> n > PageSize /\ p < t
  BY <1>4 DEF CR!Next, CR!TablePagination
<1>8. CR!Previous(p, n) <=> n > PageSize /\ p > 1
  BY <1>4 DEF CR!Previous, CR!TablePagination
<1> HIDE DEF t
<1>9. n > 0 /\ ~(n > PageSize) => t = 1
  <2>1. SUFFICES ASSUME n > 0, ~(n > PageSize), t # 1 PROVE FALSE
    OBVIOUS
  <2>2. t - 1 \in Nat \ {0} /\ n > (t - 1) * PageSize
    BY <1>2, <1>3, <2>1
  <2>3. (t - 1) * PageSize >= PageSize
    BY <1>1, <2>2, Times
  <2> QED BY <1>1, <2>1, <2>2, <2>3
<1>10. start \in Nat
  BY <1>1, <1>3
<1>11. n > 0 /\ p = t => start = (t - 1) * PageSize /\ start + PageSize = t * PageSize
  BY <1>1, <1>3
<1>12. p = 1 => start = 0
  BY <1>1
<1> HIDE DEF start
<1>13. n > 0 /\ ~CR!Next(p, n) => n \in CR!paginateItems(p, n)
  <2>1. SUFFICES ASSUME n > 0, ~CR!Next(p, n) PROVE n > start /\ n <= start + PageSize
    BY <1>6
  <2>2. p = t
    BY <1>3, <1>7, <1>9, <2>1
  <2> QED BY <1>2, <1>3, <1>11, <2>1, <2>2
<1>14. n > 0 /\ ~CR!Previous(p, n) => 1 \in CR!paginateItems(p, n)
  <2>1. SUFFICES ASSUME n > 0, ~CR!Previous(p, n) PROVE 1 > start /\ 1 <= start + PageSize
    BY <1>6
  <2>2. p = 1
    BY <1>3, <1>8, <1>9, <2>1
  <2> QED BY <1>1, <1>12, <2>2
<1> QED BY <1>13, <1>14 DEF CR!Ends

LEMMA TurnedPages ==
  ASSUME NEW n \in Nat, NEW p \in 1..CR!TotalPages(n), NEW q \in CR!Turned(p, n)
  PROVE  q \in 1..CR!TotalPages(n)
<1> DEFINE t == CR!TotalPages(n)
<1>1. t \in Nat \ {0}
  BY Pages1
<1>2. CR!SafePage(p, n) = p
  BY <1>1 DEF CR!SafePage
<1> HIDE DEF t
<1>3. (q = p - 1 /\ p > 1) \/ (q = p + 1 /\ p < t)
  BY <1>2 DEF CR!Turned, CR!Previous, CR!Next, t
<1> QED BY <1>1, <1>3 DEF t

-----------------------------------------------------------------------------
(* The page: what the server has, what the catalogue read, what is shown.  *)
Executed ==
  /\ executed \in Seq(CatalogReports)
  /\ before \subseteq CR!Runs
Catalogued ==
  /\ list = [status |-> list.status, runs |-> list.runs, page |-> list.page]
  /\ list.status \in {"reports", "runs", "ready", "error"}
  /\ list.runs \in Seq(CR!Runs)
  /\ list.page \in 1..CR!TotalPages(Len(list.runs))
  /\ reads \in [CatalogReports -> {None} \cup SUBSET CR!Runs]
  /\ \A r \in CatalogReports : reads[r] # None =>
       \A x \in before : executed[x] = r => x \in reads[r]
  /\ CR!CatalogComplete /\ CR!CatalogNewestFirst

(* Only the run selected is asked for, once, and only while it loads.      *)
RunShown ==
  /\ initial \in CR!Runs \cup {None} /\ selected \in CR!Runs \cup {None}
  /\ detail = [status |-> detail.status, run |-> detail.run, page |-> detail.page,
               downloading |-> detail.downloading, error |-> detail.error]
  /\ detail.status \in {"closed", "loading", "ready", "error"}
  /\ (selected = None) = (detail.status = "closed")
  /\ detail.run \in CR!Runs \cup {None}
  /\ detail.status = "ready" => detail.run = selected /\ selected # None
  /\ detail.status = "loading" => detail.page = 1
  /\ detail.status = "ready" => detail.page \in 1..CR!TotalPages(CR!Outcomes)
  /\ \A r \in replies : r.of = selected /\ r.of \in CR!Runs /\ detail.status = "loading"
  /\ \A r, q \in replies : r = q

(* A download of this visit is of the run selected.                        *)
Downloading ==
  /\ visit \in Nat
  /\ \A d \in downloads : /\ d.visit \in Nat /\ d.visit <= visit
                          /\ d.visit = visit /\ selected # None => d.of = selected
  /\ detail.error \in {None, selected}
CatalogueInv == Executed /\ Catalogued /\ RunShown /\ Downloading

LEMMA CatalogueInit == CR!Init => CatalogueInv
<1> SUFFICES ASSUME CR!Init PROVE CatalogueInv
  OBVIOUS
<1>1. InitRuns \in Nat /\ None \notin Nat
  BY PagesAssumption DEF CR!PageAssumption
<1>2. executed \in Seq(CatalogReports) /\ Len(executed) \in Nat
  BY <1>1 DEF CR!Init
<1>3. Executed
  BY <1>2 DEF CR!Init, Executed
<1>4. Catalogued
  <2>1. /\ list = [status |-> "reports", runs |-> <<>>, page |-> 1]
        /\ reads = CR!Unread
    BY DEF CR!Init
  <2>2. /\ list.status = "reports" /\ list.runs = <<>> /\ list.page = 1
        /\ list.runs \in Seq(CR!Runs) /\ Len(list.runs) = 0 /\ DOMAIN list.runs = {}
    BY <2>1
  <2>3. list.page \in 1..CR!TotalPages(Len(list.runs))
    <3>1. CR!TotalPages(0) \in Nat \ {0}
      BY Pages1
    <3> QED BY <2>2, <3>1
  <2>4. CR!CatalogComplete /\ CR!CatalogNewestFirst
    BY <2>2 DEF CR!CatalogComplete, CR!CatalogNewestFirst
  <2>5. /\ reads \in [CatalogReports -> {None} \cup SUBSET CR!Runs]
        /\ \A r \in CatalogReports : reads[r] = None
    BY <2>1 DEF CR!Unread
  <2> QED BY <2>1, <2>2, <2>3, <2>4, <2>5 DEF Catalogued
<1>5. initial \in CR!Runs \cup {None} /\ selected = initial /\ visit = 0 /\ downloads = {}
  BY DEF CR!Init
<1>6. None \notin CR!Runs
  BY <1>1, <1>2 DEF CR!Runs
<1>7. RunShown /\ Downloading
  <2>1. CASE initial = None
    BY <1>5, <2>1 DEF CR!Init, RunShown, Downloading, CR!NoDetail
  <2>2. CASE initial # None
    <3>1. detail = CR!NewDetail /\ replies = {[of |-> initial, visit |-> 0, got |-> FALSE]}
      BY <2>2 DEF CR!Init
    <3>2. detail = [status |-> "loading", run |-> None, page |-> 1,
                    downloading |-> FALSE, error |-> None]
      BY <3>1 DEF CR!NewDetail, CR!NoDetail
    <3> QED BY <1>5, <2>2, <3>1, <3>2 DEF RunShown, Downloading
  <2> QED BY <2>1, <2>2
<1> QED BY <1>3, <1>4, <1>7 DEF CatalogueInv

(* Runs are only added, at the end.                                        *)
LEMMA ExecutedStep ==
  CatalogueInv /\ (CR!Step \/ UNCHANGED CR!vars) =>
    /\ Executed' /\ before' = before
    /\ Len(executed) \in Nat /\ CR!Runs \subseteq CR!Runs'
    /\ \A x \in CR!Runs : executed'[x] = executed[x]
<1> SUFFICES ASSUME CatalogueInv, CR!Step \/ UNCHANGED CR!vars
             PROVE  /\ Executed' /\ before' = before
                    /\ Len(executed) \in Nat /\ CR!Runs \subseteq CR!Runs'
                    /\ \A x \in CR!Runs : executed'[x] = executed[x]
  OBVIOUS
<1>1. executed \in Seq(CatalogReports) /\ Len(executed) \in Nat /\ before \subseteq CR!Runs
  BY DEF CatalogueInv, Executed
<1>2. before' = before
  BY DEF CR!Step, CR!OthersEvaluate, CR!ReportsArrive, CR!ReadReport,
     CR!CatalogArrives, CR!CatalogFails, CR!TurnCatalog, CR!Open, CR!onBack,
     CR!initialRunIdCleared, CR!RunArrives, CR!RunFails, CR!TurnOutcomes,
     CR!handleDownloadReport, CR!DownloadEnds, CR!vars, CR!catalog, CR!open
<1>3. \/ executed' = executed
      \/ \E r \in CatalogReports : executed' = Append(executed, r)
  BY DEF CR!Step, CR!OthersEvaluate, CR!ReportsArrive, CR!ReadReport,
     CR!CatalogArrives, CR!CatalogFails, CR!TurnCatalog, CR!Open, CR!onBack,
     CR!initialRunIdCleared, CR!RunArrives, CR!RunFails, CR!TurnOutcomes,
     CR!handleDownloadReport, CR!DownloadEnds, CR!vars, CR!catalog, CR!open
<1>4. CASE executed' = executed
  BY <1>1, <1>2, <1>4 DEF Executed, CR!Runs
<1>5. CASE \E r \in CatalogReports : executed' = Append(executed, r)
  <2>1. PICK r \in CatalogReports : executed' = Append(executed, r)
    BY <1>5
  <2>2. /\ executed' \in Seq(CatalogReports) /\ Len(executed') = Len(executed) + 1
        /\ \A x \in 1..Len(executed) : executed'[x] = executed[x]
    BY <1>1, <2>1
  <2>3. CR!Runs \subseteq CR!Runs'
    BY <1>1, <2>2 DEF CR!Runs
  <2> QED BY <1>1, <1>2, <2>2, <2>3 DEF Executed, CR!Runs
<1> QED BY <1>3, <1>4, <1>5

LEMMA CataloguedStep ==
  CatalogueInv /\ (CR!Step \/ UNCHANGED CR!vars) => Catalogued'
<1> SUFFICES ASSUME CatalogueInv, CR!Step \/ UNCHANGED CR!vars PROVE Catalogued'
  OBVIOUS
<1>0. Catalogued /\ before \subseteq CR!Runs /\ executed \in Seq(CatalogReports)
  BY DEF CatalogueInv, Executed
<1>1. /\ before' = before /\ Len(executed) \in Nat /\ CR!Runs \subseteq CR!Runs'
      /\ \A x \in CR!Runs : executed'[x] = executed[x]
  BY ExecutedStep
<1>2. list.runs \in Seq(CR!Runs')
  <2> DEFINE N == CR!Runs  M == CR!Runs'
  <2>1. list.runs \in Seq(N) /\ N \subseteq M
    BY <1>0, <1>1 DEF Catalogued
  <2> HIDE DEF N, M
  <2>2. list.runs \in Seq(M)
    BY <2>1
  <2> QED BY <2>2 DEF M
<1>3. reads \in [CatalogReports -> {None} \cup SUBSET CR!Runs']
  <2> DEFINE N == CR!Runs  M == CR!Runs'
  <2>1. reads \in [CatalogReports -> {None} \cup SUBSET N] /\ N \subseteq M
    BY <1>0, <1>1 DEF Catalogued
  <2> HIDE DEF N, M
  <2>2. reads \in [CatalogReports -> {None} \cup SUBSET M]
    <3>1. {None} \cup SUBSET N \subseteq {None} \cup SUBSET M
      BY <2>1
    <3> QED BY <2>1, <3>1
  <2> QED BY <2>2 DEF M
<1>4. CASE list' = list /\ reads' = reads
  <2>1. CR!CatalogComplete' /\ CR!CatalogNewestFirst'
    BY <1>0, <1>1, <1>4 DEF Catalogued, CR!CatalogComplete, CR!CatalogNewestFirst
  <2>2. \A r \in CatalogReports : reads'[r] # None =>
          \A x \in before' : executed'[x] = r => x \in reads'[r]
    BY <1>0, <1>1, <1>4 DEF Catalogued
  <2>3. list'.page \in 1..CR!TotalPages(Len(list'.runs))
    BY <1>0, <1>4 DEF Catalogued
  <2> QED BY <1>0, <1>2, <1>3, <1>4, <2>1, <2>2, <2>3 DEF Catalogued
<1>5. CASE CR!ReportsArrive \/ CR!CatalogFails
  <2>1. PICK st \in {"runs", "error"} :
          /\ list' = [list EXCEPT !.status = st] /\ executed' = executed
          /\ reads' = reads \/ reads' = CR!Unread
    BY <1>5 DEF CR!ReportsArrive, CR!CatalogFails, CR!AfterFailure, CR!open
  <2>2. list' = [status |-> st, runs |-> list.runs, page |-> list.page]
    BY <1>0, <2>1 DEF Catalogued
  <2>3. list'.status = st /\ list'.runs = list.runs /\ list'.page = list.page
    BY <2>2
  <2>4. /\ reads' \in [CatalogReports -> {None} \cup SUBSET CR!Runs']
        /\ \A r \in CatalogReports : reads'[r] # None =>
             \A x \in before' : executed'[x] = r => x \in reads'[r]
    <3>1. CASE reads' = reads
      BY <1>0, <1>1, <1>3, <2>1, <3>1 DEF Catalogued
    <3>2. CASE reads' = CR!Unread
      BY <3>2 DEF CR!Unread
    <3> QED BY <2>1, <3>1, <3>2
  <2>5. CR!CatalogComplete' /\ CR!CatalogNewestFirst'
    BY <1>0, <2>1, <2>3 DEF Catalogued, CR!CatalogComplete, CR!CatalogNewestFirst
  <2> QED BY <1>0, <1>2, <2>1, <2>2, <2>3, <2>4, <2>5 DEF Catalogued
<1>6. CASE CR!TurnCatalog
  <2> DEFINE n == Len(list.runs)
  <2>1. PICK p \in CR!Turned(list.page, n) :
          list' = [list EXCEPT !.page = p] /\ executed' = executed /\ reads' = reads
    BY <1>6 DEF CR!TurnCatalog, CR!open
  <2>2. n \in Nat /\ list.page \in 1..CR!TotalPages(n)
    BY <1>0 DEF Catalogued
  <2> HIDE DEF n
  <2>3. p \in 1..CR!TotalPages(n)
    BY <2>1, <2>2, TurnedPages
  <2>4. list' = [status |-> list.status, runs |-> list.runs, page |-> p]
    BY <1>0, <2>1 DEF Catalogued
  <2>5. list'.status = list.status /\ list'.runs = list.runs /\ list'.page = p
    BY <2>4
  <2>6. list'.page \in 1..CR!TotalPages(Len(list'.runs))
    BY <2>3, <2>5 DEF n
  <2>7. CR!CatalogComplete' /\ CR!CatalogNewestFirst'
    BY <1>0, <1>1, <2>5 DEF Catalogued, CR!CatalogComplete, CR!CatalogNewestFirst
  <2> QED BY <1>0, <1>1, <1>2, <1>3, <2>1, <2>4, <2>5, <2>6, <2>7 DEF Catalogued
<1>7. CASE \E r \in CatalogReports : CR!ReadReport(r)
  <2>1. PICK r \in CatalogReports : CR!ReadReport(r)
    BY <1>7
  <2>2. /\ list' = list /\ executed' = executed
        /\ reads' = [reads EXCEPT ![r] = CR!RunsOf(r)]
    BY <2>1 DEF CR!ReadReport, CR!open
  <2>3. CR!RunsOf(r) \in SUBSET CR!Runs' /\ \A x \in before : executed[x] = r => x \in CR!RunsOf(r)
    BY <1>0, <1>1 DEF CR!RunsOf
  <2>4. /\ reads' \in [CatalogReports -> {None} \cup SUBSET CR!Runs']
        /\ reads'[r] = CR!RunsOf(r)
        /\ \A q \in CatalogReports \ {r} : reads'[q] = reads[q]
    BY <1>3, <2>2, <2>3
  <2>5. CR!CatalogComplete' /\ CR!CatalogNewestFirst'
    BY <1>0, <1>1, <2>2 DEF Catalogued, CR!CatalogComplete, CR!CatalogNewestFirst
  <2>6. \A q \in CatalogReports : reads'[q] # None =>
          \A x \in before' : executed'[x] = q => x \in reads'[q]
    BY <1>0, <1>1, <2>2, <2>3, <2>4 DEF Catalogued
  <2>7. list'.page \in 1..CR!TotalPages(Len(list'.runs))
    BY <1>0, <2>2 DEF Catalogued
  <2> QED BY <1>0, <1>2, <2>2, <2>4, <2>5, <2>6, <2>7 DEF Catalogued
<1>8. CASE CR!CatalogArrives
  <2> DEFINE P == UNION {reads[r] : r \in {q \in CatalogReports : reads[q] # None}}
             l == CR!NewestFirst(P)
  <2>1. /\ list' = [status |-> "ready", page |-> 1, runs |-> l]
        /\ executed' = executed /\ reads' = reads
        /\ \A r \in CatalogReports : reads[r] # None
    BY <1>8 DEF CR!CatalogArrives, CR!AllRead, CR!open
  <2>2. P \in SUBSET (1..Len(executed))
    <3>1. \A r \in CatalogReports : reads[r] # None => reads[r] \subseteq CR!Runs
      BY <1>0 DEF Catalogued
    <3> QED BY <3>1 DEF CR!Runs
  <2>3. \A x \in before : x \in P
    <3> TAKE x \in before
    <3>1. x \in 1..Len(executed) /\ executed[x] \in CatalogReports
      BY <1>0 DEF CR!Runs
    <3>2. x \in reads[executed[x]]
      BY <1>0, <2>1, <3>1 DEF Catalogued
    <3> QED BY <2>1, <3>1, <3>2
  <2> HIDE DEF P
  <2>4. /\ l \in Seq(P)
        /\ \A x \in P : \E i \in DOMAIN l : l[i] = x
        /\ \A i, j \in DOMAIN l : i < j => l[i] > l[j]
    BY <1>1, <2>2, NewestFirstLists
  <2> HIDE DEF l
  <2>5. list'.status = "ready" /\ list'.page = 1 /\ list'.runs = l
        /\ list' = [status |-> list'.status, runs |-> list'.runs, page |-> list'.page]
    BY <2>1
  <2>6. l \in Seq(CR!Runs')
    <3>1. P \subseteq CR!Runs'
      BY <1>1, <2>2 DEF CR!Runs
    <3> DEFINE M == CR!Runs'
    <3>2. P \subseteq M
      BY <3>1
    <3> HIDE DEF M
    <3>3. l \in Seq(M)
      BY <2>4, <3>2
    <3> QED BY <3>3 DEF M
  <2>7. list'.page \in 1..CR!TotalPages(Len(list'.runs))
    <3>1. Len(l) \in Nat
      BY <2>4
    <3>2. CR!TotalPages(Len(l)) \in Nat \ {0}
      BY <3>1, Pages1
    <3> QED BY <2>5, <3>2
  <2>8. CR!CatalogComplete' /\ CR!CatalogNewestFirst'
    BY <1>1, <2>3, <2>4, <2>5 DEF CR!CatalogComplete, CR!CatalogNewestFirst
  <2>9. \A r \in CatalogReports : reads'[r] # None =>
          \A x \in before' : executed'[x] = r => x \in reads'[r]
    BY <1>0, <1>1, <2>1 DEF Catalogued
  <2> QED BY <1>3, <2>1, <2>5, <2>6, <2>7, <2>8, <2>9 DEF Catalogued
<1> QED BY <1>4, <1>5, <1>6, <1>7, <1>8 DEF CR!Step, CR!OthersEvaluate, CR!Open, CR!onBack, CR!initialRunIdCleared,
     CR!RunArrives, CR!RunFails, CR!TurnOutcomes, CR!handleDownloadReport,
     CR!DownloadEnds, CR!vars, CR!catalog, CR!open

(* The rows of a run.                                                      *)
LEMMA RowsOfRun ==
  ASSUME Executed
  PROVE  \A x \in CR!Runs : RowCount[executed[x]] \in Nat
<1>1. RowCount \in [CatalogReports -> Nat]
  BY PagesAssumption DEF CR!PageAssumption
<1>2. \A x \in CR!Runs : executed[x] \in CatalogReports
  BY DEF Executed, CR!Runs
<1> QED BY <1>1, <1>2

LEMMA RunShownStep ==
  CatalogueInv /\ (CR!Step \/ UNCHANGED CR!vars) => RunShown'
<1> SUFFICES ASSUME CatalogueInv, CR!Step \/ UNCHANGED CR!vars PROVE RunShown'
  OBVIOUS
<1>0. Executed /\ Catalogued /\ RunShown
  BY DEF CatalogueInv
<1>1. /\ before' = before /\ Len(executed) \in Nat /\ CR!Runs \subseteq CR!Runs'
      /\ \A x \in CR!Runs : executed'[x] = executed[x]
  BY ExecutedStep
<1>2. None \notin CR!Runs /\ None \notin CR!Runs'
  BY PagesAssumption DEF CR!PageAssumption, CR!Runs
<1>3. CASE UNCHANGED <<initial, selected, detail, replies>>
  <2>1. detail.status = "ready" => CR!Outcomes' = CR!Outcomes
    BY <1>0, <1>1, <1>2, <1>3 DEF RunShown, CR!Outcomes
  <2> QED BY <1>0, <1>1, <1>3, <2>1 DEF RunShown
<1>4. CASE CR!Open
  <2> DEFINE n == Len(list.runs)
  <2>1. PICK i \in CR!paginateItems(list.page, n) :
          /\ selected' = list.runs[i]
          /\ replies' = CR!Cancel(replies) \cup
                          {[of |-> list.runs[i], visit |-> visit + 1, got |-> FALSE]}
    BY <1>4 DEF CR!Open
  <2>2. i \in 1..n /\ list.runs \in Seq(CR!Runs)
    BY <1>0, <2>1 DEF Catalogued, CR!paginateItems
  <2>3. selected' \in CR!Runs
    BY <2>1, <2>2
  <2>4. \A r \in replies' : r = [of |-> selected', visit |-> visit + 1, got |-> FALSE]
    BY <2>1 DEF CR!Cancel
  <2>5. detail' = [status |-> "loading", run |-> None, page |-> 1,
                   downloading |-> FALSE, error |-> None] /\ initial' = initial
    BY <1>4 DEF CR!Open, CR!NewDetail, CR!NoDetail
  <2>6. /\ detail'.status = "loading" /\ detail'.run = None /\ detail'.page = 1
        /\ detail' = [status |-> detail'.status, run |-> detail'.run,
                      page |-> detail'.page, downloading |-> detail'.downloading,
                      error |-> detail'.error]
    BY <2>5
  <2>7. \A r \in replies' : r.of = selected' 
    BY <2>4
  <2>8. \A r, q \in replies' : r = q
    BY <2>4
  <2>9. selected' \in CR!Runs' /\ selected' # None /\ initial' \in CR!Runs' \cup {None}
    BY <1>0, <1>1, <1>2, <2>3, <2>5 DEF RunShown
  <2> QED BY <2>6, <2>7, <2>8, <2>9 DEF RunShown
<1>5. CASE CR!onBack \/ CR!initialRunIdCleared
  <2>1. /\ selected' = None /\ detail' = CR!NoDetail /\ replies' = {}
        /\ initial' = initial \/ initial' = None
    BY <1>5 DEF CR!onBack, CR!initialRunIdCleared, CR!Cancel
  <2> QED BY <1>0, <1>1, <2>1 DEF RunShown, CR!NoDetail
<1>6. CASE CR!RunArrives
  <2>1. PICK r \in replies :
          /\ replies' = replies \ {r} /\ initial' = initial /\ selected' = selected
          /\ detail' = IF selected = None THEN detail
                       ELSE [detail EXCEPT !.status = "ready", !.run = r.of]
    BY <1>6 DEF CR!RunArrives
  <2>2. r.of = selected /\ r.of \in CR!Runs /\ detail.status = "loading" /\ replies' = {}
    BY <1>0, <2>1 DEF RunShown
  <2>3. detail' = [status |-> "ready", run |-> selected, page |-> 1,
                   downloading |-> detail.downloading, error |-> detail.error]
    <3> DEFINE d1 == [detail EXCEPT !.status = "ready"]
    <3>1. detail' = [d1 EXCEPT !.run = selected]
      BY <1>2, <2>1, <2>2
    <3>2. d1 = [status |-> "ready", run |-> detail.run, page |-> 1,
                downloading |-> detail.downloading, error |-> detail.error]
      BY <1>0, <2>2 DEF RunShown
    <3> HIDE DEF d1
    <3> QED BY <3>1, <3>2
  <2>4. /\ detail'.status = "ready" /\ detail'.run = selected /\ detail'.page = 1
        /\ selected' = selected
    <3>1. detail'.status = "ready" /\ detail'.run = selected /\ detail'.page = 1
      BY <2>3
    <3> QED BY <2>1, <3>1
  <2>5. selected \in CR!Runs' /\ selected # None
    BY <1>1, <1>2, <2>2
  <2>6. CR!Outcomes' \in Nat
    <3>1. \A x \in CR!Runs' : RowCount[executed'[x]] \in Nat
      <4>1. Executed'
        BY ExecutedStep
      <4>2. RowCount \in [CatalogReports -> Nat]
        BY PagesAssumption DEF CR!PageAssumption
      <4>3. \A x \in CR!Runs' : executed'[x] \in CatalogReports
        BY <4>1 DEF Executed, CR!Runs
      <4> QED BY <4>2, <4>3
    <3> QED BY <2>4, <2>5, <3>1 DEF CR!Outcomes
  <2>7. 1 \in 1..CR!TotalPages(CR!Outcomes')
    <3>1. CR!TotalPages(CR!Outcomes') \in Nat \ {0}
      BY <2>6, Pages1
    <3> QED BY <3>1
  <2>8. CR!Outcomes' = RowCount[executed'[selected]]
    BY <2>4 DEF CR!Outcomes
  <2>9. detail'.page \in 1..CR!TotalPages(CR!Outcomes')
    BY <2>4, <2>7
  <2>10. initial' \in CR!Runs' \cup {None}
    BY <1>0, <1>1, <2>1 DEF RunShown
  <2> QED BY <2>2, <2>3, <2>4, <2>5, <2>9, <2>10 DEF RunShown
<1>7. CASE CR!RunFails
  <2>1. PICK r \in replies :
          /\ replies' = replies \ {r} /\ initial' = initial /\ selected' = selected
          /\ detail' = IF selected = None THEN detail
                       ELSE [detail EXCEPT !.status = "error"]
    BY <1>7 DEF CR!RunFails, CR!AfterFailure
  <2>2. selected # None /\ replies' = {}
    BY <1>0, <1>2, <2>1 DEF RunShown
  <2>3. detail' = [status |-> "error", run |-> detail.run, page |-> detail.page,
                   downloading |-> detail.downloading, error |-> detail.error]
    BY <1>0, <2>1, <2>2 DEF RunShown
  <2> QED BY <1>0, <1>1, <2>1, <2>2, <2>3 DEF RunShown
<1>8. CASE CR!TurnOutcomes
  <2>1. /\ detail.status = "ready" /\ replies' = replies /\ initial' = initial
        /\ selected' = selected /\ executed' = executed
        /\ \E p \in CR!Turned(detail.page, CR!Outcomes) :
             detail' = [detail EXCEPT !.page = p]
    BY <1>8 DEF CR!TurnOutcomes, CR!DetailShown
  <2>2. PICK p \in CR!Turned(detail.page, CR!Outcomes) : detail' = [detail EXCEPT !.page = p]
    BY <2>1
  <2>3. detail.run = selected /\ selected \in CR!Runs /\ replies = {}
    BY <1>0, <2>1 DEF RunShown
  <2>4. CR!Outcomes \in Nat
    BY <1>0, <2>3, RowsOfRun DEF CR!Outcomes
  <2>5. detail.page \in 1..CR!TotalPages(CR!Outcomes)
    BY <1>0, <2>1 DEF RunShown
  <2>6. p \in 1..CR!TotalPages(CR!Outcomes)
    BY <2>2, <2>4, <2>5, TurnedPages
  <2>7. detail' = [status |-> "ready", run |-> selected, page |-> p,
                   downloading |-> detail.downloading, error |-> detail.error]
    BY <1>0, <2>1, <2>2, <2>3 DEF RunShown
  <2>8. detail'.run = selected /\ detail'.page = p /\ detail'.status = "ready"
    BY <2>7
  <2>9. CR!Outcomes' = CR!Outcomes
    BY <2>1, <2>3, <2>8 DEF CR!Outcomes
  <2>10. /\ initial' \in CR!Runs' \cup {None} /\ selected' \in CR!Runs'
         /\ selected' # None /\ replies' = {} /\ selected' = selected
    BY <1>0, <1>1, <1>2, <2>1, <2>3 DEF RunShown
  <2>11. detail'.page \in 1..CR!TotalPages(CR!Outcomes')
    BY <2>6, <2>8, <2>9
  <2> QED BY <2>7, <2>8, <2>10, <2>11 DEF RunShown
<1>9. CASE CR!handleDownloadReport \/ CR!DownloadEnds
  <2>1. /\ replies' = replies /\ initial' = initial /\ selected' = selected
        /\ executed' = executed
        /\ \E dl \in {detail.downloading, TRUE, FALSE} :
             \E er \in {detail'.error} :
               detail' = [status |-> detail.status, run |-> detail.run,
                          page |-> detail.page, downloading |-> dl, error |-> er]
    <3>1. detail = [status |-> detail.status, run |-> detail.run, page |-> detail.page,
                    downloading |-> detail.downloading, error |-> detail.error]
      BY <1>0 DEF RunShown
    <3>2. CASE CR!handleDownloadReport
      BY <3>1, <3>2 DEF CR!handleDownloadReport
    <3>3. CASE CR!DownloadEnds
      <4>1. PICK d \in downloads, ok \in BOOLEAN :
              detail' = IF CR!SameDetail(d)
                        THEN [detail EXCEPT !.downloading = FALSE,
                                            !.error = IF ok THEN @ ELSE d.of]
                        ELSE detail
        BY <3>3 DEF CR!DownloadEnds
      <4>2. /\ replies' = replies /\ initial' = initial /\ selected' = selected
            /\ executed' = executed
        BY <3>3 DEF CR!DownloadEnds
      <4> QED BY <3>1, <4>1, <4>2
    <3> QED BY <1>9, <3>2, <3>3
  <2>2. /\ detail'.status = detail.status /\ detail'.run = detail.run
        /\ detail'.page = detail.page
        /\ detail' = [status |-> detail'.status, run |-> detail'.run,
                      page |-> detail'.page, downloading |-> detail'.downloading,
                      error |-> detail'.error]
    BY <2>1
  <2>3. CR!Outcomes' = CR!Outcomes
    BY <2>1, <2>2 DEF CR!Outcomes
  <2>4. detail'.status = "ready" => detail'.page \in 1..CR!TotalPages(CR!Outcomes')
    BY <1>0, <2>2, <2>3 DEF RunShown
  <2> QED BY <1>0, <1>1, <2>1, <2>2, <2>4 DEF RunShown
<1> QED BY <1>3, <1>4, <1>5, <1>6, <1>7, <1>8, <1>9 DEF CR!Step, CR!OthersEvaluate, CR!ReportsArrive, CR!ReadReport,
     CR!CatalogArrives, CR!CatalogFails, CR!TurnCatalog, CR!vars, CR!catalog,
     CR!open

LEMMA DownloadingStep ==
  CatalogueInv /\ (CR!Step \/ UNCHANGED CR!vars) => Downloading'
<1> SUFFICES ASSUME CatalogueInv, CR!Step \/ UNCHANGED CR!vars PROVE Downloading'
  OBVIOUS
<1>0. RunShown /\ Downloading
  BY DEF CatalogueInv
<1>1. CASE UNCHANGED <<selected, downloads, visit>> /\ detail'.error = detail.error
  BY <1>0, <1>1 DEF Downloading
<1>2. CASE CR!Open
  <2>1. visit' = visit + 1 /\ downloads' = downloads /\ detail'.error = None
    BY <1>2 DEF CR!Open, CR!NewDetail, CR!NoDetail
  <2>2. \A d \in downloads : d.visit \in Nat /\ d.visit <= visit + 1 /\ d.visit # visit + 1
    BY <1>0 DEF Downloading
  <2>3. visit + 1 \in Nat
    BY <1>0 DEF Downloading
  <2> QED BY <2>1, <2>2, <2>3 DEF Downloading
<1>3. CASE CR!onBack \/ CR!initialRunIdCleared
  <2>1. /\ selected' = None /\ detail'.error = None /\ downloads' = downloads
        /\ visit' = visit
    BY <1>3 DEF CR!onBack, CR!initialRunIdCleared, CR!NoDetail
  <2> QED BY <1>0, <2>1 DEF Downloading
<1>4. CASE CR!handleDownloadReport
  <2>1. /\ downloads' = downloads \cup {[of |-> selected, visit |-> visit]}
        /\ selected' = selected /\ visit' = visit
        /\ detail' = [detail EXCEPT !.downloading = TRUE, !.error = None]
    BY <1>4 DEF CR!handleDownloadReport
  <2>2. detail'.error = None
    BY <1>0, <2>1 DEF RunShown
  <2>3. visit <= visit
    BY <1>0 DEF Downloading
  <2> QED BY <1>0, <2>1, <2>2, <2>3 DEF Downloading
<1>5. CASE CR!DownloadEnds
  <2>1. PICK d \in downloads, ok \in BOOLEAN :
          /\ downloads' = downloads \ {d}
          /\ detail' = IF CR!SameDetail(d)
                       THEN [detail EXCEPT !.downloading = FALSE,
                                           !.error = IF ok THEN @ ELSE d.of]
                       ELSE detail
    BY <1>5 DEF CR!DownloadEnds
  <2>2. selected' = selected /\ visit' = visit
    BY <1>5 DEF CR!DownloadEnds
  <2>3. detail'.error \in {detail.error} \cup {d.of : x \in {q \in {1} : CR!SameDetail(d)}}
    BY <1>0, <2>1 DEF RunShown
  <2>4. CR!SameDetail(d) => d.of = selected
    BY <1>0 DEF CR!SameDetail, Downloading
  <2> QED BY <1>0, <2>1, <2>2, <2>3, <2>4 DEF Downloading
<1>6. CASE CR!RunArrives \/ CR!RunFails \/ CR!TurnOutcomes
  <2>1. UNCHANGED <<selected, downloads, visit>>
    BY <1>6 DEF CR!RunArrives, CR!RunFails, CR!TurnOutcomes
  <2>2. detail'.error = detail.error
    BY <1>0, <1>6 DEF RunShown, CR!RunArrives, CR!RunFails, CR!TurnOutcomes
  <2> QED BY <1>1, <2>1, <2>2
<1> QED BY <1>1, <1>2, <1>3, <1>4, <1>5, <1>6 DEF CR!Step, CR!OthersEvaluate, CR!ReportsArrive, CR!ReadReport,
     CR!CatalogArrives, CR!CatalogFails, CR!TurnCatalog, CR!vars, CR!catalog,
     CR!open

LEMMA CatalogueStep ==
  CatalogueInv /\ (CR!Step \/ UNCHANGED CR!vars) => CatalogueInv'
BY ExecutedStep, CataloguedStep, RunShownStep, DownloadingStep DEF CatalogueInv

LEMMA CatalogueMeans ==
  CatalogueInv => /\ CR!TypeOK /\ CR!CatalogComplete /\ CR!CatalogNewestFirst
                  /\ CR!DetailIsSelected /\ CR!DownloadErrorOfShown /\ CR!RowsReachable
<1> SUFFICES ASSUME CatalogueInv
             PROVE  /\ CR!TypeOK /\ CR!CatalogComplete /\ CR!CatalogNewestFirst
                    /\ CR!DetailIsSelected /\ CR!DownloadErrorOfShown
                    /\ CR!RowsReachable
  OBVIOUS
<1>0. Executed /\ Catalogued /\ RunShown /\ Downloading
  BY DEF CatalogueInv
<1>1. CR!TypeOK
  BY <1>0 DEF Catalogued, RunShown, CR!TypeOK
<1>2. CR!Ends(list.page, Len(list.runs))
  <2>1. Len(list.runs) \in Nat /\ list.page \in 1..CR!TotalPages(Len(list.runs))
    BY <1>0 DEF Catalogued
  <2> QED BY <2>1, PagesEnd
<1>3. detail.status = "ready" => CR!Ends(detail.page, CR!Outcomes)
  <2> SUFFICES ASSUME detail.status = "ready" PROVE CR!Ends(detail.page, CR!Outcomes)
    OBVIOUS
  <2>1. CR!Outcomes \in Nat
    <3>1. detail.run \in CR!Runs
      BY <1>0 DEF RunShown
    <3> QED BY <1>0, <3>1, RowsOfRun DEF CR!Outcomes
  <2>2. detail.page \in 1..CR!TotalPages(CR!Outcomes)
    BY <1>0 DEF RunShown
  <2> QED BY <2>1, <2>2, PagesEnd
<1>4. CR!DetailIsSelected /\ CR!DownloadErrorOfShown
  BY <1>0 DEF RunShown, Downloading, CR!DetailIsSelected, CR!DownloadErrorOfShown
<1> QED BY <1>0, <1>1, <1>2, <1>3, <1>4 DEF Catalogued, CR!RowsReachable

-----------------------------------------------------------------------------
(* The Compliance Reviews.                                                 *)
Decided == /\ decision \in [Reviews -> RQ!Decisions \cup {None}]
           /\ RQ!DecisionsAudited

QueueLoaded ==
  /\ scope \in RQ!Scopes /\ queue \subseteq Reviews
  /\ status \in {"loading", "ready", "error"}
  /\ \A l \in loads :
       /\ l = [number |-> l.number, of |-> l.of, value |-> l.value]
       /\ l.value # None =>
            \A r \in l.value : r \in Reviews /\ l.of.run \in {None, ReviewedIn[r]}

(* A resolution that was accepted has a decision.                          *)
IsRequest(q) ==
  /\ q = [who |-> q.who, by |-> q.by, review |-> q.review, type |-> q.type,
          rationale |-> q.rationale, scope |-> q.scope, at |-> q.at, heard |-> q.heard]
  /\ q.who \in {"user", "other"} /\ q.type \in Types /\ q.review \in Reviews
  /\ q.rationale = q.review
  /\ q.heard \in BOOLEAN
  /\ q.at \notin {"sent", "checked"} => q.heard
Requested ==
  \A q \in requests :
    /\ IsRequest(q)
    /\ q.by \in Nat /\ q.by <= instance
    /\ q.at = "done" => decision[q.review] # None

IsFetch(f) == f = [by |-> f.by, review |-> f.review, value |-> f.value,
                   after |-> f.after, scope |-> f.scope]
IsDetail(d) == /\ d = [status |-> d.status, resolved |-> d.resolved, open |-> d.open,
                       rationale |-> d.rationale, resolving |-> d.resolving]
               /\ d.status \in {"loading", "ready", "error"}
ReviewShown ==
  /\ selected \in Reviews \cup {None} /\ instance \in Nat
  /\ IsDetail(detail)
  /\ selected # None => detail.rationale \in {None, selected}
  /\ \A f \in fetches : /\ IsFetch(f) /\ f.review \in Reviews
                        /\ f.by \in Nat /\ f.by <= instance

(* The detail page waits for one answer at a time: of its load, or of the  *)
(* resolution it sent.  What it loads after its review was resolved says   *)
(* so.                                                                     *)
OneAtATime ==
  selected # None =>
    /\ \A f \in fetches : f.by = instance =>
         /\ detail.status = "loading"
         /\ done => decision[f.review] # None /\ f.value \in {None, "resolved"}
         /\ \A g \in fetches : g.by = instance => g = f
    /\ \A q \in requests : q.heard /\ q.by = instance =>
         /\ detail.resolving /\ detail.status = "ready"
         /\ \A p \in requests : p.heard /\ p.by = instance => p = q
    /\ RQ!ResolvedIsShown
ReviewsInv == Decided /\ QueueLoaded /\ Requested /\ ReviewShown /\ OneAtATime

LEMMA ReviewsInit == RQ!Init => ReviewsInv
<1> SUFFICES ASSUME RQ!Init PROVE ReviewsInv
  OBVIOUS
<1>1. Decided
  BY DEF Decided, RQ!Init, RQ!DecisionsAudited
<1>2. RQ!AllOfThem \in RQ!Scopes
  BY DEF RQ!AllOfThem, RQ!Scopes
<1>3. QueueLoaded
  BY <1>2 DEF QueueLoaded, RQ!Init
<1>4. Requested /\ ReviewShown /\ OneAtATime
  BY DEF Requested, ReviewShown, IsDetail, OneAtATime, RQ!Init
<1> QED BY <1>1, <1>3, <1>4 DEF ReviewsInv

(* A request or a load in its next state.                                  *)
NowAt(q, a) == [q EXCEPT !.at = a]
Forgotten(q) == [q EXCEPT !.heard = FALSE]
Said(f, v) == [f EXCEPT !.value = v]
LEMMA NextAt ==
  ASSUME NEW q, IsRequest(q), NEW a, a \in {"sent", "checked"} \/ q.heard
  PROVE  /\ IsRequest(NowAt(q, a))
         /\ NowAt(q, a).by = q.by /\ NowAt(q, a).review = q.review
         /\ NowAt(q, a).at = a /\ NowAt(q, a).heard = q.heard
<1> DEFINE w == NowAt(q, a)
<1>1. w = [who |-> q.who, by |-> q.by, review |-> q.review, type |-> q.type,
           rationale |-> q.rationale, scope |-> q.scope, at |-> a, heard |-> q.heard]
  BY DEF IsRequest, NowAt
<1> HIDE DEF w
<1>2. /\ w.who = q.who /\ w.by = q.by /\ w.review = q.review /\ w.type = q.type
      /\ w.rationale = q.rationale /\ w.scope = q.scope /\ w.at = a
      /\ w.heard = q.heard
  BY <1>1
<1>3. IsRequest(w)
  BY <1>1, <1>2 DEF IsRequest
<1> QED BY <1>2, <1>3 DEF w

LEMMA NoLongerHeard ==
  ASSUME NEW q, IsRequest(q), q.at \in {"sent", "checked"}
  PROVE  /\ IsRequest(Forgotten(q))
         /\ Forgotten(q).by = q.by /\ Forgotten(q).review = q.review
         /\ Forgotten(q).at = q.at /\ Forgotten(q).heard = FALSE
<1> DEFINE w == Forgotten(q)
<1>1. w = [who |-> q.who, by |-> q.by, review |-> q.review, type |-> q.type,
           rationale |-> q.rationale, scope |-> q.scope, at |-> q.at, heard |-> FALSE]
  <2>1. q = [who |-> q.who, by |-> q.by, review |-> q.review, type |-> q.type,
             rationale |-> q.rationale, scope |-> q.scope, at |-> q.at,
             heard |-> q.heard]
    BY DEF IsRequest
  <2>2. \A h : [q EXCEPT !.heard = h] =
                 [who |-> q.who, by |-> q.by, review |-> q.review, type |-> q.type,
                  rationale |-> q.rationale, scope |-> q.scope, at |-> q.at, heard |-> h]
    BY <2>1
  <2> QED BY <2>2 DEF Forgotten
<1> HIDE DEF w
<1>2. /\ w.who = q.who /\ w.by = q.by /\ w.review = q.review /\ w.type = q.type
      /\ w.rationale = q.rationale /\ w.scope = q.scope /\ w.at = q.at
      /\ w.heard = FALSE
  BY <1>1
<1>3. IsRequest(w)
  BY <1>1, <1>2 DEF IsRequest
<1> QED BY <1>2, <1>3 DEF w

LEMMA ReadFetch ==
  ASSUME NEW f, IsFetch(f), NEW v
  PROVE  /\ IsFetch(Said(f, v))
         /\ Said(f, v).by = f.by /\ Said(f, v).review = f.review /\ Said(f, v).value = v
BY DEF IsFetch, Said

(* Decisions are final, and audited.                                       *)
LEMMA DecidedStep ==
  ReviewsInv /\ (RQ!Next \/ UNCHANGED RQ!vars) =>
    /\ Decided'
    /\ \A r \in Reviews : decision[r] # None => decision'[r] # None
<1> SUFFICES ASSUME ReviewsInv, RQ!Next \/ UNCHANGED RQ!vars
             PROVE  /\ Decided'
                    /\ \A r \in Reviews : decision[r] # None => decision'[r] # None
  OBVIOUS
<1>0. Decided /\ Requested
  BY DEF ReviewsInv
<1>1. CASE UNCHANGED <<decision, audit>>
  BY <1>0, <1>1 DEF Decided, RQ!DecisionsAudited
<1>2. CASE RQ!Record
  <2>1. PICK q \in requests :
          /\ decision' = IF RQ!Taken(q.review) THEN decision
                         ELSE [decision EXCEPT ![q.review] = [type |-> q.type, who |-> q.who]]
          /\ audit' = RQ!Audited([review |-> q.review,
                                  decision |-> [type |-> q.type, who |-> q.who]],
                                 RQ!Taken(q.review))
    BY <1>2 DEF RQ!Record
  <2> DEFINE r == q.review  d == [type |-> q.type, who |-> q.who]
  <2>2. r \in Reviews /\ d \in RQ!Decisions
    BY <1>0 DEF Requested, IsRequest, RQ!Decisions
  <2>3. None \notin RQ!Decisions
    BY PagesAssumption DEF RQ!ReviewAssumption, RQ!Decisions
  <2>4. CASE RQ!Taken(r)
    <3>1. UNCHANGED <<decision, audit>>
      BY <2>1, <2>4 DEF RQ!Audited
    <3> QED BY <1>1, <3>1
  <2>5. CASE ~RQ!Taken(r)
    <3>1. /\ decision' = [decision EXCEPT ![r] = d]
          /\ audit' = audit \cup {[review |-> r, decision |-> d]}
          /\ decision[r] = None
      BY <2>1, <2>5 DEF RQ!Audited, RQ!Taken
    <3> HIDE DEF r, d
    <3>2. /\ decision' \in [Reviews -> RQ!Decisions \cup {None}]
          /\ decision'[r] = d /\ d # None
          /\ \A x \in Reviews \ {r} : decision'[x] = decision[x]
      BY <1>0, <2>2, <2>3, <3>1 DEF Decided
    <3>3. RQ!DecisionsAudited'
      BY <1>0, <2>2, <3>1, <3>2 DEF Decided, RQ!DecisionsAudited
    <3> QED BY <3>1, <3>2, <3>3 DEF Decided
  <2> QED BY <2>4, <2>5
<1> QED BY <1>1, <1>2 DEF RQ!Next, RQ!OtherApprover, RQ!Check, RQ!Dropped, RQ!QueueRead,
     RQ!QueueArrives, RQ!QueueFails, RQ!ChangeScope, RQ!onOpenReview,
     RQ!onBack, RQ!DetailRead, RQ!DetailArrives, RQ!DetailFails, RQ!Resolve,
     RQ!onClose, RQ!onRationaleChange, RQ!handleConfirmResolution,
     RQ!ResolutionArrives, RQ!ResolutionFails, RQ!vars, RQ!server,
     RQ!catalogue, RQ!page

LEMMA QueueStep ==
  ReviewsInv /\ (RQ!Next \/ UNCHANGED RQ!vars) => QueueLoaded'
<1> SUFFICES ASSUME ReviewsInv, RQ!Next \/ UNCHANGED RQ!vars PROVE QueueLoaded'
  OBVIOUS
<1>0. QueueLoaded
  BY DEF ReviewsInv
<1>1. CASE UNCHANGED <<scope, queue, status, loads>>
  BY <1>0, <1>1 DEF QueueLoaded
<1>2. CASE UNCHANGED <<scope, queue>> /\ \E s : RQ!loadQueue(s)
  BY <1>0, <1>2 DEF QueueLoaded, RQ!loadQueue
<1>3. CASE RQ!ChangeScope
  <2>1. \E s \in RQ!Scopes : scope' = s /\ RQ!loadQueue(s) /\ queue' = queue
    BY <1>3 DEF RQ!ChangeScope
  <2> QED BY <1>0, <2>1 DEF QueueLoaded, RQ!loadQueue
<1>4. CASE RQ!QueueRead
  <2>1. PICK l \in loads :
          loads' = (loads \ {l}) \cup
                     {[l EXCEPT !.value = RQ!list_compliance_reviews(l.of)]}
    BY <1>4 DEF RQ!QueueRead
  <2> DEFINE v == RQ!list_compliance_reviews(l.of)  w == [l EXCEPT !.value = v]
  <2>2. \A r \in v : r \in Reviews /\ l.of.run \in {None, ReviewedIn[r]}
    BY DEF RQ!list_compliance_reviews
  <2>3. UNCHANGED <<scope, queue, status>>
    BY <1>4 DEF RQ!QueueRead
  <2> HIDE DEF v
  <2>4. /\ w = [number |-> w.number, of |-> w.of, value |-> w.value]
        /\ w.of = l.of /\ w.value = v
    BY <1>0 DEF QueueLoaded
  <2>5. loads' = (loads \ {l}) \cup {w}
    BY <2>1 DEF v
  <2> HIDE DEF w
  <2> QED BY <1>0, <2>2, <2>3, <2>4, <2>5 DEF QueueLoaded
<1>5. CASE RQ!QueueArrives \/ RQ!QueueFails
  BY <1>0, <1>5 DEF QueueLoaded, RQ!QueueArrives, RQ!QueueFails, RQ!AfterFailure
<1>6. CASE RQ!DetailArrives \/ RQ!DetailFails
  <2>1. UNCHANGED <<scope, queue>>
    BY <1>6 DEF RQ!DetailArrives, RQ!DetailFails
  <2>2. (\E s : RQ!loadQueue(s)) \/ UNCHANGED <<status, loads>>
    BY <1>6 DEF RQ!DetailArrives, RQ!DetailFails, RQ!DetailEnds
  <2> QED BY <1>1, <1>2, <2>1, <2>2
<1> QED BY <1>1, <1>3, <1>4, <1>5, <1>6 DEF RQ!Next, RQ!OtherApprover, RQ!Check, RQ!Record, RQ!Dropped,
     RQ!onOpenReview, RQ!onBack, RQ!DetailRead, RQ!Resolve, RQ!onClose,
     RQ!onRationaleChange, RQ!handleConfirmResolution, RQ!ResolutionArrives,
     RQ!ResolutionFails, RQ!vars, RQ!server, RQ!catalogue, RQ!page

(* What the server does to a request does not show before the answer.      *)
LEMMA RequestsReplaced ==
  ASSUME ReviewsInv, UNCHANGED <<selected, instance, detail, fetches, done>>,
         \A r \in Reviews : decision[r] # None => decision'[r] # None,
         NEW q \in requests, NEW W, requests' \subseteq (requests \ {q}) \cup W,
         \A w \in W : /\ IsRequest(w) /\ w.by = q.by /\ w.review = q.review
                      /\ w.heard => q.heard
                      /\ w.at = "done" => decision'[q.review] # None,
         \A w, v \in W : w = v
  PROVE  Requested' /\ ReviewShown' /\ OneAtATime'
<1>0. Requested /\ ReviewShown /\ OneAtATime
  BY DEF ReviewsInv
<1>1. \A p \in requests' : (p \in requests /\ p # q) \/ p \in W
  OBVIOUS
<1>2. Requested'
  <2>1. IsRequest(q) /\ q.by \in Nat /\ q.by <= instance
    BY <1>0 DEF Requested
  <2>2. \A p \in requests : p.at = "done" => decision'[p.review] # None
    BY <1>0 DEF Requested, IsRequest
  <2> QED BY <1>0, <1>1, <2>1, <2>2 DEF Requested
<1>3. ReviewShown'
  BY <1>0 DEF ReviewShown
<1>4. OneAtATime'
  <2> SUFFICES ASSUME selected # None
               PROVE  /\ \A f \in fetches : f.by = instance =>
                           /\ detail.status = "loading"
                           /\ done => decision'[f.review] # None /\ f.value \in {None, "resolved"}
                           /\ \A g \in fetches : g.by = instance => g = f
                      /\ \A p \in requests' : p.heard /\ p.by = instance =>
                           /\ detail.resolving /\ detail.status = "ready"
                           /\ \A o \in requests' : o.heard /\ o.by = instance => o = p
                      /\ RQ!ResolvedIsShown
    BY DEF OneAtATime, RQ!ResolvedIsShown
  <2>1. \A f \in fetches : f.by = instance /\ done => decision'[f.review] # None
    BY <1>0 DEF OneAtATime, ReviewShown
  <2> QED BY <1>0, <1>1, <2>1 DEF OneAtATime
<1> QED BY <1>2, <1>3, <1>4

LEMMA ReviewPageStep ==
  ReviewsInv /\ (RQ!Next \/ UNCHANGED RQ!vars) =>
    Requested' /\ ReviewShown' /\ OneAtATime'
<1> SUFFICES ASSUME ReviewsInv, RQ!Next \/ UNCHANGED RQ!vars
             PROVE  Requested' /\ ReviewShown' /\ OneAtATime'
  OBVIOUS
<1>0. Requested /\ ReviewShown /\ OneAtATime
  BY DEF ReviewsInv
<1>1. \A r \in Reviews : decision[r] # None => decision'[r] # None
  BY DecidedStep
<1>2. CASE UNCHANGED <<requests, selected, instance, detail, fetches, done>>
  <2>1. Requested'
    BY <1>0, <1>1, <1>2 DEF Requested, IsRequest
  <2>2. ReviewShown'
    BY <1>0, <1>2 DEF ReviewShown
  <2>3. \A f \in fetches : selected # None /\ f.by = instance /\ done =>
          decision'[f.review] # None
    BY <1>0, <1>1 DEF OneAtATime, ReviewShown
  <2>4. OneAtATime'
    BY <1>0, <1>2, <2>3 DEF OneAtATime, RQ!ResolvedIsShown
  <2> QED BY <2>1, <2>2, <2>4
<1>3. CASE RQ!OtherApprover
  <2>1. PICK r \in Reviews, t \in Types :
          requests' = requests \cup
            {[who |-> "other", by |-> 0, review |-> r, type |-> t, rationale |-> r,
              scope |-> None, at |-> "sent", heard |-> FALSE]}
    BY <1>3 DEF RQ!OtherApprover
  <2> DEFINE w == [who |-> "other", by |-> 0, review |-> r, type |-> t, rationale |-> r,
                   scope |-> None, at |-> "sent", heard |-> FALSE]
  <2>2. IsRequest(w) /\ w.by = 0 /\ w.at = "sent" /\ w.heard = FALSE
    BY DEF IsRequest
  <2>3. requests' = requests \cup {w}
    BY <2>1
  <2> HIDE DEF w
  <2>4. UNCHANGED <<selected, instance, detail, fetches, done, decision>>
    BY <1>3 DEF RQ!OtherApprover, RQ!server, RQ!page
  <2>5. Requested'
    <3>1. 0 <= instance
      BY <1>0 DEF ReviewShown
    <3> QED BY <1>0, <2>2, <2>3, <2>4, <3>1 DEF Requested
  <2>6. ReviewShown'
    BY <1>0, <2>4 DEF ReviewShown
  <2>7. OneAtATime'
    BY <1>0, <2>2, <2>3, <2>4 DEF OneAtATime, RQ!ResolvedIsShown
  <2> QED BY <2>5, <2>6, <2>7
<1>4. CASE RQ!Check \/ RQ!Record \/ RQ!Dropped
  <2>1. UNCHANGED <<selected, instance, detail, fetches, done>>
    BY <1>4 DEF RQ!Check, RQ!Record, RQ!Dropped, RQ!page
  <2>2. PICK q \in requests, a \in {"checked", "conflict", "integrity error", "done", "error"} :
          /\ q.at \in {"sent", "checked"}
          /\ \/ requests' = RQ!Answer(q, a)
             \/ a = "checked" /\ requests' = (requests \ {q}) \cup {[q EXCEPT !.at = a]}
          /\ a = "done" => decision'[q.review] # None
    <3>1. CASE RQ!Check
      BY <3>1 DEF RQ!Check
    <3>2. CASE RQ!Dropped
      BY <3>2 DEF RQ!Dropped
    <3>3. CASE RQ!Record
      <4>1. PICK q \in requests :
              /\ q.at = "checked"
              /\ decision' = IF RQ!Taken(q.review) THEN decision
                             ELSE [decision EXCEPT ![q.review] =
                                     [type |-> q.type, who |-> q.who]]
              /\ requests' = RQ!Answer(q, IF RQ!Taken(q.review) THEN "integrity error"
                                          ELSE "done")
        BY <3>3 DEF RQ!Record
      <4>2. CASE RQ!Taken(q.review)
        BY <4>1, <4>2
      <4>3. CASE ~RQ!Taken(q.review)
        <5>1. q.review \in Reviews /\ [type |-> q.type, who |-> q.who] # None
          BY <1>0, PagesAssumption DEF Requested, IsRequest, RQ!ReviewAssumption
        <5>2. decision \in [Reviews -> RQ!Decisions \cup {None}]
          BY DEF ReviewsInv, Decided
        <5>3. decision'[q.review] # None
          BY <4>1, <4>3, <5>1, <5>2
        <5> QED BY <4>1, <4>3, <5>3
      <4> QED BY <4>2, <4>3
    <3> QED BY <1>4, <3>1, <3>2, <3>3
  <2> DEFINE w == NowAt(q, a)
             W == {x \in {w} : a \in {"sent", "checked"} \/ q.heard}
  <2>3. IsRequest(q)
    BY <1>0 DEF Requested
  <2>4. (a \in {"sent", "checked"} \/ q.heard) =>
          /\ IsRequest(w) /\ w.by = q.by /\ w.review = q.review /\ w.at = a
          /\ w.heard = q.heard
    BY <2>3, NextAt
  <2>5. requests' \subseteq (requests \ {q}) \cup W
    BY <2>2 DEF RQ!Answer, NowAt
  <2> HIDE DEF w
  <2>6. /\ \A x \in W : x = w /\ (a \in {"sent", "checked"} \/ q.heard)
        /\ \A x, y \in W : x = y
    OBVIOUS
  <2> HIDE DEF W
  <2>7. \A x \in W : /\ IsRequest(x) /\ x.by = q.by /\ x.review = q.review
                     /\ x.heard => q.heard
                     /\ x.at = "done" => decision'[q.review] # None
    BY <2>2, <2>4, <2>6
  <2> QED BY <1>1, <2>1, <2>5, <2>6, <2>7, RequestsReplaced
<1>5. CASE RQ!onOpenReview
  <2>1. PICK r \in queue :
          /\ selected' = r /\ instance' = instance + 1 /\ detail' = RQ!NewDetail(r)
          /\ fetches' = fetches \cup {[by |-> instance', review |-> r, value |-> None,
                                       after |-> FALSE, scope |-> scope]}
    BY <1>5 DEF RQ!onOpenReview
  <2>2. done' = FALSE /\ requests' = requests /\ decision' = decision
    BY <1>5 DEF RQ!onOpenReview, RQ!server
  <2> DEFINE n == instance + 1
             f == [by |-> n, review |-> r, value |-> None, after |-> FALSE, scope |-> scope]
  <2>3. IsFetch(f) /\ f.by = n /\ f.review = r /\ f.value = None
    BY DEF IsFetch
  <2>4. fetches' = fetches \cup {f}
    BY <2>1
  <2> HIDE DEF f
  <2>5. r \in Reviews
    BY <2>1 DEF ReviewsInv, QueueLoaded
  <2>6. /\ n \in Nat /\ n <= n
        /\ \A g \in fetches : g.by <= n /\ g.by # n
        /\ \A q \in requests : q.by <= n /\ q.by # n
    BY <1>0 DEF ReviewShown, Requested
  <2>7. instance' = n
    BY <2>1
  <2> HIDE DEF n
  <2>8. IsDetail(detail') /\ detail'.status = "loading" /\ detail'.rationale = None
    BY <2>1 DEF RQ!NewDetail, IsDetail
  <2>9. Requested'
    BY <1>0, <2>2, <2>6, <2>7 DEF Requested
  <2>10. ReviewShown'
    BY <1>0, <2>1, <2>3, <2>4, <2>5, <2>6, <2>7, <2>8 DEF ReviewShown
  <2>11. OneAtATime'
    BY <2>2, <2>3, <2>4, <2>6, <2>7, <2>8 DEF OneAtATime, RQ!ResolvedIsShown
  <2> QED BY <2>9, <2>10, <2>11
<1>6. CASE RQ!onBack
  <2>1. /\ selected' = None
        /\ UNCHANGED <<requests, instance, detail, fetches, done, decision>>
    BY <1>6 DEF RQ!onBack, RQ!server
  <2> QED BY <1>0, <2>1 DEF Requested, ReviewShown, OneAtATime
<1>7. CASE RQ!DetailRead
  <2>1. PICK f \in fetches :
          fetches' = (fetches \ {f}) \cup
            {[f EXCEPT !.value = IF decision[f.review] = None THEN "open" ELSE "resolved"]}
    BY <1>7 DEF RQ!DetailRead
  <2>2. UNCHANGED <<requests, selected, instance, detail, done, decision>>
    BY <1>7 DEF RQ!DetailRead, RQ!server
  <2> DEFINE v == IF decision[f.review] = None THEN "open" ELSE "resolved"
             w == Said(f, v)
  <2>3. decision[f.review] # None => v = "resolved"
    OBVIOUS
  <2> HIDE DEF v
  <2>4. IsFetch(w) /\ w.by = f.by /\ w.review = f.review /\ w.value = v
    <3>1. IsFetch(f)
      BY <1>0 DEF ReviewShown
    <3> QED BY <3>1, ReadFetch
  <2>5. fetches' = (fetches \ {f}) \cup {w}
    BY <2>1 DEF v, Said
  <2> HIDE DEF w
  <2>6. Requested' /\ ReviewShown'
    BY <1>0, <2>2, <2>4, <2>5 DEF Requested, ReviewShown
  <2>7. OneAtATime'
    <3>1. \A g \in fetches' : (g \in fetches /\ g # f) \/ g = w
      BY <2>5
    <3> QED BY <1>0, <2>1, <2>2, <2>3, <2>4, <3>1 DEF OneAtATime, RQ!ResolvedIsShown
  <2> QED BY <2>6, <2>7
<1>8. CASE RQ!Resolve \/ RQ!onClose \/ RQ!onRationaleChange
  <2>1. UNCHANGED <<requests, selected, instance, fetches, done, decision>>
    BY <1>8 DEF RQ!Resolve, RQ!onClose, RQ!onRationaleChange, RQ!server
  <2>2. /\ IsDetail(detail') /\ detail'.status = detail.status
        /\ detail'.resolved = detail.resolved /\ detail'.resolving = detail.resolving
        /\ selected # None => detail'.rationale \in {None, selected}
    <3>1. IsDetail(detail) /\ (selected # None => detail.rationale \in {None, selected})
      BY <1>0 DEF ReviewShown
    <3>2. \/ \E v \in {TRUE, FALSE} : detail' = [detail EXCEPT !.open = v]
          \/ \E v \in {None, selected} : detail' = [detail EXCEPT !.rationale = v]
      BY <1>8 DEF RQ!Resolve, RQ!onClose, RQ!onRationaleChange
    <3>3. CASE \E v \in {TRUE, FALSE} : detail' = [detail EXCEPT !.open = v]
      <4>1. PICK v : detail' = [detail EXCEPT !.open = v]
        BY <3>3
      <4> QED BY <3>1, <4>1 DEF IsDetail
    <3>4. CASE \E v \in {None, selected} : detail' = [detail EXCEPT !.rationale = v]
      <4>1. PICK v \in {None, selected} : detail' = [detail EXCEPT !.rationale = v]
        BY <3>4
      <4> QED BY <3>1, <4>1 DEF IsDetail
    <3> QED BY <3>2, <3>3, <3>4
  <2>3. Requested' /\ ReviewShown'
    BY <1>0, <2>1, <2>2 DEF Requested, ReviewShown
  <2>4. OneAtATime'
    BY <1>0, <2>1, <2>2 DEF OneAtATime, RQ!ResolvedIsShown
  <2> QED BY <2>3, <2>4
<1>9. CASE RQ!handleConfirmResolution
  <2>1. /\ selected # None /\ detail.status = "ready" /\ ~detail.resolving
        /\ detail.rationale # None
        /\ detail' = [detail EXCEPT !.resolving = TRUE]
        /\ UNCHANGED <<selected, instance, fetches, done, decision>>
    BY <1>9 DEF RQ!handleConfirmResolution, RQ!CanAct, RQ!server
  <2>2. PICK t \in Types :
          requests' = requests \cup
            {[who |-> "user", by |-> instance, review |-> selected, type |-> t,
              rationale |-> detail.rationale, scope |-> scope, at |-> "sent",
              heard |-> TRUE]}
    BY <1>9 DEF RQ!handleConfirmResolution
  <2> DEFINE w == [who |-> "user", by |-> instance, review |-> selected, type |-> t,
                   rationale |-> detail.rationale, scope |-> scope, at |-> "sent",
                   heard |-> TRUE]
  <2>3. requests' = requests \cup {w}
    BY <2>2
  <2>4. selected \in Reviews /\ detail.rationale = selected /\ IsDetail(detail)
    BY <1>0, <2>1 DEF ReviewShown
  <2>5. IsRequest(w) /\ w.by = instance /\ w.at = "sent"
    BY <2>4 DEF IsRequest
  <2> HIDE DEF w
  <2>6. /\ IsDetail(detail') /\ detail'.status = "ready"
        /\ detail'.resolved = detail.resolved /\ detail'.rationale = selected
        /\ detail'.resolving = TRUE
    <3>1. PICK v : v = TRUE /\ detail' = [detail EXCEPT !.resolving = v]
      BY <2>1
    <3>2. /\ IsDetail(detail') /\ detail'.status = "ready"
          /\ detail'.resolved = detail.resolved /\ detail'.rationale = selected
          /\ detail'.resolving = v
      BY <2>1, <2>4, <3>1 DEF IsDetail
    <3> QED BY <3>1, <3>2
  <2>7. Requested' /\ ReviewShown'
    BY <1>0, <2>1, <2>3, <2>4, <2>5, <2>6 DEF Requested, ReviewShown
  <2>8. OneAtATime'
    BY <1>0, <2>1, <2>3, <2>6 DEF OneAtATime, RQ!ResolvedIsShown
  <2> QED BY <2>7, <2>8
<1>10. CASE RQ!ResolutionArrives
  <2>1. PICK q \in requests :
          /\ q.at = "done" /\ requests' = requests \ {q}
          /\ detail' = IF RQ!Mounted(q.by)
                       THEN RQ!Reloading([detail EXCEPT !.open = FALSE, !.rationale = None])
                       ELSE detail
          /\ done' = (done \/ RQ!Mounted(q.by))
          /\ fetches' = fetches \cup {[by |-> q.by, review |-> q.review, value |-> None,
                                       after |-> TRUE, scope |-> q.scope]}
    BY <1>10 DEF RQ!ResolutionArrives
  <2>2. UNCHANGED <<selected, instance, decision>>
    BY <1>10 DEF RQ!ResolutionArrives, RQ!server
  <2> DEFINE f == [by |-> q.by, review |-> q.review, value |-> None, after |-> TRUE,
                   scope |-> q.scope]
  <2>3. IsFetch(f) /\ f.by = q.by /\ f.review = q.review /\ f.value = None
    BY DEF IsFetch
  <2>4. fetches' = fetches \cup {f}
    BY <2>1
  <2> HIDE DEF f
  <2>5. /\ q.review \in Reviews /\ q.by \in Nat /\ q.by <= instance /\ q.heard
        /\ decision[q.review] # None
    BY <1>0, <2>1 DEF Requested, IsRequest
  <2>6. CASE RQ!Mounted(q.by)
    <3>1. selected # None /\ q.by = instance
      BY <2>6 DEF RQ!Mounted
    <3>2. /\ \A g \in fetches : g.by # instance
          /\ \A p \in requests' : ~(p.heard /\ p.by = instance)
      BY <1>0, <2>1, <2>5, <3>1 DEF OneAtATime
    <3>3. IsDetail(detail') /\ detail'.status = "loading" /\ detail'.rationale = None
      <4> DEFINE d1 == [detail EXCEPT !.open = FALSE]
                 d2 == [d1 EXCEPT !.rationale = None]
      <4>1. IsDetail(detail)
        BY <1>0 DEF ReviewShown
      <4>2. IsDetail(d1)
        <5>1. \A v : IsDetail([detail EXCEPT !.open = v])
          BY <4>1 DEF IsDetail
        <5> QED BY <5>1
      <4>3. IsDetail(d2) /\ d2.rationale = None
        <5> HIDE DEF d1
        <5> QED BY <4>2 DEF IsDetail
      <4>4. detail' = [d2 EXCEPT !.status = "loading"]
        BY <2>1, <2>6 DEF RQ!Reloading
      <4> HIDE DEF d2
      <4> QED BY <4>3, <4>4 DEF IsDetail
    <3>4. Requested' /\ ReviewShown'
      BY <1>0, <2>1, <2>2, <2>3, <2>4, <2>5, <3>3 DEF Requested, ReviewShown
    <3>5. OneAtATime'
      BY <2>2, <2>3, <2>4, <2>5, <3>1, <3>2, <3>3 DEF OneAtATime, RQ!ResolvedIsShown
    <3> QED BY <3>4, <3>5
  <2>7. CASE ~RQ!Mounted(q.by)
    <3>1. detail' = detail /\ (selected # None => q.by # instance) /\ (done' <=> done)
      BY <2>1, <2>7 DEF RQ!Mounted
    <3>2. Requested' /\ ReviewShown'
      BY <1>0, <2>1, <2>2, <2>3, <2>4, <2>5, <3>1 DEF Requested, ReviewShown
    <3>3. OneAtATime'
      BY <1>0, <2>1, <2>2, <2>3, <2>4, <3>1 DEF OneAtATime, RQ!ResolvedIsShown
    <3> QED BY <3>2, <3>3
  <2> QED BY <2>6, <2>7
<1>11. CASE RQ!ResolutionFails
  <2>1. PICK q \in requests :
          /\ q.heard
          /\ requests' = (requests \ {q}) \cup
               (IF q.at \in {"sent", "checked"} THEN {[q EXCEPT !.heard = FALSE]} ELSE {})
          /\ detail' = IF RQ!Mounted(q.by) THEN [detail EXCEPT !.resolving = FALSE]
                       ELSE detail
    BY <1>11 DEF RQ!ResolutionFails
  <2>2. UNCHANGED <<selected, instance, fetches, done, decision>>
    BY <1>11 DEF RQ!ResolutionFails, RQ!server
  <2> DEFINE w == Forgotten(q)
  <2>3. IsRequest(q) /\ q.by \in Nat /\ q.by <= instance
    BY <1>0 DEF Requested
  <2>4. q.at \in {"sent", "checked"} =>
          IsRequest(w) /\ w.by = q.by /\ w.at = q.at /\ w.heard = FALSE
    BY <2>3, NoLongerHeard
  <2>5. \A p \in requests' : \/ p \in requests /\ p # q
                             \/ p = w /\ q.at \in {"sent", "checked"}
    BY <2>1 DEF Forgotten
  <2> HIDE DEF w
  <2>6. /\ IsDetail(detail') /\ detail'.status = detail.status
        /\ detail'.resolved = detail.resolved /\ detail'.rationale = detail.rationale
        /\ ~RQ!Mounted(q.by) => detail' = detail
    <3>1. IsDetail(detail)
      BY <1>0 DEF ReviewShown
    <3>2. PICK v : detail' = IF RQ!Mounted(q.by) THEN [detail EXCEPT !.resolving = v]
                             ELSE detail
      BY <2>1
    <3> QED BY <3>1, <3>2 DEF IsDetail
  <2>7. Requested'
    <3>1. \A p \in requests' : p \in requests \/ (IsRequest(w) /\ w.by = q.by /\ p = w
                                                    /\ p.at # "done")
      BY <2>4, <2>5
    <3> QED BY <1>0, <2>2, <2>3, <2>4, <2>5, <3>1 DEF Requested
  <2>8. ReviewShown'
    BY <1>0, <2>2, <2>6 DEF ReviewShown
  <2>9. OneAtATime'
    BY <1>0, <2>1, <2>2, <2>4, <2>5, <2>6 DEF OneAtATime, RQ!ResolvedIsShown, RQ!Mounted
  <2> QED BY <2>7, <2>8, <2>9
<1>12. CASE RQ!DetailArrives \/ RQ!DetailFails
  <2>1. PICK f \in fetches, st \in {"ready", "error"} :
          \E a \in {detail.resolved, f.value = "resolved"} :
            /\ RQ!DetailEnds(f, st, a)
            /\ st = "ready" => f.value # None /\ a = (f.value = "resolved")
    BY <1>12 DEF RQ!DetailArrives, RQ!DetailFails
  <2>2. PICK a : /\ RQ!DetailEnds(f, st, a)
                 /\ st = "ready" => f.value # None /\ a = (f.value = "resolved")
    BY <2>1
  <2>3. UNCHANGED <<requests, selected, instance, done, decision>>
    BY <1>12 DEF RQ!DetailArrives, RQ!DetailFails, RQ!server
  <2>4. /\ fetches' = fetches \ {f}
        /\ RQ!Mounted(f.by) => \E b :
             detail' = [detail EXCEPT !.status = st, !.resolved = a, !.resolving = b]
        /\ ~RQ!Mounted(f.by) => detail' = detail
    <3>1. detail' = IF RQ!Mounted(f.by)
                    THEN [detail EXCEPT !.status = st, !.resolved = a,
                                        !.resolving = IF f.after THEN FALSE
                                                      ELSE detail.resolving]
                    ELSE detail
      BY <2>2 DEF RQ!DetailEnds
    <3>2. RQ!Mounted(f.by) => \E b :
            detail' = [detail EXCEPT !.status = st, !.resolved = a, !.resolving = b]
      <4> SUFFICES ASSUME RQ!Mounted(f.by)
                   PROVE  \E b : detail' = [detail EXCEPT !.status = st, !.resolved = a,
                                                          !.resolving = b]
        OBVIOUS
      <4> WITNESS IF f.after THEN FALSE ELSE detail.resolving
      <4> QED BY <3>1
    <3> QED BY <2>2, <3>1, <3>2 DEF RQ!DetailEnds
  <2>5. Requested'
    BY <1>0, <2>3 DEF Requested
  <2>6. CASE RQ!Mounted(f.by)
    <3>1. selected # None /\ f.by = instance
      BY <2>6 DEF RQ!Mounted
    <3>2. PICK b : detail' = [detail EXCEPT !.status = st, !.resolved = a, !.resolving = b]
      BY <2>4, <2>6
    <3>3. /\ IsDetail(detail') /\ detail'.status = st /\ detail'.resolved = a
          /\ detail'.rationale = detail.rationale
      <4> DEFINE d1 == [detail EXCEPT !.status = st]  d2 == [d1 EXCEPT !.resolved = a]
      <4>1. IsDetail(detail)
        BY <1>0 DEF ReviewShown
      <4>2. IsDetail(d1) /\ d1.status = st /\ d1.rationale = detail.rationale
        BY <4>1 DEF IsDetail
      <4>3. IsDetail(d2) /\ d2.status = st /\ d2.rationale = detail.rationale
            /\ d2.resolved = a
        <5> HIDE DEF d1
        <5> QED BY <4>2 DEF IsDetail
      <4>4. detail' = [d2 EXCEPT !.resolving = b]
        BY <3>2
      <4> HIDE DEF d2
      <4> QED BY <4>3, <4>4 DEF IsDetail
    <3>4. ReviewShown'
      BY <1>0, <2>3, <2>4, <3>3 DEF ReviewShown
    <3>5. /\ \A g \in fetches' : g.by # instance
          /\ \A q \in requests : ~(q.heard /\ q.by = instance)
      BY <1>0, <2>4, <3>1 DEF OneAtATime
    <3>6. st = "ready" /\ done => f.value = "resolved"
      BY <1>0, <2>2, <3>1 DEF OneAtATime
    <3>7. st = "ready" /\ done => detail'.resolved
      BY <2>2, <3>3, <3>6
    <3>8. OneAtATime'
      BY <2>3, <3>3, <3>5, <3>7 DEF OneAtATime, RQ!ResolvedIsShown
    <3> QED BY <2>5, <3>4, <3>8
  <2>7. CASE ~RQ!Mounted(f.by)
    <3>1. detail' = detail
      BY <2>4, <2>7
    <3>2. ReviewShown'
      BY <1>0, <2>3, <2>4, <3>1 DEF ReviewShown
    <3>3. OneAtATime'
      BY <1>0, <2>3, <2>4, <3>1 DEF OneAtATime, RQ!ResolvedIsShown
    <3> QED BY <2>5, <3>2, <3>3
  <2> QED BY <2>6, <2>7
<1> QED BY <1>2, <1>3, <1>4, <1>5, <1>6, <1>7, <1>8, <1>9, <1>10, <1>11, <1>12
     DEF RQ!Next, RQ!QueueRead, RQ!QueueArrives, RQ!QueueFails, RQ!ChangeScope, RQ!vars,
     RQ!page

LEMMA ReviewsStep ==
  ReviewsInv /\ (RQ!Next \/ UNCHANGED RQ!vars) => ReviewsInv'
BY DecidedStep, QueueStep, ReviewPageStep DEF ReviewsInv

LEMMA ReviewsMeans ==
  ReviewsInv => /\ RQ!TypeOK /\ RQ!RationaleOfItsReview /\ RQ!ResolvedIsShown
                /\ RQ!DecisionsAudited
<1> SUFFICES ASSUME ReviewsInv
             PROVE  /\ RQ!TypeOK /\ RQ!RationaleOfItsReview /\ RQ!ResolvedIsShown
                    /\ RQ!DecisionsAudited
  OBVIOUS
<1>0. Decided /\ QueueLoaded /\ Requested /\ ReviewShown /\ OneAtATime
  BY DEF ReviewsInv
<1>1. RQ!TypeOK
  BY <1>0 DEF Decided, QueueLoaded, ReviewShown, IsDetail, RQ!TypeOK
<1>2. RQ!RationaleOfItsReview
  BY <1>0 DEF Requested, IsRequest, RQ!RationaleOfItsReview
<1>3. RQ!ResolvedIsShown
  BY <1>0 DEF OneAtATime, RQ!ResolvedIsShown
<1> QED BY <1>0, <1>1, <1>2, <1>3 DEF Decided

-----------------------------------------------------------------------------
(* Sequences as the evaluator builds them.                                 *)
LEMMA ConcatElements ==
  ASSUME NEW X, NEW s \in Seq(X), NEW t \in Seq(X)
  PROVE  s \o t \in Seq(X) /\ RO!ToSet(s \o t) = RO!ToSet(s) \cup RO!ToSet(t)
<1>1. s \o t \in Seq(X)
  OBVIOUS
<1>2. DOMAIN (s \o t) = 1..(Len(s) + Len(t)) /\ DOMAIN s = 1..Len(s) /\ DOMAIN t = 1..Len(t)
  OBVIOUS
<1>3. \A i \in DOMAIN s : (s \o t)[i] = s[i]
  OBVIOUS
<1>4. \A i \in DOMAIN t : (s \o t)[Len(s) + i] = t[i] /\ Len(s) + i \in DOMAIN (s \o t)
  OBVIOUS
<1>5. \A i \in DOMAIN (s \o t) : i \in DOMAIN s \/ \E j \in DOMAIN t : i = Len(s) + j
  <2> TAKE i \in DOMAIN (s \o t)
  <2>1. CASE i <= Len(s)
    BY <1>2, <2>1
  <2>2. CASE ~(i <= Len(s))
    <3>1. i - Len(s) \in DOMAIN t /\ i = Len(s) + (i - Len(s))
      BY <1>2, <2>2
    <3> QED BY <3>1
  <2> QED BY <2>1, <2>2
<1>6. RO!ToSet(s \o t) \subseteq RO!ToSet(s) \cup RO!ToSet(t)
  BY <1>3, <1>4, <1>5 DEF RO!ToSet
<1>7. RO!ToSet(s) \subseteq RO!ToSet(s \o t)
  BY <1>2, <1>3 DEF RO!ToSet
<1>8. RO!ToSet(t) \subseteq RO!ToSet(s \o t)
  BY <1>4 DEF RO!ToSet
<1> QED BY <1>1, <1>6, <1>7, <1>8

LEMMA FlattenElements ==
  ASSUME NEW X, NEW m \in Nat, NEW ss \in [1..m -> Seq(X)]
  PROVE  /\ RO!FlattenSeq(ss) \in Seq(X)
         /\ \A x : x \in RO!ToSet(RO!FlattenSeq(ss)) <=>
                   \E n \in 1..m : x \in RO!ToSet(ss[n])
<1> DEFINE Built(g, k) == g = [i \in 1..k |-> IF i = 1 THEN ss[i] ELSE g[i - 1] \o ss[i]]
           Flat(g, k) == /\ g[k] \in Seq(X)
                         /\ \A x : x \in RO!ToSet(g[k]) <=>
                                   \E n \in 1..k : x \in RO!ToSet(ss[n])
           T == {k \in 1..m : ~\E g : Built(g, k) /\ Flat(g, k)}
<1>0. Len(ss) = m /\ DOMAIN ss = 1..m
  OBVIOUS
<1>1. CASE m = 0
  BY <1>0, <1>1 DEF RO!FlattenSeq, RO!ToSet
<1>2. CASE m # 0
  <2>1. T = {}
    <3> SUFFICES ASSUME T # {} PROVE FALSE
      OBVIOUS
    <3>0. T \in SUBSET Nat
      <4> HIDE DEF Built, Flat
      <4> QED OBVIOUS
    <3>1. PICK k \in T : \A l \in T : k <= l
      <4> HIDE DEF T
      <4> QED BY <3>0, Least
    <3>2. k \in 1..m /\ ss[k] \in Seq(X)
      BY <3>1
    <3>3. k # 1
      <4> DEFINE g == [i \in 1..1 |-> ss[i]]
      <4>1. Built(g, 1) /\ g[1] = ss[1]
        OBVIOUS
      <4>2. \A n : n \in 1..1 <=> n = 1
        OBVIOUS
      <4>3. ss[1] \in Seq(X)
        BY <1>2
      <4>4. Flat(g, 1)
        BY <4>1, <4>2, <4>3
      <4> HIDE DEF g, Built, Flat
      <4> QED BY <3>1, <4>1, <4>4
    <3>4. k - 1 \in 1..m /\ k - 1 \notin T
      <4>1. k - 1 \in 1..m /\ ~(k <= k - 1)
        BY <3>2, <3>3
      <4> HIDE DEF T
      <4> QED BY <3>1, <4>1
    <3>5. PICK g : Built(g, k - 1) /\ Flat(g, k - 1)
      BY <3>4
    <3> DEFINE h == [i \in 1..k |-> IF i = k THEN g[k - 1] \o ss[k] ELSE g[i]]
    <3>6. \A i \in 1..k : h[i] = IF i = 1 THEN ss[i] ELSE h[i - 1] \o ss[i]
      <4> TAKE i \in 1..k
      <4>1. CASE i = k
        <5>1. k - 1 \in 1..k /\ k - 1 # k
          BY <3>2, <3>4
        <5>2. h[k - 1] = g[k - 1] /\ h[k] = g[k - 1] \o ss[k]
          BY <3>2, <5>1
        <5> QED BY <3>3, <4>1, <5>2
      <4>2. CASE i # k
        <5>1. i \in 1..(k - 1) /\ h[i] = g[i] /\ (i # 1 => h[i - 1] = g[i - 1])
          BY <3>2, <4>2
        <5> QED BY <3>5, <5>1
      <4> QED BY <4>1, <4>2
    <3>7. Built(h, k)
      BY <3>6
    <3>8. h[k] = g[k - 1] \o ss[k]
      BY <3>2
    <3>9. g[k - 1] \in Seq(X)
      BY <3>5
    <3> HIDE DEF h
    <3>10. /\ h[k] \in Seq(X)
           /\ RO!ToSet(h[k]) = RO!ToSet(g[k - 1]) \cup RO!ToSet(ss[k])
      BY <3>2, <3>8, <3>9, ConcatElements
    <3>11. 1..k = (1..(k - 1)) \cup {k}
      BY <3>2
    <3>12. \A x : (\E n \in 1..k : x \in RO!ToSet(ss[n])) <=>
                  (\E n \in 1..(k - 1) : x \in RO!ToSet(ss[n])) \/ x \in RO!ToSet(ss[k])
      BY <3>11
    <3>13. Flat(h, k)
      BY <3>5, <3>10, <3>12
    <3> QED BY <3>1, <3>7, <3>13
  <2>2. PICK g : Built(g, m) /\ Flat(g, m)
    <3>1. m \in 1..m
      BY <1>2
    <3> HIDE DEF Built, Flat
    <3> QED BY <2>1, <3>1
  <2> DEFINE f == CHOOSE f : Built(f, m)
  <2>3. Built(f, m)
    BY <2>2
  <2>4. f = g
    <3>1. \A i \in 1..m : f[i] = g[i]
      <4> DEFINE D == {i \in 1..m : f[i] # g[i]}
      <4> HIDE DEF f
      <4> SUFFICES ASSUME D # {} PROVE FALSE
        OBVIOUS
      <4>0. D \in SUBSET Nat
        OBVIOUS
      <4>1. PICK i \in D : \A j \in D : i <= j
        <5> HIDE DEF D
        <5> QED BY <4>0, Least
      <4>2. i \in 1..m /\ f[i] # g[i]
        BY <4>1
      <4>3. f[i] = (IF i = 1 THEN ss[i] ELSE f[i - 1] \o ss[i])
        BY <2>3, <4>2
      <4>4. g[i] = (IF i = 1 THEN ss[i] ELSE g[i - 1] \o ss[i])
        BY <2>2, <4>2
      <4>5. i # 1 => i - 1 \in 1..m /\ ~(i <= i - 1)
        BY <4>2
      <4>6. i # 1 => f[i - 1] = g[i - 1]
        BY <4>1, <4>5
      <4> QED BY <4>2, <4>3, <4>4, <4>6
    <3> HIDE DEF f
    <3>2. f = [i \in 1..m |-> f[i]] /\ g = [i \in 1..m |-> g[i]]
      BY <2>2, <2>3
    <3> QED BY <3>1, <3>2
  <2>5. RO!FlattenSeq(ss) = f[m]
    BY <1>0, <1>2 DEF RO!FlattenSeq
  <2> HIDE DEF f
  <2> QED BY <2>2, <2>4, <2>5
<1> QED BY <1>1, <1>2
-----------------------------------------------------------------------------
(* The amount of a window.  MapThenSumSet adds up a set in an order that is *)
(* chosen; SumOn is the recursive function it chooses.                      *)
OneOf(s) == CHOOSE x \in s : TRUE
SumStep(rp, g, s) == IF s = {} THEN 0 ELSE rp[OneOf(s)].amount + g[s \ {OneOf(s)}]
SumOn(rp, g, S) == g = [s \in SUBSET S |-> SumStep(rp, g, s)]

LEMMA SumExists ==
  ASSUME NEW rp, NEW S, IsFiniteSet(S)
  PROVE  \E g : SumOn(rp, g, S)
<1> DEFINE Small(k) == {s \in SUBSET S : Cardinality(s) <= k}
           Built(g, k) == g = [s \in Small(k) |-> SumStep(rp, g, s)]
           T == {k \in Nat : ~\E g : Built(g, k)}
<1>1. \A s \in SUBSET S : IsFiniteSet(s) /\ Cardinality(s) \in Nat
  BY FS_Subset, FS_CardinalityType
<1>2. \A s \in SUBSET S : s # {} =>
        /\ s \ {OneOf(s)} \in SUBSET S
        /\ Cardinality(s \ {OneOf(s)}) = Cardinality(s) - 1
  <2> TAKE s \in SUBSET S
  <2> HAVE s # {}
  <2>1. OneOf(s) \in s
    BY DEF OneOf
  <2> QED BY <1>1, <2>1, FS_RemoveElement
<1>3. T = {}
  <2> SUFFICES ASSUME T # {} PROVE FALSE
    OBVIOUS
  <2>1. PICK k \in T : \A l \in T : k <= l
    <3>1. T \in SUBSET Nat
      <4> HIDE DEF Built
      <4> QED OBVIOUS
    <3> HIDE DEF T
    <3> QED BY <3>1, Least
  <2>2. k \in Nat /\ ~\E g : Built(g, k)
    BY <2>1
  <2>3. k # 0
    <3> DEFINE g == [s \in Small(0) |-> 0]
    <3>1. \A s \in Small(0) : s = {}
      <4> TAKE s \in Small(0)
      <4>1. IsFiniteSet(s) /\ Cardinality(s) = 0
        BY <1>1
      <4> QED BY <4>1, FS_EmptySet
    <3>2. Built(g, 0)
      BY <3>1 DEF SumStep
    <3> HIDE DEF g, Built
    <3> QED BY <2>2, <3>2
  <2>4. k - 1 \in Nat /\ ~(k <= k - 1)
    BY <2>2, <2>3
  <2>5. k - 1 \notin T
    <3> HIDE DEF T
    <3> QED BY <2>1, <2>4
  <2>6. PICK g : Built(g, k - 1)
    BY <2>4, <2>5
  <2> DEFINE h == [s \in Small(k) |-> SumStep(rp, g, s)]
  <2>7. \A s \in Small(k) : s # {} =>
          /\ s \ {OneOf(s)} \in Small(k - 1) /\ s \ {OneOf(s)} \in Small(k)
    <3> TAKE s \in Small(k)
    <3> HAVE s # {}
    <3>1. s \in SUBSET S /\ Cardinality(s) \in Nat /\ Cardinality(s) <= k
      BY <1>1
    <3>2. /\ s \ {OneOf(s)} \in SUBSET S
          /\ Cardinality(s \ {OneOf(s)}) = Cardinality(s) - 1
      BY <1>2, <3>1
    <3>3. Cardinality(s) - 1 <= k - 1 /\ Cardinality(s) - 1 <= k
      BY <2>2, <3>1
    <3> QED BY <3>2, <3>3
  <2>8. \A s \in Small(k - 1) : h[s] = g[s]
    <3> TAKE s \in Small(k - 1)
    <3>1. s \in Small(k)
      <4>1. s \in SUBSET S /\ Cardinality(s) \in Nat /\ Cardinality(s) <= k - 1
        BY <1>1
      <4> QED BY <2>2, <4>1
    <3>2. g[s] = SumStep(rp, g, s)
      BY <2>6
    <3> QED BY <3>1, <3>2
  <2>9. \A s \in Small(k) : SumStep(rp, g, s) = SumStep(rp, h, s)
    <3> HIDE DEF h, Small
    <3> QED BY <2>7, <2>8 DEF SumStep
  <2>10. Built(h, k)
    <3>1. h = [s \in Small(k) |-> SumStep(rp, h, s)]
      <4> DEFINE A == Small(k)
                 h0 == [s \in A |-> SumStep(rp, g, s)]
      <4>1. \A s \in A : SumStep(rp, g, s) = SumStep(rp, h0, s)
        BY <2>9
      <4> HIDE DEF A
      <4>2. h0 = [s \in A |-> SumStep(rp, h0, s)]
        BY <4>1
      <4> QED BY <4>2 DEF A
    <3> HIDE DEF h
    <3> QED BY <3>1
  <2> HIDE DEF h, Built
  <2> QED BY <2>2, <2>10
<1>4. PICK g : Built(g, Cardinality(S))
  <2>1. Cardinality(S) \in Nat
    BY FS_CardinalityType
  <2> HIDE DEF Built
  <2> QED BY <1>3, <2>1
<1>5. Small(Cardinality(S)) = SUBSET S
  BY FS_Subset
<1> QED BY <1>4, <1>5 DEF SumOn

LEMMA SumUnique ==
  ASSUME NEW rp, NEW S, NEW g, SumOn(rp, g, S), NEW T, NEW h, SumOn(rp, h, T),
         IsFiniteSet(S), T \subseteq S
  PROVE  \A s \in SUBSET T : g[s] = h[s]
<1> DEFINE Wrong(s) == g[s] # h[s]
           N == {n \in Nat : \E s \in SUBSET T : Wrong(s) /\ Cardinality(s) = n}
<1>1. \A s \in SUBSET T : IsFiniteSet(s) /\ Cardinality(s) \in Nat
  BY FS_Subset, FS_CardinalityType
<1> SUFFICES ASSUME NEW z \in SUBSET T, Wrong(z) PROVE FALSE
  OBVIOUS
<1> HIDE DEF Wrong
<1>2. N \in SUBSET Nat /\ N # {}
  BY <1>1
<1>3. PICK n \in N : \A l \in N : n <= l
  <2> HIDE DEF N
  <2> QED BY <1>2, Least
<1>4. PICK s \in SUBSET T : Wrong(s) /\ Cardinality(s) = n
  BY <1>3
<1>5. g[s] = SumStep(rp, g, s) /\ h[s] = SumStep(rp, h, s)
  <2>1. s \in SUBSET S
    OBVIOUS
  <2> QED BY <2>1 DEF SumOn
<1>6. s # {} /\ g[s \ {OneOf(s)}] # h[s \ {OneOf(s)}]
  BY <1>4, <1>5 DEF SumStep, Wrong
<1>7. OneOf(s) \in s
  BY <1>6 DEF OneOf
<1>8. s \ {OneOf(s)} \in SUBSET T /\ Cardinality(s \ {OneOf(s)}) = n - 1
  BY <1>1, <1>4, <1>7, FS_RemoveElement
<1>9. n - 1 \in Nat /\ ~(n <= n - 1)
  BY <1>1, <1>3, <1>8
<1>10. n - 1 \in N
  BY <1>6, <1>8, <1>9 DEF Wrong
<1> HIDE DEF N
<1> QED BY <1>3, <1>9, <1>10

LEMMA TotalIsSum ==
  ASSUME NEW rp, NEW S, NEW g, SumOn(rp, g, S), IsFiniteSet(S)
  PROVE  RO!Total(rp, S) = g[S]
<1> DEFINE f == CHOOSE f : SumOn(rp, f, S)
<1>1. SumOn(rp, f, S)
  OBVIOUS
<1>2. RO!Total(rp, S) = f[S]
  BY DEF RO!Total, RO!MapThenSumSet, RO!MapThenFoldSet, SumOn, SumStep, OneOf
<1> HIDE DEF f
<1> QED BY <1>1, <1>2, SumUnique

(* A row can be taken out first.                                            *)
LEMMA TotalSteps ==
  ASSUME NEW rp, NEW S, IsFiniteSet(S), \A j \in S : rp[j].amount \in Nat
  PROVE  /\ RO!Total(rp, {}) = 0
         /\ \A s \in SUBSET S : RO!Total(rp, s) \in Nat
         /\ \A s \in SUBSET S : \A x \in s :
              RO!Total(rp, s) = rp[x].amount + RO!Total(rp, s \ {x})
<1>1. PICK g : SumOn(rp, g, S)
  BY SumExists
<1>2. \A s \in SUBSET S : IsFiniteSet(s) /\ Cardinality(s) \in Nat
  BY FS_Subset, FS_CardinalityType
<1>3. \A s \in SUBSET S : RO!Total(rp, s) = g[s]
  <2> TAKE s \in SUBSET S
  <2>1. PICK h : SumOn(rp, h, s)
    BY <1>2, SumExists
  <2>2. RO!Total(rp, s) = h[s]
    BY <1>2, <2>1, TotalIsSum
  <2> QED BY <1>1, <2>1, <2>2, SumUnique
<1>4. g[{}] = 0 /\ \A s \in SUBSET S : s # {} =>
                     OneOf(s) \in s /\ g[s] = rp[OneOf(s)].amount + g[s \ {OneOf(s)}]
  BY <1>1 DEF SumOn, SumStep, OneOf
<1> DEFINE Right(s) == /\ g[s] \in Nat
                      /\ \A x \in s : g[s] = rp[x].amount + g[s \ {x}]
           N == {n \in Nat : \E s \in SUBSET S : ~Right(s) /\ Cardinality(s) = n}
<1> HIDE DEF Right
<1>5. \A s \in SUBSET S : Right(s)
  <2> SUFFICES ASSUME NEW z \in SUBSET S, ~Right(z) PROVE FALSE
    OBVIOUS
  <2>1. N \in SUBSET Nat /\ N # {}
    BY <1>2
  <2>2. PICK n \in N : \A l \in N : n <= l
    <3> HIDE DEF N
    <3> QED BY <2>1, Least
  <2>3. PICK s \in SUBSET S : ~Right(s) /\ Cardinality(s) = n
    BY <2>2
  <2>4. \A t \in SUBSET S : Cardinality(t) < n => Right(t)
    <3> TAKE t \in SUBSET S
    <3> HAVE Cardinality(t) < n
    <3>1. ~(n <= Cardinality(t)) /\ Cardinality(t) \in Nat
      BY <1>2, <2>2
    <3>2. Cardinality(t) \notin N
      <4> HIDE DEF N
      <4> QED BY <2>2, <3>1
    <3> QED BY <3>1, <3>2
  <2>5. \A x \in s : /\ s \ {x} \in SUBSET S
                     /\ Cardinality(s \ {x}) = n - 1
                     /\ Cardinality(s \ {x}) < n
    <3> TAKE x \in s
    <3>1. Cardinality(s \ {x}) = Cardinality(s) - 1
      BY <1>2, FS_RemoveElement
    <3>2. n \in Nat
      BY <2>2
    <3> QED BY <2>3, <3>1, <3>2
  <2>6. s # {}
    <3> SUFFICES ASSUME s = {} PROVE FALSE
      OBVIOUS
    <3>1. g[s] = 0 /\ \A x \in s : FALSE
      BY <1>4
    <3>2. Right(s)
      BY <3>1 DEF Right
    <3> QED BY <2>3, <3>2
  <2> DEFINE c == OneOf(s)
  <2>7. c \in s /\ g[s] = rp[c].amount + g[s \ {c}]
    BY <1>4, <2>6
  <2> HIDE DEF c
  <2>8. Right(s \ {c})
    BY <2>4, <2>5, <2>7
  <2>9. g[s] \in Nat
    BY <2>7, <2>8 DEF Right
  <2>10. ASSUME NEW x \in s PROVE g[s] = rp[x].amount + g[s \ {x}]
    <3>1. CASE x = c
      BY <2>7, <3>1
    <3>2. CASE x # c
      <4>1. x \in s \ {c} /\ c \in s \ {x}
        BY <2>7, <3>2
      <4>2. Right(s \ {x})
        BY <2>4, <2>5
      <4>3. g[s \ {c}] = rp[x].amount + g[(s \ {c}) \ {x}]
        BY <2>8, <4>1 DEF Right
      <4>4. g[s \ {x}] = rp[c].amount + g[(s \ {x}) \ {c}]
        BY <4>1, <4>2 DEF Right
      <4>5. (s \ {c}) \ {x} = (s \ {x}) \ {c} /\ (s \ {c}) \ {x} \in SUBSET S
        OBVIOUS
      <4>6. g[(s \ {c}) \ {x}] \in Nat
        <5>1. Cardinality((s \ {c}) \ {x}) = Cardinality(s \ {c}) - 1
          BY <1>2, <2>5, <2>7, <4>1, FS_RemoveElement
        <5>2. Cardinality((s \ {c}) \ {x}) < n
          BY <2>2, <2>5, <2>7, <5>1
        <5> QED BY <2>4, <4>5, <5>2 DEF Right
      <4>7. rp[x].amount \in Nat /\ rp[c].amount \in Nat
        BY <2>7
      <4> DEFINE u == g[(s \ {c}) \ {x}]
      <4>8. /\ g[s \ {c}] = rp[x].amount + u /\ g[s \ {x}] = rp[c].amount + u
            /\ u \in Nat
        BY <4>3, <4>4, <4>5, <4>6
      <4> HIDE DEF u
      <4> QED BY <2>7, <4>7, <4>8
    <3> QED BY <3>1, <3>2
  <2> QED BY <2>3, <2>9, <2>10 DEF Right
<1> QED BY <1>3, <1>4, <1>5 DEF Right

-----------------------------------------------------------------------------
(* The report read from its last row.                                      *)
Mirror(rp, S) == {Len(rp) + 1 - j : j \in S}
There(rp, i) == Len(rp) + 1 - i

LEMMA MirrorRows ==
  ASSUME NEW rp, rp \in Seq(RO!ToSet(rp))
  PROVE  /\ DOMAIN RO!Reverse(rp) = DOMAIN rp
         /\ Len(RO!Reverse(rp)) = Len(rp)
         /\ \A j \in DOMAIN rp : /\ Len(rp) + 1 - j \in DOMAIN rp
                                  /\ Len(rp) + 1 - (Len(rp) + 1 - j) = j
                                  /\ RO!Reverse(rp)[Len(rp) + 1 - j] = rp[j]
<1>1. Len(rp) \in Nat /\ DOMAIN rp = 1..Len(rp)
  OBVIOUS
<1>2. \A j \in 1..Len(rp) : /\ Len(rp) + 1 - j \in 1..Len(rp)
                             /\ Len(rp) + 1 - (Len(rp) + 1 - j) = j
                             /\ (Len(rp) - (Len(rp) + 1 - j)) + 1 = j
  BY <1>1
<1>3. RO!Reverse(rp) = [j \in 1..Len(rp) |-> rp[(Len(rp) - j) + 1]]
  BY DEF RO!Reverse
<1>4. DOMAIN RO!Reverse(rp) = 1..Len(rp) /\ Len(RO!Reverse(rp)) = Len(rp)
  BY <1>1, <1>3
<1> QED BY <1>1, <1>2, <1>3, <1>4

LEMMA MirrorTotal ==
  ASSUME NEW rp, rp \in Seq(RO!ToSet(rp)),
         \A i \in DOMAIN rp : rp[i].amount \in Nat,
         NEW S \in SUBSET DOMAIN rp
  PROVE  RO!Total(RO!Reverse(rp), Mirror(rp, S)) = RO!Total(rp, S)
<1> DEFINE D == DOMAIN rp
           back == RO!Reverse(rp)
           at(j) == Len(rp) + 1 - j
           Differ(s) == RO!Total(back, Mirror(rp, s)) # RO!Total(rp, s)
           N == {n \in Nat : \E s \in SUBSET D : Differ(s) /\ Cardinality(s) = n}
<1>1. IsFiniteSet(D)
  <2>1. D = 1..Len(rp) /\ Len(rp) \in Nat
    OBVIOUS
  <2> QED BY <2>1, FS_Interval
<1>2. \A j \in D : at(j) \in D /\ at(at(j)) = j /\ back[at(j)] = rp[j]
  BY MirrorRows
<1>3. \A j \in D : back[j].amount \in Nat
  <2> TAKE j \in D
  <2>1. at(j) \in D /\ back[at(at(j))] = rp[at(j)] /\ at(at(j)) = j
    BY <1>2
  <2> QED BY <2>1
<1>4. /\ RO!Total(rp, {}) = 0 /\ RO!Total(back, {}) = 0
      /\ \A s \in SUBSET D : \A x \in s :
           /\ RO!Total(rp, s) = rp[x].amount + RO!Total(rp, s \ {x})
           /\ RO!Total(back, s) = back[x].amount + RO!Total(back, s \ {x})
  <2> HIDE DEF D, back
  <2>1. \A j \in D : rp[j].amount \in Nat
    BY DEF D
  <2>2. /\ RO!Total(rp, {}) = 0
        /\ \A s \in SUBSET D : \A x \in s :
             RO!Total(rp, s) = rp[x].amount + RO!Total(rp, s \ {x})
    BY <1>1, <2>1, TotalSteps
  <2>3. /\ RO!Total(back, {}) = 0
        /\ \A s \in SUBSET D : \A x \in s :
             RO!Total(back, s) = back[x].amount + RO!Total(back, s \ {x})
    BY <1>1, <1>3, TotalSteps
  <2> QED BY <2>2, <2>3
<1>5. \A s \in SUBSET D : IsFiniteSet(s) /\ Cardinality(s) \in Nat
  BY <1>1, FS_Subset, FS_CardinalityType
<1> SUFFICES ASSUME Differ(S) PROVE FALSE
  OBVIOUS
<1> HIDE DEF Differ, back
<1>6. N \in SUBSET Nat /\ N # {}
  BY <1>5
<1>7. PICK n \in N : \A l \in N : n <= l
  <2> HIDE DEF N
  <2> QED BY <1>6, Least
<1>8. PICK s \in SUBSET D : Differ(s) /\ Cardinality(s) = n
  BY <1>7
<1>9. s # {}
  <2> SUFFICES ASSUME s = {} PROVE FALSE
    OBVIOUS
  <2>1. Mirror(rp, s) = {}
    BY DEF Mirror
  <2> QED BY <1>4, <1>8, <2>1 DEF Differ
<1>10. PICK x \in s : TRUE
  BY <1>9
<1>11. s \ {x} \in SUBSET D /\ Cardinality(s \ {x}) = n - 1
  BY <1>5, <1>8, FS_RemoveElement
<1>12. ~Differ(s \ {x})
  <2>1. n - 1 \in Nat /\ ~(n <= n - 1)
    BY <1>5, <1>7, <1>11
  <2>2. n - 1 \notin N
    <3> HIDE DEF N
    <3> QED BY <1>7, <2>1
  <2> QED BY <1>11, <2>1, <2>2
<1>13. /\ Mirror(rp, s) \in SUBSET D /\ at(x) \in Mirror(rp, s)
       /\ Mirror(rp, s) \ {at(x)} = Mirror(rp, s \ {x})
  <2> HIDE DEF D
  <2>1. \A j \in s : at(j) \in D /\ at(at(j)) = j
    BY <1>2
  <2>2. \A j \in s : at(j) = at(x) => j = x
    BY <2>1
  <2> HIDE DEF at
  <2>3. Mirror(rp, s) = {at(j) : j \in s} /\ Mirror(rp, s \ {x}) = {at(j) : j \in s \ {x}}
    BY DEF Mirror, at
  <2>4. Mirror(rp, s) \in SUBSET D /\ at(x) \in Mirror(rp, s)
    BY <2>1, <2>3
  <2>5. ASSUME NEW y PROVE y \in Mirror(rp, s) \ {at(x)} <=> y \in Mirror(rp, s \ {x})
    <3>1. y \in Mirror(rp, s) <=> \E j \in s : y = at(j)
      BY <2>3
    <3>2. y \in Mirror(rp, s \ {x}) <=> \E j \in s : j # x /\ y = at(j)
      BY <2>3
    <3> QED BY <2>2, <3>1, <3>2
  <2>6. Mirror(rp, s) \ {at(x)} = Mirror(rp, s \ {x})
    BY <2>5
  <2> QED BY <2>4, <2>6
<1>14. back[at(x)] = rp[x]
  BY <1>2
<1> HIDE DEF D, at
<1>15. /\ RO!Total(rp, s) = rp[x].amount + RO!Total(rp, s \ {x})
       /\ RO!Total(back, Mirror(rp, s))
          = rp[x].amount + RO!Total(back, Mirror(rp, s) \ {at(x)})
  BY <1>4, <1>13, <1>14
<1>16. RO!Total(back, Mirror(rp, s)) = rp[x].amount + RO!Total(back, Mirror(rp, s \ {x}))
  BY <1>13, <1>15
<1>17. RO!Total(back, Mirror(rp, s \ {x})) = RO!Total(rp, s \ {x})
  BY <1>12 DEF Differ
<1> QED BY <1>8, <1>15, <1>16, <1>17 DEF Differ

-----------------------------------------------------------------------------
(* What a rule says of a row, as a set of candidates.                      *)
Says(rule, rp, i) ==
  RO!ToSet(RO!WindowMatch(rule, rp, i)) \cup RO!ToSet(RO!RowMatch(rule, rp, i))

Found(rule, rp, i, v) == \E x \in Says(rule, rp, i) : x.verdict = v

LEMMA SingleElement ==
  ASSUME NEW x
  PROVE  RO!ToSet(<<x>>) = {x} /\ RO!ToSet(<<>>) = {}
<1>1. DOMAIN <<x>> = {1} /\ <<x>>[1] = x
  <2>1. DOMAIN <<x>> = 1..1
    OBVIOUS
  <2>2. \A n : n \in 1..1 <=> n = 1
    OBVIOUS
  <2> QED BY <2>1, <2>2
<1>2. RO!ToSet(<<x>>) = {x}
  BY <1>1 DEF RO!ToSet
<1>3. RO!ToSet(<<>>) = {}
  BY DEF RO!ToSet
<1> QED BY <1>2, <1>3

(* A window of a rule that it is found against.                            *)
Trips(rule, rp, i) ==
  /\ rule.status = "compiled" /\ rule.window
  /\ i \in RO!WindowOf(rule, rp, i)
  /\ RO!Total(rp, RO!WindowOf(rule, rp, i)) > rule.limit
  /\ RO!IsMatch(RO!exception_outcome(rule, rp[i]))
OfWindow(rule, rp, i) ==
  RO!Candidate(rule, RO!exception_outcome(rule, rp[i]), FALSE,
               RO!WindowOf(rule, rp, i))

LEMMA WindowSays ==
  ASSUME NEW rule, NEW rp, NEW i
  PROVE  /\ RO!WindowMatch(rule, rp, i)
            = IF Trips(rule, rp, i) THEN <<OfWindow(rule, rp, i)>> ELSE <<>>
         /\ RO!ToSet(RO!WindowMatch(rule, rp, i))
            = IF Trips(rule, rp, i) THEN {OfWindow(rule, rp, i)} ELSE {}
<1>1. RO!WindowMatch(rule, rp, i)
      = IF Trips(rule, rp, i) THEN <<OfWindow(rule, rp, i)>> ELSE <<>>
  BY DEF RO!WindowMatch, Trips, OfWindow, RO!included_rows
<1> QED BY <1>1, SingleElement

LEMMA SaysWhat ==
  ASSUME NEW rule, NEW rp, NEW i
  PROVE  /\ RO!WindowMatch(rule, rp, i) \in Seq(Says(rule, rp, i))
         /\ RO!RowMatch(rule, rp, i) \in Seq(Says(rule, rp, i))
         /\ \A x \in Says(rule, rp, i) :
              /\ x.rule = rule
              /\ x.verdict \in {"violation", "missing_evidence", "needs_review"}
              /\ x.rows # {} => Trips(rule, rp, i) /\ x = OfWindow(rule, rp, i)
              /\ \E v \in {"violation", "missing_evidence", "needs_review"},
                    b \in BOOLEAN, W \in SUBSET DOMAIN rp :
                   x = RO!Candidate(rule, v, b, W)
<1>1. RO!exception_outcome(rule, rp[i]) \in {"violation", "missing_evidence", "pass"}
  BY DEF RO!exception_outcome
<1>2. PICK v : /\ v \in {"violation", "missing_evidence", "needs_review"}
               /\ RO!RowMatch(rule, rp, i) = <<>>
                  \/ \E b \in BOOLEAN :
                       RO!RowMatch(rule, rp, i) = <<RO!Candidate(rule, v, b, {})>>
  <2>1. \/ RO!RowMatch(rule, rp, i) = <<>>
        \/ RO!RowMatch(rule, rp, i) = <<RO!Candidate(rule, "needs_review", TRUE, {})>>
        \/ /\ RO!IsMatch(RO!exception_outcome(rule, rp[i]))
           /\ RO!RowMatch(rule, rp, i)
              = <<RO!Candidate(rule, RO!exception_outcome(rule, rp[i]), FALSE, {})>>
    BY DEF RO!RowMatch
  <2> QED BY <1>1, <2>1 DEF RO!IsMatch
<1>3. RO!ToSet(RO!RowMatch(rule, rp, i)) = {}
      \/ \E b \in BOOLEAN :
           RO!ToSet(RO!RowMatch(rule, rp, i)) = {RO!Candidate(rule, v, b, {})}
  BY <1>2, SingleElement
<1>4. RO!WindowMatch(rule, rp, i) \in Seq(Says(rule, rp, i))
  <2>1. CASE Trips(rule, rp, i)
    <3>1. OfWindow(rule, rp, i) \in Says(rule, rp, i)
      BY <2>1, WindowSays DEF Says
    <3>2. RO!WindowMatch(rule, rp, i) = <<OfWindow(rule, rp, i)>>
      BY <2>1, WindowSays
    <3>3. <<OfWindow(rule, rp, i)>> \in Seq(Says(rule, rp, i))
      BY <3>1
    <3> QED BY <3>2, <3>3
  <2>2. CASE ~Trips(rule, rp, i)
    <3>1. RO!WindowMatch(rule, rp, i) = <<>>
      BY <2>2, WindowSays
    <3>2. <<>> \in Seq(Says(rule, rp, i))
      OBVIOUS
    <3> QED BY <3>1, <3>2
  <2> QED BY <2>1, <2>2
<1>5. RO!RowMatch(rule, rp, i) \in Seq(Says(rule, rp, i))
  <2>1. CASE RO!RowMatch(rule, rp, i) = <<>>
    BY <2>1
  <2>2. ASSUME NEW b \in BOOLEAN,
               RO!RowMatch(rule, rp, i) = <<RO!Candidate(rule, v, b, {})>>
        PROVE  RO!RowMatch(rule, rp, i) \in Seq(Says(rule, rp, i))
    <3>1. RO!Candidate(rule, v, b, {}) \in Says(rule, rp, i)
      BY <2>2, SingleElement DEF Says
    <3> QED BY <2>2, <3>1
  <2> QED BY <1>2, <2>1, <2>2
<1>6. ASSUME NEW x \in RO!ToSet(RO!WindowMatch(rule, rp, i))
      PROVE  /\ x.rule = rule
             /\ x.verdict \in {"violation", "missing_evidence", "needs_review"}
             /\ Trips(rule, rp, i) /\ x = OfWindow(rule, rp, i)
             /\ \E u \in {"violation", "missing_evidence", "needs_review"},
                   b \in BOOLEAN, W \in SUBSET DOMAIN rp :
                  x = RO!Candidate(rule, u, b, W)
  <2>1. Trips(rule, rp, i) /\ x = OfWindow(rule, rp, i)
    BY <1>6, WindowSays
  <2>2. RO!exception_outcome(rule, rp[i]) # "pass"
    BY <2>1 DEF Trips, RO!IsMatch
  <2>3. RO!WindowOf(rule, rp, i) \in SUBSET DOMAIN rp
    BY DEF RO!WindowOf
  <2>4. RO!exception_outcome(rule, rp[i]) \in {"violation", "missing_evidence"}
    BY <1>1, <2>2
  <2>5. \E u \in {"violation", "missing_evidence", "needs_review"},
           b \in BOOLEAN, W \in SUBSET DOMAIN rp : x = RO!Candidate(rule, u, b, W)
    <3>1. x = RO!Candidate(rule, RO!exception_outcome(rule, rp[i]), FALSE,
                           RO!WindowOf(rule, rp, i))
      BY <2>1 DEF OfWindow
    <3> QED BY <2>3, <2>4, <3>1
  <2>6. x.rule = rule /\ x.verdict = RO!exception_outcome(rule, rp[i])
    BY <2>1 DEF OfWindow, RO!Candidate
  <2> QED BY <2>1, <2>4, <2>5, <2>6
<1>7. ASSUME NEW x \in RO!ToSet(RO!RowMatch(rule, rp, i))
      PROVE  /\ x.rule = rule
             /\ x.verdict \in {"violation", "missing_evidence", "needs_review"}
             /\ x.rows = {}
             /\ \E b \in BOOLEAN : x = RO!Candidate(rule, v, b, {})
  <2>1. PICK b \in BOOLEAN : x = RO!Candidate(rule, v, b, {})
    BY <1>3
  <2>2. x.rule = rule /\ x.verdict = v /\ x.rows = {}
    BY <2>1 DEF RO!Candidate
  <2> QED BY <1>2, <2>1, <2>2
<1>8. \A x \in RO!ToSet(RO!RowMatch(rule, rp, i)) :
        \E b \in BOOLEAN, W \in SUBSET DOMAIN rp : x = RO!Candidate(rule, v, b, W)
  BY <1>7
<1> QED BY <1>2, <1>4, <1>5, <1>6, <1>7, <1>8 DEF Says

(* A window of the report read backwards is the window read backwards.     *)
LEMMA MirrorSays ==
  ASSUME NEW rule, NEW rp, rp \in Seq(RO!ToSet(rp)),
         \A n \in DOMAIN rp : rp[n].amount \in Nat, NEW i \in DOMAIN rp
  PROVE  \A v : Found(rule, RO!Reverse(rp), There(rp, i), v) <=> Found(rule, rp, i, v)
<1> DEFINE back == RO!Reverse(rp)
           at(j) == Len(rp) + 1 - j
           D == DOMAIN rp
           W == RO!WindowOf(rule, rp, i)
<1>1. DOMAIN back = D /\ \A j \in D : at(j) \in D /\ at(at(j)) = j /\ back[at(j)] = rp[j]
  BY MirrorRows
<1>2. W \in SUBSET D /\ RO!Total(back, Mirror(rp, W)) = RO!Total(rp, W)
  <2>1. W \in SUBSET D
    BY DEF RO!WindowOf
  <2> HIDE DEF W
  <2> QED BY <2>1, MirrorTotal
<1>3. Mirror(rp, W) = {at(j) : j \in W}
  BY DEF Mirror
<1> HIDE DEF back, at, D
<1>4. RO!WindowOf(rule, back, at(i)) = Mirror(rp, W)
  <2>1. ASSUME NEW j \in D
        PROVE  at(j) \in RO!WindowOf(rule, back, at(i)) <=> j \in W
    BY <1>1 DEF RO!WindowOf, D
  <2>2. RO!WindowOf(rule, back, at(i)) \in SUBSET D
    BY <1>1 DEF RO!WindowOf
  <2>3. \A j \in D : j = at(at(j)) /\ at(j) \in D
    BY <1>1
  <2> HIDE DEF W
  <2>4. ASSUME NEW j \in RO!WindowOf(rule, back, at(i)) PROVE j \in Mirror(rp, W)
    <3>1. at(j) \in D /\ j = at(at(j))
      BY <2>2, <2>3
    <3>2. at(j) \in W
      BY <2>1, <3>1
    <3> QED BY <1>3, <3>1, <3>2
  <2>5. ASSUME NEW j \in Mirror(rp, W) PROVE j \in RO!WindowOf(rule, back, at(i))
    <3>1. PICK k \in W : j = at(k)
      BY <1>3
    <3> QED BY <1>2, <2>1, <3>1
  <2> QED BY <2>4, <2>5
<1>5. at(i) \in RO!WindowOf(rule, back, at(i)) <=> i \in W
  BY <1>1 DEF RO!WindowOf, D
<1>6. back[at(i)] = rp[i]
  BY <1>1 DEF D
<1>7. Trips(rule, back, at(i)) <=> Trips(rule, rp, i)
  BY <1>2, <1>4, <1>5, <1>6 DEF Trips
<1>8. RO!RowMatch(rule, back, at(i)) = RO!RowMatch(rule, rp, i)
  BY <1>6 DEF RO!RowMatch
<1>9. OfWindow(rule, back, at(i)).verdict = OfWindow(rule, rp, i).verdict
  BY <1>6 DEF OfWindow, RO!Candidate
<1>10. ASSUME NEW v
       PROVE  (\E x \in Says(rule, back, at(i)) : x.verdict = v)
              <=> \E x \in Says(rule, rp, i) : x.verdict = v
  <2>1. /\ RO!ToSet(RO!WindowMatch(rule, rp, i))
           = IF Trips(rule, rp, i) THEN {OfWindow(rule, rp, i)} ELSE {}
        /\ RO!ToSet(RO!WindowMatch(rule, back, at(i)))
           = IF Trips(rule, back, at(i)) THEN {OfWindow(rule, back, at(i))} ELSE {}
    BY WindowSays
  <2> QED BY <1>7, <1>8, <1>9, <2>1 DEF Says
<1> QED BY <1>10 DEF back, at, There, Found

-----------------------------------------------------------------------------
(* The candidates of a row are what its rules say of it, and the rules are *)
(* told apart by their ids.                                                *)
LEMMA ElementsOf ==
  ASSUME NEW X, NEW s \in Seq(X)
  PROVE  \A x : x \in RO!ToSet(s) <=> \E n \in 1..Len(s) : x = s[n]
<1>1. DOMAIN s = 1..Len(s)
  OBVIOUS
<1> QED BY <1>1 DEF RO!ToSet

LEMMA EvaluableRules ==
  ASSUME NEW rs \in RuleSets
  PROVE  LET E == RO!ToSet(RO!EvaluableEntries(rs))
         IN /\ RO!EvaluableEntries(rs) \in Seq(RO!ToSet(rs))
            /\ \A r \in E : r.id \in Nat /\ \A q \in E : q.id = r.id => q = r
            /\ \A r \in E : \E n \in DOMAIN rs : r = rs[n]
<1> DEFINE A == RO!ToSet(rs)
           ss == [n \in DOMAIN rs |->
                    IF rs[n].status # "compile_error" THEN <<rs[n]>> ELSE <<>>]
<1>1. /\ rs \in Seq(A)
      /\ \A n \in DOMAIN rs : rs[n].id \in Nat
      /\ \A n, m \in DOMAIN rs : rs[n].id = rs[m].id => n = m
  BY PagesAssumption DEF RO!OutcomeAssumption
<1>2. \A x : x \in A <=> \E n \in DOMAIN rs : x = rs[n]
  BY DEF RO!ToSet
<1> HIDE DEF A
<1>3. DOMAIN rs = 1..Len(rs) /\ Len(rs) \in Nat
  BY <1>1
<1>4. ss \in [1..Len(rs) -> Seq(A)]
  <2>1. \A n \in DOMAIN rs : <<rs[n]>> \in Seq(A) /\ <<>> \in Seq(A)
    BY <1>2
  <2>2. ss \in [DOMAIN rs -> Seq(A)]
    BY <2>1
  <2> HIDE DEF ss
  <2> QED BY <1>3, <2>2
<1>5. RO!EvaluableEntries(rs) = RO!FlattenSeq(ss)
  BY DEF RO!EvaluableEntries
<1>6. \A n \in 1..Len(rs) : RO!ToSet(ss[n]) \in SUBSET {rs[n]}
  <2> TAKE n \in 1..Len(rs)
  <2>1. ss[n] = <<rs[n]>> \/ ss[n] = <<>>
    BY <1>3
  <2> HIDE DEF ss
  <2> QED BY <2>1, SingleElement
<1> HIDE DEF ss
<1>7. /\ RO!FlattenSeq(ss) \in Seq(A)
      /\ \A x : x \in RO!ToSet(RO!FlattenSeq(ss)) <=>
                \E n \in 1..Len(rs) : x \in RO!ToSet(ss[n])
  BY <1>3, <1>4, FlattenElements
<1>8. \A x \in RO!ToSet(RO!FlattenSeq(ss)) : \E n \in DOMAIN rs : x = rs[n]
  BY <1>3, <1>6, <1>7
<1> QED BY <1>1, <1>5, <1>7, <1>8 DEF A

CandidatesOf(rs, rp, i) == RO!Candidates(rs, rp, RO!Aggregated(rs, rp)[i], i)

LEMMA CandidatesAre ==
  ASSUME NEW E, NEW rs \in Seq(E), NEW rp, NEW i \in DOMAIN rp
  PROVE  LET cs == CandidatesOf(rs, rp, i)
         IN /\ cs \in Seq(RO!ToSet(cs))
            /\ \A x : x \in RO!ToSet(cs) <=>
                      \E r \in RO!ToSet(rs) : x \in Says(r, rp, i)
<1> DEFINE X == UNION {Says(rs[n], rp, i) : n \in 1..Len(rs)}
           of == [n \in DOMAIN rs |-> RO!WindowMatch(rs[n], rp, i)]
           on == [n \in DOMAIN rs |-> RO!RowMatch(rs[n], rp, i)]
           cs == CandidatesOf(rs, rp, i)
<1>1. DOMAIN rs = 1..Len(rs) /\ Len(rs) \in Nat
  OBVIOUS
<1>2. cs = RO!FlattenSeq(of) \o RO!FlattenSeq(on)
  <2>1. RO!Aggregated(rs, rp)[i] = RO!FlattenSeq(of)
    BY DEF RO!Aggregated
  <2> HIDE DEF of
  <2> QED BY <2>1 DEF CandidatesOf, RO!Candidates
<1>3. of \in [1..Len(rs) -> Seq(X)] /\ on \in [1..Len(rs) -> Seq(X)]
  <2>1. ASSUME NEW n \in 1..Len(rs)
        PROVE  /\ RO!WindowMatch(rs[n], rp, i) \in Seq(X)
               /\ RO!RowMatch(rs[n], rp, i) \in Seq(X)
    <3>1. Says(rs[n], rp, i) \in SUBSET X
      OBVIOUS
    <3>2. /\ RO!WindowMatch(rs[n], rp, i) \in Seq(Says(rs[n], rp, i))
          /\ RO!RowMatch(rs[n], rp, i) \in Seq(Says(rs[n], rp, i))
      BY SaysWhat
    <3> HIDE DEF X
    <3> QED BY <3>1, <3>2
  <2> HIDE DEF X
  <2> QED BY <1>1, <2>1
<1>4. \A n \in 1..Len(rs) : /\ of[n] = RO!WindowMatch(rs[n], rp, i)
                            /\ on[n] = RO!RowMatch(rs[n], rp, i)
  BY <1>1
<1> HIDE DEF X, of, on
<1>5. /\ RO!FlattenSeq(of) \in Seq(X)
      /\ \A x : x \in RO!ToSet(RO!FlattenSeq(of)) <=>
                \E n \in 1..Len(rs) : x \in RO!ToSet(of[n])
  BY <1>1, <1>3, FlattenElements
<1>6. /\ RO!FlattenSeq(on) \in Seq(X)
      /\ \A x : x \in RO!ToSet(RO!FlattenSeq(on)) <=>
                \E n \in 1..Len(rs) : x \in RO!ToSet(on[n])
  BY <1>1, <1>3, FlattenElements
<1>7. /\ cs \in Seq(X)
      /\ RO!ToSet(cs) = RO!ToSet(RO!FlattenSeq(of)) \cup RO!ToSet(RO!FlattenSeq(on))
  BY <1>2, <1>5, <1>6, ConcatElements
<1> HIDE DEF cs
<1>8. cs \in Seq(RO!ToSet(cs))
  <2>1. DOMAIN cs = 1..Len(cs) /\ \A n \in 1..Len(cs) : cs[n] \in RO!ToSet(cs)
    BY <1>7, ElementsOf
  <2>2. cs = [n \in 1..Len(cs) |-> cs[n]]
    BY <1>7
  <2> QED BY <1>7, <2>1, <2>2
<1>9. \A x : x \in RO!ToSet(cs) <=> \E n \in 1..Len(rs) : x \in Says(rs[n], rp, i)
  BY <1>4, <1>5, <1>6, <1>7 DEF Says
<1>10. \A r : r \in RO!ToSet(rs) <=> \E n \in 1..Len(rs) : r = rs[n]
  BY ElementsOf
<1> QED BY <1>8, <1>9, <1>10 DEF cs

(* What the choice of a winner rests on: candidates whose verdicts have a  *)
(* precedence, of rules told apart by their ids.                           *)
Verdicts == {"violation", "missing_evidence", "needs_review"}
Choosable(cs) ==
  \A c \in RO!ToSet(cs) :
    /\ c.verdict \in Verdicts /\ c.rule.id \in Nat
    /\ \A d \in RO!ToSet(cs) : d.rule.id = c.rule.id => d.rule = c.rule
Best(c, cs) ==
  /\ c \in RO!ToSet(cs) /\ RO!Worst(c, cs)
  /\ \A d \in RO!ToSet(cs) : RO!Worst(d, cs) => c.rule.id <= d.rule.id

LEMMA Precedences ==
  /\ \A v \in Verdicts : RO!Precedence(v) \in Nat
  /\ \A v, w \in Verdicts : RO!Precedence(v) = RO!Precedence(w) => v = w
<1>1. /\ RO!Precedence("violation") = 0
      /\ RO!Precedence("missing_evidence") = 1
      /\ RO!Precedence("needs_review") = 2
  BY DEF RO!Precedence
<1>2. \A v \in Verdicts :
        v = "violation" \/ v = "missing_evidence" \/ v = "needs_review"
  BY DEF Verdicts
<1> QED BY <1>1, <1>2

LEMMA WinnerIsBest ==
  ASSUME NEW cs, Choosable(cs), RO!ToSet(cs) # {}
  PROVE  Best(RO!Winner(cs), cs)
<1> DEFINE C == RO!ToSet(cs)
           P == {RO!Precedence(c.verdict) : c \in C}
           I == {c.rule.id : c \in {d \in C : RO!Worst(d, cs)}}
<1>1. \A c \in C : RO!Precedence(c.verdict) \in Nat /\ c.rule.id \in Nat
  BY Precedences DEF Choosable
<1> HIDE DEF C
<1>2. \E c \in C : RO!Worst(c, cs)
  <2>1. P \in SUBSET Nat /\ P # {}
    BY <1>1 DEF C
  <2>2. PICK p \in P : \A q \in P : p <= q
    <3> HIDE DEF P
    <3> QED BY <2>1, Least
  <2>3. PICK c \in C : p = RO!Precedence(c.verdict)
    BY <2>2
  <2>4. \A d \in C : RO!Precedence(c.verdict) <= RO!Precedence(d.verdict)
    BY <2>2, <2>3
  <2> QED BY <2>4 DEF RO!Worst, C
<1>3. \E c \in C : RO!Worst(c, cs) /\ \A d \in C : RO!Worst(d, cs) => c.rule.id <= d.rule.id
  <2>1. I \in SUBSET Nat /\ I # {}
    BY <1>1, <1>2
  <2>2. PICK p \in I : \A q \in I : p <= q
    <3> HIDE DEF I
    <3> QED BY <2>1, Least
  <2>3. PICK c \in C : RO!Worst(c, cs) /\ p = c.rule.id
    BY <2>2
  <2>4. \A d \in C : RO!Worst(d, cs) => c.rule.id <= d.rule.id
    BY <2>2, <2>3
  <2> QED BY <2>3, <2>4
<1> QED BY <1>3 DEF RO!Winner, Best, C

(* Two lists of candidates with the same rules and verdicts have the same  *)
(* outcome.                                                                *)
Covers(cs, ds) ==
  \A c \in RO!ToSet(cs) : \E d \in RO!ToSet(ds) : c.rule = d.rule /\ c.verdict = d.verdict

LEMMA BestAgree ==
  ASSUME NEW cs, NEW ds, Choosable(cs), Choosable(ds), Covers(cs, ds), Covers(ds, cs),
         NEW c, Best(c, cs), NEW d, Best(d, ds)
  PROVE  c.rule = d.rule /\ c.verdict = d.verdict
<1>1. PICK e \in RO!ToSet(ds) : c.rule = e.rule /\ c.verdict = e.verdict
  BY DEF Covers, Best
<1>2. PICK f \in RO!ToSet(cs) : d.rule = f.rule /\ d.verdict = f.verdict
  BY DEF Covers, Best
<1>3. RO!Precedence(c.verdict) <= RO!Precedence(d.verdict)
  BY <1>2 DEF Best, RO!Worst
<1>4. RO!Precedence(d.verdict) <= RO!Precedence(c.verdict)
  BY <1>1 DEF Best, RO!Worst
<1>5. c.verdict \in Verdicts /\ d.verdict \in Verdicts
  BY DEF Best, Choosable
<1>6. c.verdict = d.verdict
  <2>1. RO!Precedence(c.verdict) \in Nat /\ RO!Precedence(d.verdict) \in Nat
    BY <1>5, Precedences
  <2>2. RO!Precedence(c.verdict) = RO!Precedence(d.verdict)
    BY <1>3, <1>4, <2>1
  <2> QED BY <1>5, <2>2, Precedences
<1>7. RO!Worst(e, ds) /\ RO!Worst(f, cs)
  BY <1>1, <1>2, <1>6 DEF Best, RO!Worst
<1>8. d.rule.id <= c.rule.id /\ c.rule.id <= d.rule.id
  BY <1>1, <1>2, <1>7 DEF Best
<1>9. c.rule.id \in Nat /\ d.rule.id \in Nat
  BY DEF Best, Choosable
<1>10. c.rule.id = d.rule.id
  BY <1>8, <1>9
<1>11. f.rule.id = c.rule.id => f.rule = c.rule
  BY DEF Best, Choosable
<1> QED BY <1>2, <1>6, <1>10, <1>11

LEMMA EmptyList ==
  ASSUME NEW cs, cs \in Seq(RO!ToSet(cs))
  PROVE  cs = <<>> <=> RO!ToSet(cs) = {}
<1>1. DOMAIN cs = 1..Len(cs) /\ Len(cs) \in Nat
  OBVIOUS
<1>2. ASSUME RO!ToSet(cs) = {} PROVE cs = <<>>
  <2>1. \A n \in DOMAIN cs : FALSE
    BY <1>2 DEF RO!ToSet
  <2>2. Len(cs) = 0
    <3>1. Len(cs) # 0 => 1 \in 1..Len(cs)
      BY <1>1
    <3> QED BY <1>1, <2>1, <3>1
  <2>3. \A s \in Seq(RO!ToSet(cs)) : Len(s) = 0 => s = <<>>
    <3> DEFINE X == RO!ToSet(cs)
    <3> HIDE DEF X
    <3>1. \A s \in Seq(X) : Len(s) = 0 => s = <<>>
      OBVIOUS
    <3> QED BY <3>1 DEF X
  <2> QED BY <2>2, <2>3
<1>3. ASSUME cs = <<>> PROVE RO!ToSet(cs) = {}
  BY <1>3, SingleElement
<1> QED BY <1>2, <1>3

LEMMA SameOutcome ==
  ASSUME NEW cs, NEW ds, cs \in Seq(RO!ToSet(cs)), ds \in Seq(RO!ToSet(ds)),
         Choosable(cs), Choosable(ds), Covers(cs, ds), Covers(ds, cs)
  PROVE  /\ RO!Outcome(ds).verdict = RO!Outcome(cs).verdict
         /\ RO!Outcome(ds).matching = RO!Outcome(cs).matching
         /\ RO!Outcome(ds).by # None => RO!Outcome(ds).by.rule = RO!Outcome(cs).by.rule
<1>1. cs = <<>> <=> ds = <<>>
  <2>1. RO!ToSet(cs) = {} <=> RO!ToSet(ds) = {}
    BY DEF Covers
  <2>2. (cs = <<>> <=> RO!ToSet(cs) = {}) /\ (ds = <<>> <=> RO!ToSet(ds) = {})
    BY EmptyList
  <2> QED BY <2>1, <2>2
<1>2. CASE cs = <<>>
  <2>1. RO!Outcome(cs) = RO!Outcome(ds)
    BY <1>1, <1>2
  <2> QED BY <2>1
<1>3. CASE cs # <<>>
  <2>1. RO!ToSet(cs) # {} /\ RO!ToSet(ds) # {}
    BY <1>1, <1>3, EmptyList
  <2>2. Best(RO!Winner(cs), cs) /\ Best(RO!Winner(ds), ds)
    BY <2>1, WinnerIsBest
  <2>3. /\ RO!Winner(ds).rule = RO!Winner(cs).rule
        /\ RO!Winner(ds).verdict = RO!Winner(cs).verdict
    BY <2>2, BestAgree
  <2>4. {c.rule.id : c \in RO!ToSet(cs)} = {c.rule.id : c \in RO!ToSet(ds)}
    BY DEF Covers
  <2> QED BY <1>1, <1>3, <2>3, <2>4 DEF RO!Outcome
<1> QED BY <1>2, <1>3

-----------------------------------------------------------------------------
(* The outcome of one row.                                                 *)
ToldApart(es) ==
  \A r \in RO!ToSet(es) :
    r.id \in Nat /\ \A q \in RO!ToSet(es) : q.id = r.id => q = r
OutcomeOf(rs, rp, i) == RO!Outcome(CandidatesOf(RO!EvaluableEntries(rs), rp, i))

LEMMA CandidatesChoosable ==
  ASSUME NEW E, NEW es \in Seq(E), ToldApart(es), NEW rp, NEW i \in DOMAIN rp
  PROVE  Choosable(CandidatesOf(es, rp, i))
<1> DEFINE cs == CandidatesOf(es, rp, i)
<1>1. ASSUME NEW c \in RO!ToSet(cs)
      PROVE  c.rule \in RO!ToSet(es) /\ c.verdict \in Verdicts
  <2>1. PICK r \in RO!ToSet(es) : c \in Says(r, rp, i)
    BY CandidatesAre
  <2> QED BY <2>1, SaysWhat DEF Verdicts
<1> HIDE DEF cs
<1>2. Choosable(cs)
  BY <1>1 DEF Choosable, ToldApart
<1> QED BY <1>2 DEF cs

LEMMA ReverseElements ==
  ASSUME NEW X, NEW s \in Seq(X)
  PROVE  RO!Reverse(s) \in Seq(X) /\ RO!ToSet(RO!Reverse(s)) = RO!ToSet(s)
<1> DEFINE t == RO!Reverse(s)
<1>1. Len(s) \in Nat /\ DOMAIN s = 1..Len(s)
  OBVIOUS
<1>2. t = [n \in 1..Len(s) |-> s[(Len(s) - n) + 1]]
  BY DEF RO!Reverse
<1>3. \A n \in 1..Len(s) : /\ (Len(s) - n) + 1 \in 1..Len(s)
                           /\ (Len(s) - ((Len(s) - n) + 1)) + 1 = n
  BY <1>1
<1>4. t \in Seq(X)
  <2>1. \A n \in 1..Len(s) : s[(Len(s) - n) + 1] \in X
    BY <1>3
  <2>2. t \in [1..Len(s) -> X]
    BY <1>2, <2>1
  <2> HIDE DEF t
  <2> QED BY <1>1, <2>2
<1>5. \A n \in 1..Len(s) : /\ t[n] = s[(Len(s) - n) + 1]
                           /\ t[(Len(s) - n) + 1] = s[n]
  BY <1>2, <1>3
<1>6. DOMAIN t = 1..Len(s)
  BY <1>2
<1> HIDE DEF t
<1>7. RO!ToSet(t) = RO!ToSet(s)
  BY <1>1, <1>3, <1>5, <1>6 DEF RO!ToSet
<1> QED BY <1>4, <1>7 DEF t

LEMMA OrderOfOne ==
  ASSUME NEW rs \in RuleSets, NEW rp \in Reports, NEW i \in DOMAIN rp
  PROVE  LET again == RO!Outcome(CandidatesOf(RO!Reverse(RO!EvaluableEntries(rs)),
                                              RO!Reverse(rp), Len(rp) + 1 - i))
         IN /\ again.verdict = OutcomeOf(rs, rp, i).verdict
            /\ again.matching = OutcomeOf(rs, rp, i).matching
            /\ again.by # None => again.by.rule = OutcomeOf(rs, rp, i).by.rule
<1> DEFINE es == RO!EvaluableEntries(rs)
           fs == RO!Reverse(es)
           back == RO!Reverse(rp)
           at == Len(rp) + 1 - i
           cs == CandidatesOf(es, rp, i)
           ds == CandidatesOf(fs, back, at)
           X == RO!ToSet(rs)
<1>1. es \in Seq(X) /\ ToldApart(es)
  BY EvaluableRules DEF ToldApart
<1>2. rp \in Seq(RO!ToSet(rp)) /\ \A n \in DOMAIN rp : rp[n].amount \in Nat
  BY PagesAssumption DEF RO!OutcomeAssumption
<1> HIDE DEF es, X
<1>3. fs \in Seq(X) /\ RO!ToSet(fs) = RO!ToSet(es)
  BY <1>1, ReverseElements
<1>4. ToldApart(fs)
  BY <1>1, <1>3 DEF ToldApart
<1>5. at \in DOMAIN back
  BY <1>2, MirrorRows
<1> HIDE DEF fs
<1>6. ASSUME NEW r
      PROVE  \A v : (\E x \in Says(r, back, at) : x.verdict = v)
                    <=> \E x \in Says(r, rp, i) : x.verdict = v
  <2>1. \A v : Found(r, RO!Reverse(rp), There(rp, i), v) <=> Found(r, rp, i, v)
    BY <1>2, MirrorSays
  <2> QED BY <2>1 DEF Found, There
<1> HIDE DEF back, at
<1>7. cs \in Seq(RO!ToSet(cs)) /\ Choosable(cs)
  BY <1>1, CandidatesAre, CandidatesChoosable
<1>8. ds \in Seq(RO!ToSet(ds)) /\ Choosable(ds)
  BY <1>3, <1>4, <1>5, CandidatesAre, CandidatesChoosable
<1>9. /\ \A x : x \in RO!ToSet(cs) <=> \E r \in RO!ToSet(es) : x \in Says(r, rp, i)
      /\ \A x : x \in RO!ToSet(ds) <=> \E r \in RO!ToSet(es) : x \in Says(r, back, at)
  BY <1>1, <1>3, <1>5, CandidatesAre
<1> HIDE DEF cs, ds
<1>10. /\ \A r : \A x \in Says(r, rp, i) : x.rule = r
       /\ \A r : \A x \in Says(r, back, at) : x.rule = r
  BY SaysWhat
<1>11. Covers(cs, ds)
  <2>1. ASSUME NEW c \in RO!ToSet(cs)
        PROVE  \E d \in RO!ToSet(ds) : c.rule = d.rule /\ c.verdict = d.verdict
    <3>1. PICK r \in RO!ToSet(es) : c \in Says(r, rp, i)
      BY <1>9
    <3>2. PICK d \in Says(r, back, at) : d.verdict = c.verdict
      BY <1>6, <3>1
    <3> QED BY <1>9, <1>10, <3>1, <3>2
  <2> QED BY <2>1 DEF Covers
<1>12. Covers(ds, cs)
  <2>1. ASSUME NEW d \in RO!ToSet(ds)
        PROVE  \E c \in RO!ToSet(cs) : d.rule = c.rule /\ d.verdict = c.verdict
    <3>1. PICK r \in RO!ToSet(es) : d \in Says(r, back, at)
      BY <1>9
    <3>2. PICK c \in Says(r, rp, i) : c.verdict = d.verdict
      BY <1>6, <3>1
    <3> QED BY <1>9, <1>10, <3>1, <3>2
  <2> QED BY <2>1 DEF Covers
<1>13. /\ RO!Outcome(ds).verdict = RO!Outcome(cs).verdict
       /\ RO!Outcome(ds).matching = RO!Outcome(cs).matching
       /\ RO!Outcome(ds).by # None => RO!Outcome(ds).by.rule = RO!Outcome(cs).by.rule
  BY <1>7, <1>8, <1>11, <1>12, SameOutcome
<1> QED BY <1>13 DEF OutcomeOf, cs, ds, es, fs, back, at

LEMMA OutcomeIs ==
  ASSUME NEW rs \in RuleSets, NEW rp \in Reports, NEW i \in DOMAIN rp
  PROVE  LET o == OutcomeOf(rs, rp, i)
             E == RO!ToSet(RO!EvaluableEntries(rs))
         IN /\ o.by # None =>
                 /\ o.by.rule \in E /\ o.by \in Says(o.by.rule, rp, i)
                 /\ o.by.rule.id \in o.matching
            /\ IsFiniteSet(o.matching)
            /\ \A r \in E : Says(r, rp, i) # {} => r.id \in o.matching
            /\ o.verdict \in {"pass"} \cup Verdicts
            /\ o.verdict = "pass" <=> o.by = None
<1> DEFINE es == RO!EvaluableEntries(rs)
           cs == CandidatesOf(es, rp, i)
           X == RO!ToSet(rs)
           C == RO!ToSet(cs)
<1>1. es \in Seq(X) /\ ToldApart(es)
  BY EvaluableRules DEF ToldApart
<1> HIDE DEF es, X
<1>2. cs \in Seq(RO!ToSet(cs)) /\ Choosable(cs)
  BY <1>1, CandidatesAre, CandidatesChoosable
<1>3. \A x : x \in C <=> \E r \in RO!ToSet(es) : x \in Says(r, rp, i)
  BY <1>1, CandidatesAre
<1>4. \A r : \A x \in Says(r, rp, i) : x.rule = r
  BY SaysWhat
<1> HIDE DEF cs
<1>5. cs = <<>> <=> C = {}
  BY <1>2, EmptyList
<1>6. C # {} => RO!Winner(cs) \in C
  BY <1>2, WinnerIsBest DEF Best
<1>7. IsFiniteSet({c.rule.id : c \in C})
  <2>1. IsFiniteSet(1..Len(cs))
    <3>1. Len(cs) \in Nat
      BY <1>2
    <3> QED BY <3>1, FS_Interval
  <2>2. \A x : x \in C <=> \E n \in 1..Len(cs) : x = cs[n]
    BY <1>2, ElementsOf
  <2> HIDE DEF C
  <2> DEFINE f == [n \in 1..Len(cs) |-> cs[n].rule.id]
             M == {c.rule.id : c \in C}
  <2>3. f \in Surjection(1..Len(cs), M)
    BY <2>2 DEF Surjection
  <2> HIDE DEF f, M
  <2>4. IsFiniteSet(M)
    BY <2>1, <2>3, FS_Surjection
  <2> QED BY <2>4 DEF M
<1>8. CASE C = {}
  <2>1. RO!Outcome(cs) = [verdict |-> "pass", by |-> None, matching |-> {}]
    BY <1>5, <1>8 DEF RO!Outcome
  <2>2. /\ RO!Outcome(cs).by = None /\ RO!Outcome(cs).matching = {}
        /\ RO!Outcome(cs).verdict = "pass"
    BY <2>1
  <2>3. \A r \in RO!ToSet(es) : Says(r, rp, i) = {}
    BY <1>3, <1>8
  <2>4. IsFiniteSet({})
    BY FS_EmptySet
  <2> QED BY <2>2, <2>3, <2>4 DEF OutcomeOf, cs, es
<1>9. CASE C # {}
  <2> DEFINE w == RO!Winner(cs)
             M == {c.rule.id : c \in C}
  <2>1. /\ RO!Outcome(cs).by = w /\ RO!Outcome(cs).matching = M
        /\ RO!Outcome(cs).verdict = w.verdict
    BY <1>5, <1>9 DEF RO!Outcome
  <2>2. w \in C
    BY <1>6, <1>9
  <2>3. w.rule \in RO!ToSet(es) /\ w \in Says(w.rule, rp, i) /\ w.rule.id \in M
    BY <1>3, <1>4, <2>2
  <2>4. \A r \in RO!ToSet(es) : Says(r, rp, i) # {} => r.id \in M
    BY <1>3, <1>4
  <2>5. IsFiniteSet(M)
    BY <1>7
  <2>6. w.verdict \in Verdicts /\ w.verdict # "pass"
    BY <1>2, <2>2 DEF Choosable, Verdicts
  <2>7. w # None
    <3>1. PICK n \in DOMAIN rs : w.rule = rs[n]
      BY <2>3, EvaluableRules DEF es
    <3>2. PICK v \in Verdicts, b \in BOOLEAN, W \in SUBSET DOMAIN rp :
            w = RO!Candidate(rs[n], v, b, W)
      <4>1. w \in Says(rs[n], rp, i)
        BY <2>3, <3>1
      <4> HIDE DEF w
      <4> QED BY <4>1, SaysWhat DEF Verdicts
    <3>3. DOMAIN rp \in SUBSET Nat
      <4>1. rp \in Seq(RO!ToSet(rp))
        BY PagesAssumption DEF RO!OutcomeAssumption
      <4>2. DOMAIN rp = 1..Len(rp) /\ Len(rp) \in Nat
        BY <4>1
      <4> QED BY <4>2
    <3>4. None \notin [rule : {rs[n]}, suffixed : BOOLEAN, rows : SUBSET Nat,
                       verdict : Verdicts]
      BY PagesAssumption DEF RO!OutcomeAssumption, Verdicts
    <3>5. W \in SUBSET Nat
      BY <3>3
    <3>6. RO!Candidate(rs[n], v, b, W)
            \in [rule : {rs[n]}, suffixed : BOOLEAN, rows : SUBSET Nat,
                 verdict : Verdicts]
      BY <3>5 DEF RO!Candidate
    <3> HIDE DEF w
    <3> QED BY <3>2, <3>4, <3>6
  <2> HIDE DEF w, M
  <2> QED BY <2>1, <2>3, <2>4, <2>5, <2>6, <2>7 DEF OutcomeOf, cs, es
<1> QED BY <1>8, <1>9

-----------------------------------------------------------------------------
(* What every run of the evaluation keeps: the windows are those of the    *)
(* rules and the report, and the outcomes so far are those of the rows.    *)
RowsInv ==
  /\ rules \in RuleSets /\ report \in Reports
  /\ windows \in {None, RO!Aggregated(RO!EvaluableEntries(rules), report)}
  /\ \E n \in 0..Len(report) : outcomes = [i \in 1..n |-> OutcomeOf(rules, report, i)]

LEMMA ReportRows ==
  ASSUME NEW rp \in Reports
  PROVE  /\ rp \in Seq(RO!ToSet(rp)) /\ DOMAIN rp = 1..Len(rp) /\ Len(rp) \in Nat
         /\ \A i \in DOMAIN rp : rp[i].amount \in Nat
<1>1. rp \in Seq(RO!ToSet(rp)) /\ \A i \in DOMAIN rp : rp[i].amount \in Nat
  BY PagesAssumption DEF RO!OutcomeAssumption
<1> QED BY <1>1

LEMMA RowsStep ==
  ASSUME RowsInv, RO!Next
  PROVE  RowsInv'
<1> USE DEF RowsInv
<1>1. CASE RO!Aggregate
  <2>1. rules' = rules /\ report' = report /\ outcomes' = outcomes
    BY <1>1 DEF RO!Aggregate
  <2>2. windows' = RO!Aggregated(RO!EvaluableEntries(rules), report)
    BY <1>1 DEF RO!Aggregate
  <2> QED BY <2>1, <2>2
<1>2. CASE RO!EvaluateRow
  <2> DEFINE out(i) == OutcomeOf(rules, report, i)
             i0 == Len(outcomes) + 1
  <2>1. PICK n \in 0..Len(report) : outcomes = [i \in 1..n |-> out(i)]
    OBVIOUS
  <2>2. /\ rules' = rules /\ report' = report /\ windows' = windows
        /\ windows = RO!Aggregated(RO!EvaluableEntries(rules), report)
        /\ Len(outcomes) < Len(report)
    BY <1>2 DEF RO!EvaluateRow
  <2>3. outcomes' = Append(outcomes, out(i0))
    BY <1>2, <2>2 DEF RO!EvaluateRow, OutcomeOf, CandidatesOf
  <2>4. Len(report) \in Nat
    BY ReportRows
  <2> HIDE DEF out
  <2>5. Len(outcomes) = n /\ i0 = n + 1
    BY <2>1, <2>4
  <2>6. n + 1 \in 0..Len(report)
    BY <2>2, <2>4, <2>5
  <2>7. outcomes' = [i \in 1..(n + 1) |-> out(i)]
    <3> DEFINE s == [i \in 1..n |-> out(i)]
               t == [i \in 1..(n + 1) |-> out(i)]
               X == {out(i) : i \in 1..(n + 1)}
    <3>1. n \in Nat
      BY <2>4
    <3>2. s \in [1..n -> X] /\ out(n + 1) \in X
      <4>1. n + 1 \in 1..(n + 1) /\ \A i \in 1..n : i \in 1..(n + 1)
        BY <3>1
      <4>2. out(n + 1) \in X /\ \A i \in 1..n : out(i) \in X
        BY <4>1
      <4> HIDE DEF X
      <4> QED BY <4>2
    <3>3. s \in Seq(X) /\ Len(s) = n
      BY <3>1, <3>2
    <3>4. /\ Append(s, out(n + 1)) \in Seq(X)
          /\ Len(Append(s, out(n + 1))) = n + 1
          /\ \A i \in 1..n : Append(s, out(n + 1))[i] = s[i]
          /\ Append(s, out(n + 1))[n + 1] = out(n + 1)
      <4> DEFINE e == out(n + 1)
      <4>1. e \in X
        BY <3>2
      <4> HIDE DEF s, e, X
      <4> QED BY <3>1, <3>3, <4>1 DEF e
    <3>5. DOMAIN Append(s, out(n + 1)) = 1..(n + 1)
      <4> HIDE DEF s, X
      <4> QED BY <3>1, <3>4
    <3>6. \A i \in 1..(n + 1) : Append(s, out(n + 1))[i] = out(i)
      BY <3>1, <3>4
    <3>7. Append(s, out(n + 1)) = [i \in DOMAIN Append(s, out(n + 1)) |->
                                     Append(s, out(n + 1))[i]]
      <4> HIDE DEF s, X
      <4> QED BY <3>4
    <3>8. Append(s, out(n + 1)) = t
      <4> HIDE DEF s
      <4> QED BY <3>5, <3>6, <3>7
    <3> QED BY <2>1, <2>3, <2>5, <3>8
  <2> QED BY <2>2, <2>6, <2>7 DEF out
<1> QED BY <1>1, <1>2 DEF RO!Next

(* In every state the properties of the outcomes hold.                     *)
LEMMA RowsExplained ==
  ASSUME RowsInv
  PROVE  /\ RO!OrderIrrelevant /\ RO!EveryMatchNamed
         /\ RO!CitationReadable /\ RO!WindowAddsUp
<1> DEFINE E == RO!ToSet(RO!EvaluableEntries(rules))
<1>1. rules \in RuleSets /\ report \in Reports
  BY DEF RowsInv
<1>2. PICK n \in 0..Len(report) : outcomes = [i \in 1..n |-> OutcomeOf(rules, report, i)]
  BY DEF RowsInv
<1>3. DOMAIN report = 1..Len(report) /\ Len(report) \in Nat
  BY <1>1, ReportRows
<1>4. /\ DOMAIN outcomes = 1..n /\ Len(outcomes) = n
      /\ \A i \in 1..n : i \in DOMAIN report /\ outcomes[i] = OutcomeOf(rules, report, i)
  BY <1>2, <1>3
<1>5. ASSUME NEW i \in 1..n
      PROVE  /\ outcomes[i].by # None =>
                  /\ outcomes[i].by.rule \in E
                  /\ outcomes[i].by \in Says(outcomes[i].by.rule, report, i)
                  /\ outcomes[i].by.rule.id \in outcomes[i].matching
             /\ IsFiniteSet(outcomes[i].matching)
             /\ \A r \in E : Says(r, report, i) # {} => r.id \in outcomes[i].matching
  BY <1>1, <1>4, OutcomeIs
<1> HIDE DEF E
<1>6. RO!OrderIrrelevant
  <2>1. ASSUME NEW i \in 1..n
        PROVE  LET again == RO!Outcome(CandidatesOf(RO!Reverse(RO!EvaluableEntries(rules)),
                                                    RO!Reverse(report),
                                                    Len(report) + 1 - i))
               IN /\ again.verdict = outcomes[i].verdict
                  /\ again.matching = outcomes[i].matching
                  /\ again.by # None => again.by.rule = outcomes[i].by.rule
    BY <1>1, <1>4, OrderOfOne
  <2> QED BY <1>4, <2>1 DEF RO!OrderIrrelevant, RO!Rows, CandidatesOf
<1>7. RO!EveryMatchNamed
  <2>1. ASSUME NEW i \in 1..n, outcomes[i].by # None
        PROVE  {outcomes[i].by.rule.id} \cup RO!AlsoMatched(outcomes[i])
               = outcomes[i].matching
    <3> DEFINE M == outcomes[i].matching
               id == outcomes[i].by.rule.id
    <3>1. id \in M /\ IsFiniteSet(M)
      BY <1>5, <2>1
    <3>2. RO!AlsoMatched(outcomes[i]) = IF Cardinality(M) <= 1 THEN {} ELSE M \ {id}
      <4>1. RO!Cardinality(M) = Cardinality(M)
        BY DEF RO!Cardinality, Cardinality
      <4> QED BY <4>1 DEF RO!AlsoMatched
    <3> HIDE DEF M, id
    <3>3. CASE Cardinality(M) <= 1
      <4>1. Cardinality(M) \in Nat /\ Cardinality(M) # 0
        BY <3>1, FS_CardinalityType, FS_EmptySet
      <4>2. Cardinality(M) = 1
        BY <3>3, <4>1
      <4>3. PICK x : M = {x}
        BY <3>1, <4>2, FS_Singleton
      <4>4. M = {id}
        BY <3>1, <4>3
      <4>5. RO!AlsoMatched(outcomes[i]) = {}
        BY <3>2, <3>3
      <4> QED BY <4>4, <4>5 DEF M, id
    <3>4. CASE ~(Cardinality(M) <= 1)
      <4>1. RO!AlsoMatched(outcomes[i]) = M \ {id}
        BY <3>2, <3>4
      <4> QED BY <3>1, <4>1 DEF M, id
    <3> QED BY <3>3, <3>4
  <2> QED BY <1>4, <2>1 DEF RO!EveryMatchNamed, RO!Rows
<1>8. RO!CitationReadable
  BY DEF RO!CitationReadable, RO!showPolicySource, RO!citationDuplicatesReason
<1>9. RO!WindowAddsUp
  <2>1. ASSUME RO!Done, NEW i \in 1..n, outcomes[i].by # None, outcomes[i].by.rows # {}
        PROVE  LET o == outcomes[i]
               IN /\ RO!Total(report, o.by.rows) = RO!ComparisonShown(o, i).actual
                  /\ RO!ComparisonShown(o, i).actual > RO!ComparisonShown(o, i).limit
                  /\ RO!CurrencyShown(o, i) # "mismatch"
                  /\ \A j \in o.by.rows :
                       o.by.rule.id \in outcomes[j].matching
                       \/ RO!exception_outcome(o.by.rule, report[j]) = "pass"
    <3> DEFINE o == outcomes[i]
               r == o.by.rule
               W == RO!WindowOf(r, report, i)
    <3>1. r \in E /\ o.by \in Says(r, report, i)
      BY <1>5, <2>1
    <3>2. Trips(r, report, i) /\ o.by = OfWindow(r, report, i)
      BY <2>1, <3>1, SaysWhat
    <3>3. o.by.rows = W /\ ~o.by.suffixed
      BY <3>2 DEF OfWindow, RO!Candidate
    <3>4. RO!ComparisonShown(o, i) = [limit |-> r.limit, actual |-> RO!Total(report, W)]
      BY <2>1, <3>3 DEF RO!ComparisonShown, RO!showAggregation
    <3>5. i \in W /\ RO!Total(report, W) > r.limit
      BY <3>2 DEF Trips
    <3>6. ~RO!currency_mismatch(r, report[i])
      BY <3>5 DEF RO!WindowOf
    <3>7. RO!CurrencyShown(o, i) # "mismatch"
      BY <3>6 DEF RO!CurrencyShown
    <3>8. ASSUME NEW j \in W, RO!exception_outcome(r, report[j]) # "pass"
          PROVE  r.id \in outcomes[j].matching
      <4>1. j \in DOMAIN report /\ report[j].key = report[i].key
        BY DEF RO!WindowOf
      <4>2. RO!WindowOf(r, report, j) = W
        BY <4>1 DEF RO!WindowOf
      <4>3. j \in 1..n
        BY <1>3, <1>4, <2>1, <4>1 DEF RO!Done
      <4> HIDE DEF W
      <4>4. Trips(r, report, j)
        BY <3>2, <3>5, <3>8, <4>2 DEF Trips, RO!IsMatch
      <4>5. Says(r, report, j) # {}
        BY <4>4, WindowSays DEF Says
      <4> QED BY <1>5, <3>1, <4>3, <4>5
    <3>9. /\ RO!ComparisonShown(o, i).actual = RO!Total(report, W)
          /\ RO!ComparisonShown(o, i).limit = r.limit
      BY <3>4
    <3> HIDE DEF W
    <3>10. RO!ComparisonShown(o, i).actual > RO!ComparisonShown(o, i).limit
      BY <3>5, <3>9
    <3>11. RO!Total(report, o.by.rows) = RO!ComparisonShown(o, i).actual
      BY <3>3, <3>9
    <3>12. \A j \in o.by.rows : r.id \in outcomes[j].matching
                               \/ RO!exception_outcome(r, report[j]) = "pass"
      BY <3>3, <3>8
    <3> QED BY <3>7, <3>10, <3>11, <3>12
  <2> QED BY <1>4, <2>1 DEF RO!WindowAddsUp, RO!Rows, RO!showAggregation
<1> QED BY <1>6, <1>7, <1>8, <1>9

LEMMA RowsTyped == RowsInv => RO!TypeOK
<1> SUFFICES ASSUME RowsInv PROVE RO!TypeOK
  OBVIOUS
<1>1. rules \in RuleSets /\ report \in Reports
  BY DEF RowsInv
<1>2. PICK n \in 0..Len(report) : outcomes = [i \in 1..n |-> OutcomeOf(rules, report, i)]
  BY DEF RowsInv
<1>3. DOMAIN report = 1..Len(report) /\ Len(report) \in Nat
  BY <1>1, ReportRows
<1>4. /\ DOMAIN outcomes = 1..n
      /\ \A i \in 1..n : i \in DOMAIN report /\ outcomes[i] = OutcomeOf(rules, report, i)
  BY <1>2, <1>3
<1>5. windows = None \/ DOMAIN windows = DOMAIN report
  BY DEF RowsInv, RO!Aggregated
<1>6. \A i \in 1..n :
        /\ outcomes[i].verdict \in {"pass"} \cup Verdicts
        /\ outcomes[i].verdict = "pass" <=> outcomes[i].by = None
  BY <1>1, <1>4, OutcomeIs
<1> QED BY <1>4, <1>5, <1>6 DEF RO!TypeOK, RO!Rows, Verdicts

LEMMA RowsInit == RO!Init => RowsInv
<1> SUFFICES ASSUME RO!Init PROVE RowsInv
  OBVIOUS
<1>1. rules \in RuleSets /\ report \in Reports /\ windows = None /\ outcomes = <<>>
  BY DEF RO!Init
<1>2. Len(report) \in Nat
  BY <1>1, ReportRows
<1>3. <<>> = [i \in 1..0 |-> OutcomeOf(rules, report, i)]
  OBVIOUS
<1>4. 0 \in 0..Len(report)
  BY <1>2
<1> QED BY <1>1, <1>3, <1>4 DEF RowsInv

-----------------------------------------------------------------------------
(* All pages.                                                              *)
PagesInv == /\ mounted \in Pages
            /\ mounted = "tests"      => TestsInv
            /\ mounted = "edit"       => EditInv
            /\ mounted = "evaluation" => EvaluationInv
            /\ mounted = "reports"    => ReportsInv
            /\ mounted = "runs"       => CatalogueInv
            /\ mounted = "reviews"    => ReviewsInv
            /\ mounted = "outcome"    => RowsInv

LEMMA PagesStart == Init => PagesInv
<1> SUFFICES ASSUME Init PROVE PagesInv
  OBVIOUS
<1>0. mounted \in Pages
  BY DEF Init
<1>1. CASE mounted = "tests"
  BY <1>0, <1>1, TestsInit DEF Init, PagesInv
<1>2. CASE mounted = "edit"
  BY <1>0, <1>2, EditInit DEF Init, PagesInv
<1>3. CASE mounted = "evaluation"
  BY <1>0, <1>3, EvaluationInit DEF Init, PagesInv
<1>4. CASE mounted = "reports"
  BY <1>0, <1>4, ReportsInit DEF Init, PagesInv
<1>5. CASE mounted = "runs"
  BY <1>0, <1>5, CatalogueInit DEF Init, PagesInv
<1>6. CASE mounted = "reviews"
  BY <1>0, <1>6, ReviewsInit DEF Init, PagesInv
<1>7. CASE mounted = "outcome"
  BY <1>0, <1>7, RowsInit DEF Init, PagesInv
<1> QED BY <1>0, <1>1, <1>2, <1>3, <1>4, <1>5, <1>6, <1>7 DEF Pages

LEMMA PagesStep == PagesInv /\ Next => PagesInv'
<1> SUFFICES ASSUME PagesInv, Next PROVE PagesInv'
  OBVIOUS
<1>0. mounted \in Pages /\ mounted' = mounted
  BY DEF PagesInv, Next
<1>1. CASE mounted = "tests"
  <2>1. TestsInv'
    BY <1>1, TestsStep DEF PagesInv, Next
  <2> QED BY <1>0, <1>1, <2>1 DEF PagesInv
<1>2. CASE mounted = "edit"
  <2>1. EditInv'
    BY <1>2, EditStep DEF PagesInv, Next
  <2> QED BY <1>0, <1>2, <2>1 DEF PagesInv
<1>3. CASE mounted = "evaluation"
  <2>1. EvaluationInv'
    BY <1>3, EvaluationStep DEF PagesInv, Next
  <2> QED BY <1>0, <1>3, <2>1 DEF PagesInv
<1>4. CASE mounted = "reports"
  <2>1. ReportsInv'
    BY <1>4, ReportsStep DEF PagesInv, Next
  <2> QED BY <1>0, <1>4, <2>1 DEF PagesInv
<1>5. CASE mounted = "runs"
  <2>1. CatalogueInv'
    BY <1>5, CatalogueStep DEF PagesInv, Next
  <2> QED BY <1>0, <1>5, <2>1 DEF PagesInv
<1>6. CASE mounted = "reviews"
  <2>1. ReviewsInv'
    BY <1>6, ReviewsStep DEF PagesInv, Next
  <2> QED BY <1>0, <1>6, <2>1 DEF PagesInv
<1>7. CASE mounted = "outcome"
  <2>1. RowsInv'
    BY <1>7, RowsStep DEF PagesInv, Next
  <2> QED BY <1>0, <1>7, <2>1 DEF PagesInv
<1> QED BY <1>0, <1>1, <1>2, <1>3, <1>4, <1>5, <1>6, <1>7 DEF Pages

(* Nothing changes: the invariant of each page is about its variables.     *)
LEMMA PagesStay == PagesInv /\ UNCHANGED vars => PagesInv'
<1> SUFFICES ASSUME PagesInv, UNCHANGED vars PROVE PagesInv'
  OBVIOUS
<1>0. mounted' = mounted
  BY DEF vars
<1>1. UNCHANGED RT!vars
  BY DEF vars, RT!vars
<1>2. UNCHANGED TE!vars
  BY DEF vars, TE!vars
<1>3. UNCHANGED ES!vars
  BY DEF vars, ES!vars
<1>4. UNCHANGED ER!vars
  BY DEF vars, ER!vars
<1>5. UNCHANGED CR!vars
  BY DEF vars, CR!vars
<1>6. UNCHANGED RQ!vars
  BY DEF vars, RQ!vars
<1>7. RowsInv => RowsInv'
  <2>1. UNCHANGED <<rules, report, windows, outcomes>>
    BY DEF vars
  <2> QED BY <2>1 DEF RowsInv
<1> QED BY <1>0, <1>1, <1>2, <1>3, <1>4, <1>5, <1>6, <1>7, TestsStep, EditStep,
           EvaluationStep, ReportsStep, CatalogueStep, ReviewsStep DEF PagesInv

LEMMA PagesSafe == Spec => Init /\ [][Next]_vars
BY PTL DEF Spec

LEMMA PagesInvariance == Spec => []PagesInv
<1>1. Init => PagesInv
  BY PagesStart
<1>2. PagesInv /\ [Next]_vars => PagesInv'
  BY PagesStep, PagesStay
<1> QED BY <1>1, <1>2, PagesSafe, PTL

(* The state of every page is of its types.                                *)
THEOREM PagesTypes == Spec => []TypeOK
<1>1. PagesInv => TypeOK
  <2> SUFFICES ASSUME PagesInv PROVE TypeOK
    OBVIOUS
  <2>0. mounted \in Pages
    BY DEF PagesInv
  <2>1. CASE mounted = "tests"
    BY <2>1, TestsMeans DEF PagesInv, TypeOK
  <2>2. CASE mounted = "edit"
    BY <2>2, EditMeans DEF PagesInv, TypeOK
  <2>3. CASE mounted = "evaluation"
    BY <2>3, EvaluationMeans DEF PagesInv, TypeOK
  <2>4. CASE mounted = "reports"
    BY <2>4, ReportsMeans DEF PagesInv, TypeOK
  <2>5. CASE mounted = "runs"
    BY <2>5, CatalogueMeans DEF PagesInv, TypeOK
  <2>6. CASE mounted = "reviews"
    BY <2>6, ReviewsMeans DEF PagesInv, TypeOK
  <2>7. CASE mounted = "outcome"
    BY <2>7, RowsTyped DEF PagesInv, TypeOK
  <2> QED BY <2>0, <2>1, <2>2, <2>3, <2>4, <2>5, <2>6, <2>7 DEF Pages
<1> QED BY <1>1, PagesInvariance, PTL

(* The gate a page shows is one the server applied, while other users      *)
(* change cases, run tests and compile as they like: a page of Rule Test   *)
(* Cases that has settled shows cases the server held since this user's    *)
(* last change and no older run than their own, with the gate of these,    *)
(* and its verdict is that of the results it lists; evidence that has      *)
(* loaded is that of the version selected, and the button is offered only  *)
(* for a version whose gate was open since the section was mounted; and    *)
(* what a user changes of a case, and only that, is what the server is sent*)
(* (CompiledRuleSetCatalog.tsx, ComplianceEvaluationSection.tsx).          *)
THEOREM GateIsHonest == Spec => []GateIsServers
<1>1. PagesInv => GateIsServers
  <2> SUFFICES ASSUME PagesInv PROVE GateIsServers
    OBVIOUS
  <2>1. CASE mounted = "tests"
    BY <2>1, TestsMeans DEF PagesInv, GateIsServers
  <2>2. CASE mounted = "edit"
    BY <2>2, EditMeans DEF PagesInv, GateIsServers
  <2>3. CASE mounted = "evaluation"
    BY <2>3, EvaluationMeans DEF PagesInv, GateIsServers
  <2>4. CASE mounted \notin {"tests", "edit", "evaluation"}
    BY <2>4 DEF GateIsServers
  <2> QED BY <2>1, <2>2, <2>3, <2>4
<1> QED BY <1>1, PagesInvariance, PTL

(* What a page shows is what was opened on it, in whatever order requests  *)
(* are answered, lost and overtaken: the report, the errors of the file    *)
(* chosen, the run with every row, the review with its rationale and its   *)
(* resolution; the catalogue lists every run once it has read all reports, *)
(* newest first, and a decision is audited exactly when it was accepted    *)
(* (ExpenseReportsPage.tsx, ComplianceEvaluationRunCatalog.tsx,            *)
(* ComplianceReviewDetail.tsx, compliance_review/store.py).                *)
THEOREM OpenedIsShown == Spec => []ShownIsOpened
<1>1. PagesInv => ShownIsOpened
  <2> SUFFICES ASSUME PagesInv PROVE ShownIsOpened
    OBVIOUS
  <2>1. CASE mounted = "reports"
    BY <2>1, ReportsMeans DEF PagesInv, ShownIsOpened
  <2>2. CASE mounted = "runs"
    BY <2>2, CatalogueMeans DEF PagesInv, ShownIsOpened
  <2>3. CASE mounted = "reviews"
    BY <2>3, ReviewsMeans DEF PagesInv, ShownIsOpened
  <2>4. CASE mounted \notin {"reports", "runs", "reviews"}
    BY <2>4 DEF ShownIsOpened
  <2> QED BY <2>1, <2>2, <2>3, <2>4
<1> QED BY <1>1, PagesInvariance, PTL

(* Whatever the rules and the report are, every outcome of a run is        *)
(* explained by its page: it depends on the order of neither the rules nor *)
(* the rows, every rule that matched is named, the citation can be read,   *)
(* and the rows of a window add up to the amount it compares               *)
(* (runner.py, evaluator.py, aggregation.py, ComplianceEvaluationRunDetail). *)
THEOREM OutcomesExplained == Spec => []OutcomeExplained
<1>1. PagesInv => OutcomeExplained
  BY RowsExplained DEF PagesInv, OutcomeExplained
<1> QED BY <1>1, PagesInvariance, PTL
=============================================================================

--------------------------- MODULE ReviewCatalog ---------------------------
(***************************************************************************)
(* The queue of Candidate Rules (client/src/candidate-rules/               *)
(* CandidateRuleCatalog.tsx with its ledger, the tabs of format.ts, the    *)
(* predicates of decisions.ts, reviewQueueFilters.ts and the loading hook  *)
(* shared/ui/useAsyncResource.ts), against a server other reviewers use    *)
(* too.  The form of one rule is ReviewDetail.                             *)
(***************************************************************************)
EXTENDS Naturals, Sequences, FiniteSets, SequencesExt

CONSTANTS Rules,       \* Candidate Rules
          Docs,        \* documents they cite
          DocOf,       \* the document of each rule
          Flagged,     \* rules with a QA flag
          Changed,     \* rules a re-ingestion marked changed or removed
          Blocked,     \* rules with an approval blocker
          AllDocs, None,
          MaxLoads,    \* bound on list requests
          MaxDecisions \* bound on decisions sent

CatalogAssumption == /\ DocOf \in [Rules -> Docs]
                     /\ Flagged \cup Changed \cup Blocked \subseteq Rules
                     /\ AllDocs \notin Docs

QueueStates == {"extracted", "in_review"}
States == QueueStates \cup {"approved", "rejected"}
Tabs == {"queue", "flagged", "archive", "all"}
Modes == {"approve", "reject"}
Rows == UNION {[S -> States] : S \in SUBSET Rules}

VARIABLES server,   \* the state of every rule
          filter,   \* the scope filter that is applied
          loads,    \* list requests in flight, oldest first
          sent,     \* history: list requests and decisions so far
          status,   \* of the list: loading, ready or error
          rows,     \* the rows loaded last
          tab, selected,
          modal,    \* the open decision, with the row it was opened on
          deciding, \* the decision in flight
          bulk,     \* the bulk approval: closed, open or in flight
          feedback, \* the result of the last bulk approval, None for none
          mine,     \* history: rules this client saw decided
          overtaken \* history: those an older answer was on its way for
vars == <<server, filter, loads, sent, status, rows, tab, selected, modal,
          deciding, bulk, feedback, mine, overtaken>>
list == <<filter, loads, status, rows>>
-----------------------------------------------------------------------------
lifecycleStatesForTab(t) ==
  CASE t \in {"queue", "flagged"} -> QueueStates
    [] t = "archive" -> States \ QueueStates
    [] t = "all" -> States

filterReviewsForTab(rs, t) ==
  {r \in DOMAIN rs : /\ rs[r] \in lifecycleStatesForTab(t)
                     /\ t = "flagged" => r \in Flagged}

canResolveCandidateRule(rs, r) == rs[r] \in QueueStates
catalogApproveDisabled(rs, r) == ~canResolveCandidateRule(rs, r) \/ r \in Blocked
catalogRejectDisabled(rs, r) == ~canResolveCandidateRule(rs, r)
isLowRiskBulkApprovalCandidate(rs, r) ==
  /\ ~catalogApproveDisabled(rs, r)
  /\ r \notin Flagged
  /\ r \notin Changed
bulkSelectableCandidateRuleIds(rs, t) ==
  {r \in filterReviewsForTab(rs, t) : isLowRiskBulkApprovalCandidate(rs, r)}

selectedBulkCandidateRuleIds(sel, selectable) == sel \cap selectable

(* The effect that prunes the selection runs when the rows or the tab do.  *)
Pruned(sel, rs, t) == sel \cap bulkSelectableCandidateRuleIds(rs, t)

(* GET /api/candidate-rules with the filters of the request.               *)
Listed(f) == [r \in {s \in Rules : f \in {AllDocs, DocOf[s]}} |-> server[r]]
-----------------------------------------------------------------------------
Load(f, for) == [filter |-> f, for |-> for, answer |-> None]

Init == /\ server = [r \in Rules |-> "in_review"]
        /\ filter = AllDocs
        /\ loads = <<Load(AllDocs, "page")>>
        /\ sent = [loads |-> 1, decisions |-> 0]
        /\ status = "loading"
        /\ rows = <<>>
        /\ tab = "queue"
        /\ selected = {}
        /\ modal = None
        /\ deciding = None
        /\ bulk = [phase |-> "closed"]
        /\ feedback = None
        /\ mine = {} /\ overtaken = {}

(* A dialog covers the page behind it.                                     *)
Uncovered == modal = None /\ bulk.phase = "closed"
Ready == status = "ready" /\ Uncovered

(* applyScope and clearScope: every submission is a new load, whatever is  *)
(* still in flight.                                                        *)
ApplyScope(f) ==
  /\ Uncovered
  /\ sent.loads < MaxLoads
  /\ sent' = [sent EXCEPT !.loads = @ + 1]
  /\ filter' = f
  /\ loads' = Append(loads, Load(f, "page"))
  /\ status' = "loading"
  /\ selected' = {}
  /\ UNCHANGED <<server, rows, tab, modal, deciding, bulk, feedback, mine,
                 overtaken>>

ServeLoad(i) ==
  /\ loads[i].answer = None
  /\ loads' = [loads EXCEPT ![i].answer = Listed(loads[i].filter)]
  /\ UNCHANGED <<server, filter, sent, status, rows, tab, selected, modal,
                 deciding, bulk, feedback, mine, overtaken>>

(* When the load was the one a bulk approval awaits, the rest of           *)
(* handleBulkApprovalSubmit runs after the effects of the new rows: the    *)
(* selection becomes what failed, and is not pruned again.                 *)
AfterReload(load, sel) ==
  IF load.for = "bulk"
  THEN /\ selected' = bulk.failed
       /\ feedback' = [approved |-> bulk.approved, failed |-> bulk.failed]
       /\ bulk' = [phase |-> "closed"]
  ELSE /\ selected' = sel
       /\ UNCHANGED <<feedback, bulk>>

ArriveLoad(i) ==
  /\ loads[i].answer # None
  /\ loads' = RemoveAt(loads, i)
  /\ rows' = loads[i].answer
  /\ status' = "ready"
  /\ AfterReload(loads[i], Pruned(selected, rows', tab))
  /\ UNCHANGED <<server, filter, sent, tab, modal, deciding, mine, overtaken>>

(* mutant: the error is noted and the page keeps loading.                  *)
FailedStatusKept == status
FailedStatus == "error"

FailLoad(i) ==
  /\ loads' = RemoveAt(loads, i)
  /\ status' = FailedStatus
  /\ AfterReload(loads[i], selected)
  /\ UNCHANGED <<server, filter, sent, rows, tab, modal, deciding, mine,
                 overtaken>>

SetTab(t) ==
  /\ Ready
  /\ tab' = t
  /\ selected' = Pruned(selected, rows, t)
  /\ UNCHANGED <<server, list, sent, modal, deciding, bulk, feedback, mine,
                 overtaken>>

Selectable == bulkSelectableCandidateRuleIds(rows, tab)
Select(new) == /\ Ready
               /\ selected' = new
               /\ feedback' = None
               /\ UNCHANGED <<server, list, sent, tab, modal, deciding, bulk,
                              mine, overtaken>>
Toggle(r) == r \in Selectable /\ Select(IF r \in selected THEN selected \ {r}
                                        ELSE selected \cup {r})
ToggleAll == /\ Selectable # {}
             /\ Select(IF Selectable \subseteq selected THEN {}
                       ELSE Selectable)
ClearSelection == selected \cap Selectable # {} /\ Select({})
-----------------------------------------------------------------------------
SelectedBulk == selectedBulkCandidateRuleIds(selected, Selectable)

OpenBulk == /\ Ready
            /\ SelectedBulk # {}
            /\ bulk' = [phase |-> "open"]
            /\ feedback' = None
            /\ UNCHANGED <<server, list, sent, tab, selected, modal, deciding,
                           mine, overtaken>>
CloseBulk == /\ bulk.phase = "open"
             /\ bulk' = [phase |-> "closed"]
             /\ UNCHANGED <<server, list, sent, tab, selected, modal, deciding,
                            feedback, mine, overtaken>>

(* What the reviewer saw of the batch is kept beside it.                   *)
SubmitBulk ==
  /\ bulk.phase = "open"
  /\ SelectedBulk # {}
  /\ sent.decisions < MaxDecisions
  /\ sent' = [sent EXCEPT !.decisions = @ + 1]
  /\ bulk' = [phase |-> "sent", ids |-> SelectedBulk, seen |-> rows]
  /\ UNCHANGED <<server, list, tab, selected, modal, deciding, feedback, mine,
                 overtaken>>

(* Each rule on its own; those decided meanwhile fail.                     *)
ServeBulk ==
  /\ bulk.phase = "sent"
  /\ LET ok == {r \in bulk.ids : server[r] \in QueueStates /\ r \notin Blocked}
     IN /\ server' = [r \in Rules |-> IF r \in ok THEN "approved"
                                      ELSE server[r]]
        /\ bulk' = [phase |-> "served", ids |-> bulk.ids, seen |-> bulk.seen,
                    approved |-> ok, failed |-> bulk.ids \ ok]
  /\ UNCHANGED <<list, sent, tab, selected, modal, deciding, feedback, mine,
                 overtaken>>

(* Rules whose decision an answer taken before it will arrive after.       *)
Overtaken(decided) ==
  {r \in decided : \E i \in DOMAIN loads :
     /\ loads[i].answer # None
     /\ r \in DOMAIN loads[i].answer /\ loads[i].answer[r] \in QueueStates}

ArriveBulk ==
  /\ bulk.phase = "served"
  /\ bulk' = [bulk EXCEPT !.phase = "reloading"]
  /\ loads' = Append(loads, Load(filter, "bulk"))
  /\ status' = "loading"
  /\ mine' = mine \cup bulk.approved
  /\ overtaken' = overtaken \cup Overtaken(bulk.approved)
  /\ UNCHANGED <<server, filter, sent, rows, tab, selected, modal, deciding,
                 feedback>>

(* The dialog stays; actionError is shown only where the list failed.      *)
FailBulk ==
  /\ bulk.phase \in {"sent", "served"}
  /\ bulk' = [phase |-> "open"]
  /\ UNCHANGED <<server, list, sent, tab, selected, modal, deciding, feedback,
                 mine, overtaken>>
-----------------------------------------------------------------------------
OpenDecision(r, m) ==
  /\ Ready
  /\ r \in filterReviewsForTab(rows, tab)
  /\ ~ IF m = "approve" THEN catalogApproveDisabled(rows, r)
       ELSE catalogRejectDisabled(rows, r)
  /\ modal' = [rule |-> r, mode |-> m]
  /\ UNCHANGED <<server, list, sent, tab, selected, deciding, bulk, feedback,
                 mine, overtaken>>
CancelDecision ==
  /\ modal # None /\ deciding = None
  /\ modal' = None
  /\ UNCHANGED <<server, list, sent, tab, selected, deciding, bulk, feedback,
                 mine, overtaken>>

(* handleResolveReview: POST, then GET of the same rule.                   *)
Confirm ==
  /\ modal # None /\ deciding = None
  /\ status = "ready"
  /\ sent.decisions < MaxDecisions
  /\ sent' = [sent EXCEPT !.decisions = @ + 1]
  /\ deciding' = [rule |-> modal.rule, mode |-> modal.mode, phase |-> "post"]
  /\ UNCHANGED <<server, list, tab, selected, modal, bulk, feedback, mine,
                 overtaken>>

Outcome(m) == IF m = "approve" THEN "approved" ELSE "rejected"
Decide(r, m) == /\ server[r] \in QueueStates
                /\ m = "approve" => r \notin Blocked
                /\ server' = [server EXCEPT ![r] = Outcome(m)]

ServeDecision ==
  /\ deciding # None
  /\ deciding.phase = "post"
  /\ Decide(deciding.rule, deciding.mode)
  /\ deciding' = [deciding EXCEPT !.phase = "get"]
  /\ UNCHANGED <<list, sent, tab, selected, modal, bulk, feedback, mine,
                 overtaken>>

RowsWithAnswer(r) == [s \in DOMAIN rows |-> IF s = r THEN server[s] ELSE rows[s]]

ArriveDecision ==
  /\ deciding # None
  /\ deciding.phase = "get"
  /\ rows' = RowsWithAnswer(deciding.rule)
  /\ selected' = Pruned(selected, rows', tab)
  /\ mine' = mine \cup {deciding.rule}
  /\ overtaken' = overtaken \cup Overtaken({deciding.rule})
  /\ modal' = None
  /\ deciding' = None
  /\ UNCHANGED <<server, filter, loads, status, sent, tab, bulk, feedback>>

(* Either call fails; the dialog shows the error and stays.                *)
FailDecision ==
  /\ deciding # None
  /\ deciding' = None
  /\ UNCHANGED <<server, list, sent, tab, selected, modal, bulk, feedback,
                 mine, overtaken>>

OtherReviewer(r, m) ==
  /\ Decide(r, m)
  /\ UNCHANGED <<list, sent, tab, selected, modal, deciding, bulk, feedback,
                 mine, overtaken>>

Answers == \/ \E i \in DOMAIN loads : ServeLoad(i) \/ ArriveLoad(i)
           \/ ServeBulk \/ ArriveBulk \/ ServeDecision \/ ArriveDecision
Failures == \/ \E i \in DOMAIN loads : FailLoad(i)
            \/ FailBulk \/ FailDecision
Next == \/ \E f \in Docs \cup {AllDocs} : ApplyScope(f)
        \/ Answers
        \/ Failures
        \/ \E t \in Tabs : SetTab(t)
        \/ \E r \in Rules : Toggle(r)
        \/ ToggleAll \/ ClearSelection
        \/ OpenBulk \/ CloseBulk \/ SubmitBulk
        \/ \E r \in Rules, m \in Modes : OpenDecision(r, m)
        \/ CancelDecision \/ Confirm
        \/ \E r \in Rules, m \in Modes : OtherReviewer(r, m)

(* The server answers what it is sent and the browser delivers it.         *)
Spec == Init /\ [][Next]_vars /\ WF_vars(Answers \/ Failures)
-----------------------------------------------------------------------------
(* Types; a bulk approval that waits for its reload has it in flight.      *)
TypeOK ==
  /\ server \in [Rules -> States]
  /\ rows \in Rows
  /\ filter \in Docs \cup {AllDocs}
  /\ status \in {"loading", "ready", "error"}
  /\ tab \in Tabs /\ selected \subseteq Rules
  /\ mine \subseteq Rules /\ overtaken \subseteq mine
  /\ bulk.phase = "reloading" <=> \E i \in DOMAIN loads : loads[i].for = "bulk"
  /\ deciding # None => modal # None /\ deciding.rule = modal.rule

(* "Changed or flagged Candidate Rules should still be reviewed one at a   *)
(* time" (the bulk dialog).  Whatever was selected before a tab, a filter, *)
(* an answer or a failed batch changed the rows, a batch holds low-risk    *)
(* rules of the rows in view only.                                         *)
BulkOnlyLowRisk ==
  bulk.phase # "closed" /\ bulk.phase # "open" =>
    \A r \in bulk.ids : /\ r \in DOMAIN bulk.seen
                        /\ isLowRiskBulkApprovalCandidate(bulk.seen, r)

(* After a batch the message tells what was approved; none of it stays     *)
(* selected for the next one, even when the list could not be reloaded.    *)
ApprovedNotSelected ==
  feedback # None => feedback.approved \cap selected = {}

(* Deciding a row "removes it from the queue tab" (the tests of the row    *)
(* actions): however scopes, reloads, decisions and those of others cross, *)
(* a rule this client decided is not offered again, unless an answer that  *)
(* was taken before its decision arrived after it.                         *)
Offered == {r \in filterReviewsForTab(rows, tab) : canResolveCandidateRule(rows, r)}
DecidedNotOffered == status = "ready" => (mine \ overtaken) \cap Offered = {}

(* Violated, as the README says:                                           *)
(* "removes it from the queue tab" (CandidateRuleCatalog.test.tsx:682), in *)
(* every interleaving of the answers.                                      *)
DecidedLeavesQueue == status = "ready" => mine \cap Offered = {}

(* Violated, as the README says:                                           *)
(* "applies document scope filters to candidate rules"                     *)
(* (CandidateRuleCatalog.test.tsx:369): the rows are of the filter shown.  *)
RowsMatchFilter ==
  status = "ready" => \A r \in DOMAIN rows : filter \in {AllDocs, DocOf[r]}

(* The list is loading.                                                    *)
Waiting == status = "loading"
(* Whatever becomes of the requests, the page comes to rest again and      *)
(* again.                                                                  *)
ComesToRest == []<>~Waiting
=============================================================================

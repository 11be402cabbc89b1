--------------------------- MODULE CompliancePages ---------------------------
(* The pages on Rule Test Cases, Expense Reports, Compliance Evaluation    *)
(* Runs and Compliance Reviews, and the evaluation of a row that the run   *)
(* page explains.  The shell mounts one page at a time and a page shares   *)
(* no state with another, so every behaviour is that of one page, which is *)
(* chosen initially.  What has the same name shares a variable; the        *)
(* variables of the pages that are not mounted hold None.                  *)
EXTENDS Naturals, Sequences, FiniteSets
CONSTANTS None,
          Cases, RuleOf, MaxTestRuns, MaxTestActs, TestOthers,
                                            \* of the Rule Test Cases page
          Flags, Decimals, Words, Purposes, Days, \* of an edit
          Versions, Newest, Enforceable, Evaluable, EvaluationActs,
          EvaluationOthers,                 \* of the evaluations of a report
          Good, Bad, MaxReports, ImportActs,\* of the Expense Reports page
          CatalogReports, RowCount, PageSize, InitRuns, MaxRuns, MaxVisits,
                                            \* of the catalogue of runs
          Reviews, ReviewRuns, ReviewedIn, Violations, Types, MaxOpens, MaxConfirms,
          MaxScopes, MaxOthers,             \* of the reviews
          RuleSets, Reports                 \* of the outcomes of rows
VARIABLES mounted,
          cases, runs, roles, page, shown, counts, listStatus, latest,
          runStatus, editing, req, since, clean, target, opened, acts, others, testCase,
          draft, sent, compiled, verdict, evals, resolved, tests, listed,
          exec, execError, status, selected, replies, reports, canImport,
          loading, loadError, sel, rep, due, importOpen, file, upload, errors,
          list, detail, executed, before, reads, initial, downloads, visit,
          decision, audit, requests, scope, queue, queueOf, loads, instance,
          fetches, done, confirms, scopes, rules, report, windows, outcomes

RT == INSTANCE RuleTests WITH
        MaxRuns <- MaxTestRuns, MaxActs <- MaxTestActs, MaxOthers <- TestOthers
TE == INSTANCE RuleTestEdit
ES == INSTANCE EvaluationSection WITH
        MaxActs <- EvaluationActs, MaxOthers <- EvaluationOthers
ER == INSTANCE ExpenseReports WITH MaxActs <- ImportActs
CR == INSTANCE RunCatalog WITH Reports <- CatalogReports
RQ == INSTANCE ComplianceReview WITH Runs <- ReviewRuns, RunOf <- ReviewedIn
RO == INSTANCE RowOutcome
ASSUME PagesAssumption ==
  /\ RT!CaseAssumption /\ TE!TextAssumption /\ ES!VersionAssumption
  /\ ER!BoundAssumption /\ CR!PageAssumption /\ RQ!ReviewAssumption
  /\ RO!OutcomeAssumption
-----------------------------------------------------------------------------
Pages == {"tests", "edit", "evaluation", "reports", "runs", "reviews", "outcome"}
Unmounted ==
  /\ mounted \notin {"tests", "evaluation"} => cases = None
  /\ mounted # "tests" =>
       /\ runs = None /\ roles = None /\ page = None /\ shown = None
       /\ counts = None /\ listStatus = None /\ latest = None
       /\ runStatus = None /\ editing = None /\ req = None /\ since = None
       /\ clean = None
  /\ mounted \notin {"tests", "edit"} => target = None
  /\ mounted \notin {"tests", "evaluation", "reports"} =>
       acts = None
  /\ mounted \notin {"tests", "evaluation", "reviews"} =>
       others = None
  /\ mounted # "edit" =>
       /\ testCase = None /\ draft = None /\ sent = None
  /\ mounted # "evaluation" =>
       /\ compiled = None /\ verdict = None /\ evals = None /\ resolved = None
       /\ tests = None /\ listed = None /\ exec = None /\ execError = None
       /\ opened = None
  /\ mounted \notin {"evaluation", "reviews"} => status = None
  /\ mounted \notin {"evaluation", "runs", "reviews"} =>
       selected = None
  /\ mounted \notin {"evaluation", "reports", "runs"} => replies = None
  /\ mounted # "reports" =>
       /\ reports = None /\ canImport = None /\ loading = None
       /\ loadError = None /\ sel = None /\ rep = None /\ due = None
       /\ importOpen = None /\ file = None /\ upload = None /\ errors = None
  /\ mounted \notin {"reports", "runs"} => list = None
  /\ mounted \notin {"reports", "runs", "reviews"} => detail = None
  /\ mounted # "runs" =>
       /\ executed = None /\ before = None /\ reads = None /\ initial = None
       /\ downloads = None /\ visit = None
  /\ mounted # "reviews" =>
       /\ decision = None /\ audit = None /\ requests = None /\ scope = None
       /\ queue = None /\ queueOf = None /\ loads = None /\ instance = None
       /\ fetches = None /\ done = None /\ confirms = None /\ scopes = None
  /\ mounted # "outcome" =>
       /\ rules = None /\ report = None /\ windows = None /\ outcomes = None

Init ==
  /\ mounted \in Pages
  /\ Unmounted
  /\ CASE mounted = "tests"      -> RT!Init
       [] mounted = "edit"       -> TE!Init
       [] mounted = "evaluation" -> ES!Init
       [] mounted = "reports"    -> ER!Init
       [] mounted = "runs"       -> CR!Init
       [] mounted = "reviews"    -> RQ!Init
       [] mounted = "outcome"    -> RO!Init

Kept ==
  /\ mounted \notin {"tests", "evaluation"} => UNCHANGED cases
  /\ mounted # "tests" =>
       UNCHANGED <<runs, roles, page, shown, counts, listStatus, latest,
                   runStatus, editing, req, since, clean>>
  /\ mounted \notin {"tests", "edit"} => UNCHANGED target
  /\ mounted \notin {"tests", "evaluation", "reports"} => UNCHANGED acts
  /\ mounted \notin {"tests", "evaluation", "reviews"} => UNCHANGED others
  /\ mounted # "edit" =>
       UNCHANGED <<testCase, draft, sent>>
  /\ mounted # "evaluation" =>
       UNCHANGED <<compiled, verdict, evals, resolved, tests, listed, exec,
                   execError, opened>>
  /\ mounted \notin {"evaluation", "reviews"} => UNCHANGED status
  /\ mounted \notin {"evaluation", "runs", "reviews"} => UNCHANGED selected
  /\ mounted \notin {"evaluation", "reports", "runs"} => UNCHANGED replies
  /\ mounted # "reports" =>
       UNCHANGED <<reports, canImport, loading, loadError, sel, rep, due,
                   importOpen, file, upload, errors>>
  /\ mounted \notin {"reports", "runs"} => UNCHANGED list
  /\ mounted \notin {"reports", "runs", "reviews"} => UNCHANGED detail
  /\ mounted # "runs" =>
       UNCHANGED <<executed, before, reads, initial, downloads, visit>>
  /\ mounted # "reviews" =>
       UNCHANGED <<decision, audit, requests, scope, queue, queueOf, loads,
                   instance, fetches, done, confirms, scopes>>
  /\ mounted # "outcome" =>
       UNCHANGED <<rules, report, windows, outcomes>>

Next ==
  /\ UNCHANGED mounted
  /\ Kept
  /\ \/ mounted = "tests"      /\ RT!Next
     \/ mounted = "edit"       /\ TE!Next
     \/ mounted = "evaluation" /\ ES!Next
     \/ mounted = "reports"    /\ ER!Next
     \/ mounted = "runs"       /\ CR!Step
     \/ mounted = "reviews"    /\ RQ!Next
     \/ mounted = "outcome"    /\ RO!Next

vars ==
  <<mounted, cases, runs, roles, page, shown, counts, listStatus, latest, runStatus,
    editing, req, since, clean, target, opened, acts, others, testCase, draft, sent,
    compiled, verdict, evals, resolved, tests, listed, exec, execError,
    status, selected, replies, reports, canImport, loading, loadError, sel,
    rep, due, importOpen, file, upload, errors, list, detail, executed,
    before, reads, initial, downloads, visit, decision, audit, requests,
    scope, queue, queueOf, loads, instance, fetches, done, confirms, scopes,
    rules, report, windows, outcomes>>
rtVars == RT!vars
esVars == ES!vars
erVars == ER!vars
crVars == CR!vars
rqVars == RQ!vars
(* The fairness of each page: requests are answered or fail, effects run.  *)
Spec ==
  /\ Init /\ [][Next]_vars
  /\ \A k \in RT!Kinds : WF_rtVars(mounted = "tests" /\ RT!Answer(k))
  /\ WF_rtVars(mounted = "tests" /\ RT!Arrive)
  /\ WF_esVars(mounted = "evaluation" /\ \E r \in replies : ES!Answer(r))
  /\ WF_esVars(mounted = "evaluation" /\ \E r \in replies : ES!Arrive(r))
  /\ WF_esVars(mounted = "evaluation" /\ ES!Execute)
  /\ WF_erVars(mounted = "reports" /\ ER!DetailEffect)
  /\ WF_erVars(mounted = "reports" /\ \E r \in replies : ER!Answer(r))
  /\ WF_erVars(mounted = "reports" /\ ER!Network)
  /\ WF_crVars(mounted = "runs" /\ (\/ CR!ReportsArrive
                                    \/ \E r \in CatalogReports : CR!ReadReport(r)
                                    \/ CR!CatalogArrives \/ CR!CatalogFails))
  /\ WF_crVars(mounted = "runs" /\ (CR!RunArrives \/ CR!RunFails))
  /\ WF_rqVars(mounted = "reviews" /\ (RQ!QueueRead \/ RQ!QueueArrives \/ RQ!QueueFails))
  /\ WF_rqVars(mounted = "reviews"
       /\ (RQ!DetailRead \/ RQ!DetailArrives \/ RQ!DetailFails))
  /\ WF_rqVars(mounted = "reviews" /\ (RQ!ResolutionArrives \/ RQ!ResolutionFails))
-----------------------------------------------------------------------------
(* The state of the page that is mounted is of its types.                  *)
TypeOK ==
  CASE mounted = "tests"      -> RT!TypeOK
    [] mounted = "edit"       -> TE!TypeOK
    [] mounted = "evaluation" -> ES!TypeOK
    [] mounted = "reports"    -> ER!TypeOK
    [] mounted = "runs"       -> CR!TypeOK
    [] mounted = "reviews"    -> RQ!TypeOK
    [] mounted = "outcome"    -> RO!TypeOK

(* The release gate a page shows is one the server applied: the settled    *)
(* page has cases and a run the server held since the user's last change,  *)
(* its verdict is that of its results, evidence that has loaded is that of *)
(* the version selected, and the button is offered only for a version the  *)
(* gate was open for.  What the user edits about a case is what changes.   *)
GateIsServers ==
  CASE mounted = "tests"      -> /\ RT!SettledPageIsCurrent /\ RT!GateIsServerGate
                                 /\ RT!TabCountsMatchRows /\ RT!VerdictMatchesResults
    [] mounted = "edit"       -> TE!UntouchedFieldsKept /\ TE!ChangesNotRefused
    [] mounted = "evaluation" -> ES!EvidenceIsSelected /\ ES!GateSound
    [] OTHER                  -> TRUE

(* What a page shows is what was opened on it, whichever answer arrives    *)
(* last: the report, the run with its errors and every row of it, the      *)
(* review with its rationale and its resolution, the errors of the chosen  *)
(* file, and every run of the catalogue, newest first.  What was decided   *)
(* on a review is audited, what was refused is not.                        *)
ShownIsOpened ==
  CASE mounted = "reports" -> ER!DetailIsSelected /\ ER!ErrorsOfChosenFile
    [] mounted = "runs"    -> /\ CR!CatalogComplete /\ CR!CatalogNewestFirst
                              /\ CR!DetailIsSelected /\ CR!DownloadErrorOfShown
                              /\ CR!RowsReachable
    [] mounted = "reviews" -> /\ RQ!RationaleOfItsReview /\ RQ!ResolvedIsShown
                              /\ RQ!DecisionsAudited
    [] OTHER               -> TRUE

(* The outcome of a row does not depend on the order of the rules, names   *)
(* every rule that matched, adds up over the rows of its window, and its   *)
(* page hides no citation.                                                 *)
OutcomeExplained ==
  mounted = "outcome" => /\ RO!OrderIrrelevant /\ RO!EveryMatchNamed
                         /\ RO!CitationReadable /\ RO!WindowAddsUp

(* Whatever becomes of the requests, the page mounted comes to rest again  *)
(* and again.                                                              *)
PagesComeToRest ==
  []<>~CASE mounted = "tests"      -> RT!Waiting
         [] mounted = "evaluation" -> ES!Waiting
         [] mounted = "reports"    -> ER!Waiting
         [] mounted = "runs"       -> CR!Waiting
         [] mounted = "reviews"    -> RQ!Waiting
         [] OTHER                  -> FALSE
=============================================================================

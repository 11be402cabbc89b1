---------------------------- MODULE RunCatalog -----------------------------
(***************************************************************************)
(* The Compliance Evaluation Runs of every Expense Report                  *)
(* (client/src/compliance-evaluation-runs/ComplianceEvaluationRunCatalog,  *)
(* with shared/ui/TablePagination).  The server lists the runs of one      *)
(* report at a time: the catalogue reads the reports, then the runs of     *)
(* each of them, at different moments, and joins them, while other users   *)
(* evaluate.  A run is opened over the catalogue and its report can be     *)
(* downloaded.                                                             *)
(***************************************************************************)
EXTENDS Naturals, Sequences, FiniteSets

CONSTANTS Reports,
          RowCount,  \* rows of each Expense Report
          PageSize,
          None,
          InitRuns,  \* runs executed before the page opens
          MaxRuns,   \* bound on the runs executed
          MaxVisits  \* bound on the runs opened

PageAssumption == /\ PageSize \in Nat \ {0} /\ RowCount \in [Reports -> Nat]
                  /\ InitRuns \in Nat /\ None \notin Nat

VARIABLES executed, \* server: the report of each run, in order of execution
          before,   \* history: the runs executed before the catalogue was read
          list,     \* the catalogue: status, runs by number, page
          reads,    \* the runs of each report as read, None before
          initial,  \* the run the shell opened the section with
          selected,
          detail,   \* the run shown: status, run, page, downloading, error
          replies,  \* requests for one run: [of, visit, got]
          downloads,\* downloads in flight: [of, visit]
          visit
catalog == <<list, reads, before>>
open == <<initial, selected, detail, replies, downloads, visit>>
vars == <<executed, before, list, reads, initial, selected, detail, replies,
          downloads, visit>>

Runs == 1..Len(executed)
RunsOf(report) == {x \in Runs : executed[x] = report}
-----------------------------------------------------------------------------
(* A table in pages.                                                       *)
AtLeast(n) == IF n = 0 THEN 1 ELSE n
TotalPages(count) == AtLeast((count + PageSize - 1) \div PageSize)
SafePage(page, count) == IF page > TotalPages(count) THEN TotalPages(count) ELSE page
startIndex(page, count) == (SafePage(page, count) - 1) * PageSize
(* The positions of the list that a page shows.                            *)
paginateItems(page, count) ==
  {i \in 1..count : /\ i > startIndex(page, count)
                    /\ i <= startIndex(page, count) + PageSize}
TablePagination(count) == count > PageSize
Previous(page, count) == TablePagination(count) /\ SafePage(page, count) > 1
Next(page, count) ==
  TablePagination(count) /\ SafePage(page, count) < TotalPages(count)
Turned(page, count) ==
  {SafePage(page, count) - 1 : b \in {TRUE} \cap {Previous(page, count)}}
  \cup {SafePage(page, count) + 1 : b \in {TRUE} \cap {Next(page, count)}}
-----------------------------------------------------------------------------
NoDetail == [status |-> "closed", run |-> None, page |-> 1,
             downloading |-> FALSE, error |-> None]
NewDetail == [NoDetail EXCEPT !.status = "loading"]
CatalogShown == selected = None /\ list.status = "ready"
DetailShown == detail.status = "ready"
Unread == [r \in Reports |-> None]

Init ==
  /\ executed \in [1..InitRuns -> Reports]
  /\ before = Runs
  /\ list = [status |-> "reports", runs |-> <<>>, page |-> 1]
  /\ reads = Unread
  /\ initial \in Runs \cup {None}
  /\ selected = initial
  /\ detail = IF initial = None THEN NoDetail ELSE NewDetail
  /\ replies = IF initial = None THEN {}
               ELSE {[of |-> initial, visit |-> 0, got |-> FALSE]}
  /\ downloads = {} /\ visit = 0

OthersEvaluate ==
  /\ Len(executed) < MaxRuns
  /\ \E r \in Reports : executed' = Append(executed, r)
  /\ UNCHANGED <<catalog, open>>
-----------------------------------------------------------------------------
(* The catalogue: fetchAllComplianceEvaluationRuns, one promise for all.   *)
ReportsArrive ==
  /\ list.status = "reports"
  /\ list' = [list EXCEPT !.status = "runs"]
  /\ UNCHANGED <<executed, before, reads, open>>

(* The server answers for one report.                                      *)
ReadReport(r) ==
  /\ list.status = "runs"
  /\ reads[r] = None
  /\ reads' = [reads EXCEPT ![r] = RunsOf(r)]
  /\ UNCHANGED <<executed, before, list, open>>

NewestFirst(S) == [k \in 1..Cardinality(S) |->
                     CHOOSE x \in S : Cardinality({y \in S : y >= x}) = k]
AllRead == \A r \in Reports : reads[r] # None

CatalogArrives ==
  /\ list.status = "runs"
  /\ AllRead
  /\ list' = [status |-> "ready", page |-> 1,
              runs |-> NewestFirst(UNION {reads[r] : r \in
                                            {q \in Reports : reads[q] # None}})]
  /\ UNCHANGED <<executed, before, reads, open>>

AfterFailure(status) == "error"

CatalogFails ==
  /\ list.status \in {"reports", "runs"}
  /\ list' = [list EXCEPT !.status = AfterFailure(list.status)]
  /\ reads' = IF list'.status = "error" THEN Unread ELSE reads
  /\ UNCHANGED <<executed, before, open>>

TurnCatalog ==
  /\ CatalogShown
  /\ \E p \in Turned(list.page, Len(list.runs)) : list' = [list EXCEPT !.page = p]
  /\ UNCHANGED <<executed, before, reads, open>>
-----------------------------------------------------------------------------
(* The detail.  Its requests are cancelled when it goes.                   *)
KeepAll(rs) == rs \* mutant: no cancelled flag
Cancel(rs) == {}

Open ==
  /\ CatalogShown
  /\ visit < MaxVisits
  /\ \E i \in paginateItems(list.page, Len(list.runs)) :
       /\ selected' = list.runs[i]
       /\ replies' = Cancel(replies) \cup
                     {[of |-> list.runs[i], visit |-> visit + 1, got |-> FALSE]}
  /\ detail' = NewDetail
  /\ visit' = visit + 1
  /\ UNCHANGED <<executed, catalog, initial, downloads>>

onBack ==
  /\ selected # None
  /\ selected' = None
  /\ detail' = NoDetail
  /\ replies' = Cancel(replies)
  /\ UNCHANGED <<executed, catalog, initial, downloads, visit>>

(* The link of the section clears the run it was opened with.              *)
initialRunIdCleared ==
  /\ initial # None
  /\ initial' = None
  /\ selected' = None
  /\ detail' = NoDetail
  /\ replies' = Cancel(replies)
  /\ UNCHANGED <<executed, catalog, downloads, visit>>

RunArrives ==
  /\ \E r \in replies :
       /\ replies' = replies \ {r}
       /\ detail' = IF selected = None THEN detail
                    ELSE [detail EXCEPT !.status = "ready", !.run = r.of]
  /\ UNCHANGED <<executed, catalog, initial, selected, downloads, visit>>

RunFails ==
  /\ \E r \in replies :
       /\ replies' = replies \ {r}
       /\ detail' = IF selected = None THEN detail
                    ELSE [detail EXCEPT !.status = AfterFailure(detail.status)]
  /\ UNCHANGED <<executed, catalog, initial, selected, downloads, visit>>

Outcomes == RowCount[executed[detail.run]]
TurnOutcomes ==
  /\ DetailShown
  /\ \E p \in Turned(detail.page, Outcomes) : detail' = [detail EXCEPT !.page = p]
  /\ UNCHANGED <<executed, catalog, initial, selected, replies, downloads, visit>>

handleDownloadReport ==
  /\ DetailShown
  /\ ~detail.downloading
  /\ downloads' = downloads \cup {[of |-> selected, visit |-> visit]}
  /\ detail' = [detail EXCEPT !.downloading = TRUE, !.error = None]
  /\ UNCHANGED <<executed, catalog, initial, selected, replies, visit>>

(* The state of a detail that is gone is gone.                             *)
SameDetail(d) == selected # None /\ d.visit = visit

DownloadEnds ==
  /\ \E d \in downloads, ok \in BOOLEAN :
       /\ downloads' = downloads \ {d}
       /\ detail' = IF SameDetail(d)
                    THEN [detail EXCEPT !.downloading = FALSE,
                                        !.error = IF ok THEN @ ELSE d.of]
                    ELSE detail
  /\ UNCHANGED <<executed, catalog, initial, selected, replies, visit>>
-----------------------------------------------------------------------------
Step ==
  \/ OthersEvaluate \/ ReportsArrive \/ (\E r \in Reports : ReadReport(r))
  \/ CatalogArrives \/ CatalogFails \/ TurnCatalog
  \/ Open \/ onBack \/ initialRunIdCleared \/ RunArrives \/ RunFails
  \/ TurnOutcomes \/ handleDownloadReport \/ DownloadEnds

Spec == Init /\ [][Step]_vars
(* A request is answered or fails.                                         *)
FairSpec ==
  /\ Spec
  /\ WF_vars(ReportsArrive \/ (\E r \in Reports : ReadReport(r)) \/ CatalogArrives
             \/ CatalogFails)
  /\ WF_vars(RunArrives \/ RunFails)
-----------------------------------------------------------------------------
(* The variables hold what their comments say.  A run opened is one the    *)
(* server has.                                                             *)
TypeOK ==
  /\ list.status \in {"reports", "runs", "ready", "error"}
  /\ list.page \in 1..TotalPages(Len(list.runs))
  /\ reads \in [Reports -> {None} \cup SUBSET Runs]
  /\ {initial, selected} \subseteq Runs \cup {None}
  /\ detail.status \in {"closed", "loading", "ready", "error"}
  /\ (selected = None) = (detail.status = "closed")
  /\ detail.run \in Runs \cup {None}
  /\ \A r \in replies : r.of \in Runs

(* A catalogue that is ready lists every run executed before it was read,  *)
(* whatever was executed between its requests.                             *)
CatalogComplete ==
  list.status = "ready" =>
    \A x \in before : \E i \in DOMAIN list.runs : list.runs[i] = x

(* It lists no run twice and a run before those executed earlier.          *)
CatalogNewestFirst ==
  \A i, j \in DOMAIN list.runs : i < j => list.runs[i] > list.runs[j]

(* A detail that is ready shows the run that was opened, not one opened    *)
(* before.                                                                 *)
DetailIsSelected == detail.status = "ready" => detail.run = selected

(* The download error shown is about the run shown.                        *)
DownloadErrorOfShown == detail.error \in {None, selected}

(* Both tables: where the pages end the rows end, so that every row can be *)
(* reached with the two buttons.                                           *)
Ends(page, count) ==
  LET shown == paginateItems(page, count) IN
  count > 0 => /\ (Next(page, count) \/ count \in shown)
               /\ (Previous(page, count) \/ 1 \in shown)
RowsReachable ==
  /\ Ends(list.page, Len(list.runs))
  /\ detail.status = "ready" => Ends(detail.page, Outcomes)

(* Catalogue or run are loading.                                           *)
Waiting == detail.status = "loading" \/ list.status \in {"reports", "runs"}
(* Whatever becomes of the requests, the page comes to rest again and      *)
(* again.                                                                  *)
ComesToRest == []<>~Waiting
=============================================================================

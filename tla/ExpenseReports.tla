-------------------------- MODULE ExpenseReports ---------------------------
(***************************************************************************)
(* The Expense Reports page (client/src/ExpenseReportsPage.tsx) and the    *)
(* store behind it (expense_reports.py).  The page loads the list of       *)
(* reports once, imports CSV files and opens one report at a time; the     *)
(* detail is loaded by an effect that runs again whenever the selection or *)
(* the report it holds changes, also by its own hand.  The evaluations of  *)
(* an open report are EvaluationSection's.                                 *)
(***************************************************************************)
EXTENDS Naturals, Sequences

CONSTANTS Good,    \* files that pass validation
          Bad,     \* files with file-level or row-level errors
          None,
          MaxReports, MaxActs \* bounds

BoundAssumption == MaxReports \in Nat \ {0} /\ MaxActs \in Nat
Files == Good \cup Bad
NoErrors == [kind |-> "none", of |-> None]

VARIABLES reports,   \* server: the file of each report, by number
          canImport, \* the user is an admin
          list, loading, loadError, \* the list as the page shows it
          sel, rep,  \* the selected report and the one held, 0 for none
          detail,    \* status of the detail
          due,       \* the detail effect has yet to run
          importOpen, file,
          upload,    \* the import in flight, or None
          errors,    \* of the last import: [kind, of]
          replies,   \* loads in flight, value None until read
          acts
panel == <<importOpen, file, upload, errors>>
catalog == <<list, loading, loadError>>
vars == <<reports, canImport, list, loading, loadError, sel, rep, detail, due,
          importOpen, file, upload, errors, replies, acts>>
-----------------------------------------------------------------------------
DetailView == IF sel = 0 THEN "list"
              ELSE IF detail \in {"loading", "idle"} THEN "loading"
              ELSE IF detail = "error" \/ rep = 0 THEN "error" ELSE "report"
ListShown == DetailView = "list" /\ ~due
EmptyShown == ListShown /\ ~loading /\ list = <<>> /\ ~importOpen
ImportShown == ListShown /\ canImport /\ importOpen
ErrorsShown == IF ListShown THEN errors.kind ELSE "none"
Rows == IF ListShown /\ ~loading THEN {list[i] : i \in DOMAIN list} ELSE {}

Request(load, of) == [load |-> load, of |-> of, value |-> None]
Cancel(load) == {r \in replies : r.load # load}

Init == /\ \E n \in 0..1 : reports \in [1..n -> Good]
        /\ canImport \in BOOLEAN
        /\ list = <<>> /\ loading = TRUE /\ loadError = FALSE
        /\ sel = 0 /\ rep = 0 /\ detail = "idle" /\ due = FALSE
        /\ importOpen = FALSE /\ file = None /\ upload = None
        /\ errors = NoErrors
        /\ replies = {Request("list", 0)}
        /\ acts = 0

(* Whether the report the page holds is the one to show.                   *)
HoldsReport(id) == rep = id

(* The detail effect, with the cleanup of its last run.  Dropping a held   *)
(* report changes what it depends on and makes it run again.               *)
DetailEffect ==
  /\ due
  /\ \/ /\ sel = 0
        /\ rep' = 0 /\ detail' = "idle"
        /\ replies' = Cancel("detail")
        /\ due' = (rep # 0)
     \/ /\ sel # 0 /\ HoldsReport(sel)
        /\ detail' = "ready"
        /\ replies' = Cancel("detail")
        /\ due' = FALSE
        /\ UNCHANGED rep
     \/ /\ sel # 0 /\ ~HoldsReport(sel)
        /\ rep' = 0 /\ detail' = "loading"
        /\ replies' = Cancel("detail") \cup {Request("detail", sel)}
        /\ due' = (rep # 0)
  /\ UNCHANGED <<reports, canImport, catalog, sel, panel, acts>>

(* The first effects have run when the user acts.                          *)
Act == acts < MaxActs /\ acts' = acts + 1

Open(id) ==
  /\ Act
  /\ id \in Rows
  /\ sel' = id /\ due' = TRUE
  /\ UNCHANGED <<reports, canImport, catalog, rep, detail, panel, replies>>
Back ==
  /\ sel # 0 /\ ~due
  /\ sel' = 0 /\ due' = TRUE
  /\ UNCHANGED <<reports, canImport, catalog, rep, detail, panel, replies, acts>>
ToggleImport ==
  /\ Act
  /\ ListShown /\ canImport
  /\ importOpen' = ~importOpen
  /\ UNCHANGED <<reports, canImport, catalog, sel, rep, detail, due, file,
                 upload, errors, replies>>

ErrorsCleared == NoErrors
Choose(f) ==
  /\ Act
  /\ ImportShown /\ upload = None
  /\ file' = f
  /\ errors' = ErrorsCleared
  /\ UNCHANGED <<reports, canImport, catalog, sel, rep, detail, due, importOpen,
                 upload, replies>>
handleSubmit ==
  /\ Act
  /\ ImportShown /\ upload = None
  /\ IF file = None
     THEN errors' = [kind |-> "upload", of |-> None] /\ UNCHANGED upload
     ELSE errors' = NoErrors /\ upload' = [of |-> file, step |-> "sent", id |-> 0]
  /\ UNCHANGED <<reports, canImport, catalog, sel, rep, detail, due, importOpen,
                 file, replies>>
-----------------------------------------------------------------------------
(* The server.                                                             *)
Saved(rs, f) == IF f \in Good THEN Append(rs, f) ELSE rs
import_expense_report ==
  /\ upload # None /\ upload.step = "sent"
  /\ Len(reports) < MaxReports
  /\ reports' = Saved(reports, upload.of)
  /\ upload' = [upload EXCEPT
                  !.step = IF upload.of \in Good THEN "saved" ELSE "rejected",
                  !.id = Len(reports')]
  /\ UNCHANGED <<canImport, catalog, sel, rep, detail, due, importOpen, file,
                 errors, replies, acts>>
OtherImport ==
  /\ Len(reports) < MaxReports
  /\ \E f \in Good : reports' = Append(reports, f)
  /\ UNCHANGED <<canImport, catalog, sel, rep, detail, due, panel, replies, acts>>
Answer(r) ==
  /\ r.value = None
  /\ replies' = (replies \ {r}) \cup
       {[r EXCEPT !.value = IF r.load = "list" THEN Len(reports) ELSE r.of]}
  /\ UNCHANGED <<reports, canImport, catalog, sel, rep, detail, due, panel, acts>>

NewestFirst(n) == [i \in 1..n |-> n + 1 - i]

(* The effect that opens the import panel of an empty list.                *)
OpenIfEmpty(l) == importOpen' = (importOpen \/ (canImport /\ l = <<>>))
-----------------------------------------------------------------------------
ArriveList(r) ==
  /\ r.load = "list" /\ r.value # None
  /\ list' = NewestFirst(r.value)
  /\ loading' = FALSE
  /\ OpenIfEmpty(list')
  /\ replies' = replies \ {r}
  /\ UNCHANGED <<reports, canImport, loadError, sel, rep, detail, due, file,
                 upload, errors, acts>>
FailList(r) ==
  /\ r.load = "list"
  /\ loadError' = TRUE /\ loading' = FALSE
  /\ OpenIfEmpty(list)
  /\ replies' = replies \ {r}
  /\ UNCHANGED <<reports, canImport, list, sel, rep, detail, due, file, upload,
                 errors, acts>>
ArriveDetail(r) ==
  /\ r.load = "detail" /\ r.value # None
  /\ rep' = r.value /\ detail' = "ready"
  /\ due' = (due \/ rep # r.value)
  /\ replies' = replies \ {r}
  /\ UNCHANGED <<reports, canImport, catalog, sel, panel, acts>>
StillLoading == detail \* mutant
AfterFailure == "error"
FailDetail(r) ==
  /\ r.load = "detail"
  /\ detail' = AfterFailure
  /\ replies' = replies \ {r}
  /\ UNCHANGED <<reports, canImport, catalog, sel, rep, due, panel, acts>>

ImportSaved ==
  /\ upload # None /\ upload.step = "saved"
  /\ list' = <<upload.id>> \o list
  /\ rep' = upload.id /\ sel' = upload.id /\ detail' = "ready"
  /\ due' = TRUE
  /\ file' = None /\ importOpen' = FALSE /\ upload' = None
  /\ UNCHANGED <<reports, canImport, loading, loadError, errors, replies, acts>>
ImportRejected ==
  /\ upload # None /\ upload.step = "rejected"
  /\ errors' = [kind |-> "validation", of |-> upload.of]
  /\ upload' = None
  /\ UNCHANGED <<reports, canImport, catalog, sel, rep, detail, due, importOpen,
                 file, replies, acts>>
ImportLost ==
  /\ upload # None
  /\ errors' = [kind |-> "upload", of |-> upload.of]
  /\ upload' = None
  /\ UNCHANGED <<reports, canImport, catalog, sel, rep, detail, due, importOpen,
                 file, replies, acts>>

User == \/ \E id \in Rows : Open(id)
        \/ Back \/ ToggleImport \/ handleSubmit
        \/ \E f \in Files \cup {None} : Choose(f)
Network == \/ \E r \in replies : ArriveList(r) \/ FailList(r)
                                 \/ ArriveDetail(r) \/ FailDetail(r)
           \/ ImportSaved \/ ImportRejected \/ ImportLost
Server == import_expense_report \/ OtherImport \/ \E r \in replies : Answer(r)
Next == DetailEffect \/ User \/ Network \/ Server

(* Effects run, and every request is answered or fails.                    *)
Spec == /\ Init /\ [][Next]_vars
        /\ WF_vars(DetailEffect)
        /\ WF_vars(\E r \in replies : Answer(r))
        /\ WF_vars(Network)
-----------------------------------------------------------------------------
Numbers == 1..Len(reports)
TypeOK ==
  /\ reports \in Seq(Good) /\ Len(reports) <= MaxReports
  /\ \A i \in DOMAIN list : list[i] \in Numbers
  /\ {sel, rep} \subseteq Numbers \cup {0}
  /\ detail \in {"idle", "loading", "ready", "error"}
  /\ {loading, loadError, due, importOpen, canImport} \subseteq BOOLEAN
  /\ file \in Files \cup {None}
  /\ errors.kind \in {"none", "upload", "validation"}
  /\ acts \in 0..MaxActs

(* Once the effects have run, the report shown is the one selected, and an *)
(* error is only shown of a load that failed: whatever order an import,    *)
(* the answers of older selections and Back come in.                       *)
DetailIsSelected ==
  ~due => /\ DetailView = "report" => rep = sel
          /\ DetailView = "error" => detail = "error"
          /\ sel = 0 => rep = 0

(* Validation errors on the page are those of the chosen file, and a       *)
(* success leaves none behind.                                             *)
ErrorsOfChosenFile == ErrorsShown = "validation" => errors.of = file

(* A selected report is neither shown nor reported as failed.              *)
Waiting == DetailView = "loading"
(* Whatever becomes of the requests, the page comes to rest again and      *)
(* again.                                                                  *)
ComesToRest == []<>~Waiting
-----------------------------------------------------------------------------
(* Violated.  A report imported here is in the list, once: the list the    *)
(* page asked for at first may arrive after the import and replace it, or  *)
(* before its answer and hold it already.                                  *)
ListedOnce == ~loading => /\ \A i, j \in DOMAIN list : list[i] = list[j] => i = j
                          /\ DetailView = "report" => \E i \in DOMAIN list : list[i] = sel

(* Violated.  "No reports yet" is shown of an empty store: it is shown too *)
(* when the list could not be loaded.                                      *)
EmptyIsEmpty == EmptyShown => reports = <<>> \/ ~loadError
=============================================================================

-------------------------- MODULE DocumentDetail ---------------------------
(***************************************************************************)
(* The record of one Policy Document                                       *)
(* (client/src/policy-documents/DocumentDetail.tsx with its register, its  *)
(* workspace and the drawers that deposit and archive a version).  Every   *)
(* change is followed by a load of all versions that nothing cancels; the  *)
(* summary handed down by the catalogue is not loaded again.  A drawer     *)
(* covers the page for a pointer only: what is drawn can be reached.       *)
(* The Document Versions are numbered as they are created.  A document     *)
(* that the catalogue opens has a version, and the user is an admin.       *)
(***************************************************************************)
EXTENDS Naturals, FiniteSets

CONSTANTS None,
          InitVersions,   \* versions when the page opens
          MaxVersions,    \* bound on the versions
          MaxActs,        \* bound on uploads, archivings and downloads
          MaxOthers       \* bound on what other users do

VersionAssumption == InitVersions \in Nat \ {0} /\ InitVersions <= MaxVersions

Tabs == {"active", "archived"}

VARIABLES last,     \* server: versions 1 to last exist
          deleted,  \* server: those archived
          summary,  \* latest version when the catalogue was loaded, or None
          status,
          versions, \* as loaded: last and deleted
          tab, selected,
          loads,    \* [number, value, archive]: read or None, awaited by an archiving
          upload,   \* the drawer: open, file, uploading, error
          success,  \* the version the page says it registered, or None
          dialog,   \* archiving, reason, of (the version it was typed for), error, busy
          download, \* busy, failed
          calls,    \* uploads, deletions and downloads in flight: [kind, of, by, got]
          wizard,   \* the re-ingestion drawer: closed, open or done
          told,     \* history: uploads and deletions the page was told of
          acts, others
server == <<last, deleted>>
register == <<status, versions, tab, selected, loads>>
vars == <<last, deleted, summary, status, versions, tab, selected, loads, upload,
          success, dialog, download, calls, wizard, told, acts, others>>

Newest(S) == IF S = {} THEN None ELSE CHOOSE v \in S : \A w \in S : w <= v
All(vs) == 1..vs.last
activeVersions(vs) == All(vs) \ vs.deleted
archivedVersions(vs) == All(vs) \cap vs.deleted
displayedVersions(vs, t) ==
  IF t = "active" THEN activeVersions(vs) ELSE archivedVersions(vs)
latestVersionId(vs) == IF summary # None THEN summary ELSE Newest(activeVersions(vs))
showAdminActions(st) == st = "ready"

pickDefaultVersionId(S, preferred) == IF preferred \in S THEN preferred ELSE Newest(S)
(* The effect that picks the version shown.                                *)
SelectEffect(vs, t, current) ==
  pickDefaultVersionId(displayedVersions(vs, t),
    IF t = "active" /\ latestVersionId(vs) # None THEN latestVersionId(vs) ELSE current)

NewUpload == [open |-> FALSE, file |-> FALSE, uploading |-> FALSE, error |-> FALSE]
(* The drawer is reset whenever it is not shown.                           *)
Drawn(st, u) == IF u.open /\ showAdminActions(st) THEN u ELSE [NewUpload EXCEPT !.open = u.open]
Closed == [archiving |-> None, reason |-> FALSE, of |-> None, error |-> {}, busy |-> FALSE]
-----------------------------------------------------------------------------
Init ==
  /\ last = InitVersions
  /\ deleted \in {{}, {1}} /\ deleted # 1..last
  /\ summary \in {None, Newest((1..last) \ deleted)}
  /\ status = "loading"
  /\ versions = [last |-> 0, deleted |-> {}]
  /\ tab = "active" /\ selected = None
  /\ loads = {[number |-> 0, value |-> None, archive |-> FALSE]}
  /\ upload = NewUpload /\ success = None
  /\ dialog = Closed
  /\ download = [busy |-> None, failed |-> {}]
  /\ calls = {} /\ wizard = "closed"
  /\ told = [uploaded |-> {}, deleted |-> {}]
  /\ acts = 0 /\ others = 0

OtherUser ==
  /\ others < MaxOthers
  /\ others' = others + 1
  /\ \/ last < MaxVersions /\ last' = last + 1 /\ UNCHANGED deleted
     \/ \E v \in (1..last) \ deleted : deleted' = deleted \cup {v} /\ UNCHANGED last
  /\ UNCHANGED <<summary, register, upload, success, dialog, download, calls,
                 wizard, told, acts>>
-----------------------------------------------------------------------------
(* loadVersions.                                                           *)
LoadNumber == CHOOSE n \in 0..Cardinality(loads) : \A r \in loads : r.number # n
loadVersions(archive) ==
  /\ status' = "loading"
  /\ loads' = loads \cup {[number |-> LoadNumber, value |-> None, archive |-> archive]}

ReadVersions ==
  /\ \E r \in loads :
       /\ r.value = None
       /\ loads' = (loads \ {r}) \cup
                   {[r EXCEPT !.value = [last |-> last, deleted |-> deleted]]}
  /\ UNCHANGED <<server, summary, status, versions, tab, selected, upload, success,
                 dialog, download, calls, wizard, told, acts, others>>

VersionsArrive ==
  /\ \E r \in loads :
       /\ r.value # None
       /\ loads' = loads \ {r}
       /\ versions' = r.value
       /\ selected' = SelectEffect(r.value, tab, selected)
       /\ dialog' = IF r.archive THEN [dialog EXCEPT !.busy = FALSE] ELSE dialog
  /\ status' = "ready"
  /\ UNCHANGED <<server, summary, tab, upload, success, download, calls, wizard,
                 told, acts, others>>

StillLoading(st) == st \* mutant: the catch block forgets the status
AfterFailure(st) == "error"
LoadFails ==
  /\ \E r \in loads :
       /\ loads' = loads \ {r}
       /\ dialog' = IF r.archive THEN [dialog EXCEPT !.busy = FALSE] ELSE dialog
  /\ status' = AfterFailure(status)
  /\ upload' = Drawn(status', upload)
  /\ UNCHANGED <<server, summary, versions, tab, selected, success, download, calls,
                 wizard, told, acts, others>>

handleVersionTabChange ==
  /\ status = "ready"
  /\ \E t \in Tabs \ {tab} :
       LET preferred == IF t = "active" THEN latestVersionId(versions) ELSE selected IN
       /\ tab' = t
       /\ selected' = SelectEffect(versions, t,
            pickDefaultVersionId(displayedVersions(versions, t), preferred))
  /\ UNCHANGED <<server, summary, status, versions, loads, upload, success, dialog,
                 download, calls, wizard, told, acts, others>>

onSelectVersion ==
  /\ status = "ready"
  /\ selected' \in displayedVersions(versions, tab)
  /\ UNCHANGED <<server, summary, status, versions, tab, loads, upload, success,
                 dialog, download, calls, wizard, told, acts, others>>
-----------------------------------------------------------------------------
(* A new version.                                                          *)
NewVersion ==
  /\ showAdminActions(status)
  /\ upload' = [upload EXCEPT !.open = TRUE]
  /\ success' = None
  /\ UNCHANGED <<server, summary, register, dialog, download, calls, wizard, told,
                 acts, others>>

UploadShown == showAdminActions(status) /\ upload.open
onCloseUpload ==
  /\ UploadShown /\ ~upload.uploading
  /\ upload' = NewUpload
  /\ UNCHANGED <<server, summary, register, success, dialog, download, calls, wizard,
                 told, acts, others>>

(* A file of another format is dropped with a message.                     *)
handleFileChange ==
  /\ UploadShown /\ ~upload.uploading
  /\ \E accepted \in BOOLEAN :
       upload' = [upload EXCEPT !.file = accepted, !.error = ~accepted]
  /\ UNCHANGED <<server, summary, register, success, dialog, download, calls, wizard,
                 told, acts, others>>

Call(kind, of) == [kind |-> kind, of |-> of, by |-> acts, reasonOf |-> dialog.of,
                   got |-> "pending"]
handleSubmit ==
  /\ UploadShown /\ upload.file /\ ~upload.uploading
  /\ acts < MaxActs
  /\ acts' = acts + 1
  /\ upload' = [upload EXCEPT !.uploading = TRUE, !.error = FALSE]
  /\ calls' = calls \cup {Call("upload", None)}
  /\ UNCHANGED <<server, summary, register, success, dialog, download, wizard, told,
                 others>>

handleVersionUploaded(v) ==
  /\ upload' = NewUpload
  /\ success' = v
  /\ tab' = "active"
  /\ selected' = v
  /\ told' = [told EXCEPT !.uploaded = @ \cup {v}]
  /\ loadVersions(FALSE)
-----------------------------------------------------------------------------
(* Archiving.                                                              *)
NoReason(d) == FALSE
openArchiveDrawer ==
  /\ status = "ready"
  /\ selected \in activeVersions(versions)
  /\ dialog' = [dialog EXCEPT !.archiving = selected, !.reason = NoReason(dialog),
                              !.error = @ \ {selected}]
  /\ UNCHANGED <<server, summary, register, upload, success, download, calls, wizard,
                 told, acts, others>>

DialogShown == dialog.archiving \in All(versions)
onCancel ==
  /\ DialogShown /\ ~dialog.busy
  /\ dialog' = [dialog EXCEPT !.archiving = None, !.reason = FALSE]
  /\ UNCHANGED <<server, summary, register, upload, success, download, calls, wizard,
                 told, acts, others>>

onReasonChange ==
  /\ DialogShown /\ ~dialog.busy
  /\ \E given \in BOOLEAN :
       dialog' = [dialog EXCEPT !.reason = given, !.of = dialog.archiving]
  /\ UNCHANGED <<server, summary, register, upload, success, download, calls, wizard,
                 told, acts, others>>

handleArchiveConfirm ==
  /\ DialogShown /\ ~dialog.busy
  /\ dialog.archiving \in activeVersions(versions)
  /\ IF ~dialog.reason
     THEN /\ dialog' = [dialog EXCEPT !.error = @ \cup {dialog.archiving}]
          /\ UNCHANGED <<calls, acts>>
     ELSE /\ acts < MaxActs
          /\ acts' = acts + 1
          /\ dialog' = [dialog EXCEPT !.busy = TRUE, !.error = @ \ {dialog.archiving}]
          /\ calls' = calls \cup {Call("delete", dialog.archiving)}
  /\ UNCHANGED <<server, summary, register, upload, success, download, wizard, told,
                 others>>

Archived(v) ==
  /\ dialog' = [dialog EXCEPT !.archiving = None, !.reason = FALSE]
  /\ tab' = "archived"
  /\ selected' = v
  /\ told' = [told EXCEPT !.deleted = @ \cup {v}]
  /\ loadVersions(TRUE)
-----------------------------------------------------------------------------
handleDownload ==
  /\ status = "ready"
  /\ selected \in activeVersions(versions)
  /\ download.busy # selected
  /\ acts < MaxActs
  /\ acts' = acts + 1
  /\ download' = [busy |-> selected, failed |-> download.failed \ {selected}]
  /\ calls' = calls \cup {Call("download", selected)}
  /\ UNCHANGED <<server, summary, register, upload, success, dialog, wizard, told,
                 others>>

(* The server.  A deposit may fail the quality gates, a deletion the       *)
(* retention; what is archived is neither archived again nor handed out.   *)
Serve ==
  /\ \E c \in calls :
       /\ c.got = "pending"
       /\ \/ /\ c.kind = "upload" /\ last < MaxVersions
             /\ last' = last + 1
             /\ calls' = (calls \ {c}) \cup {[c EXCEPT !.got = "done", !.of = last + 1]}
             /\ UNCHANGED deleted
          \/ /\ c.kind = "delete" /\ c.of \notin deleted
             /\ deleted' = deleted \cup {c.of}
             /\ calls' = (calls \ {c}) \cup {[c EXCEPT !.got = "done"]}
             /\ UNCHANGED last
          \/ /\ c.kind = "download" /\ c.of \notin deleted
             /\ calls' = (calls \ {c}) \cup {[c EXCEPT !.got = "done"]}
             /\ UNCHANGED server
  /\ UNCHANGED <<summary, register, upload, success, dialog, download, wizard, told,
                 acts, others>>

Answered(kind) == {c \in calls : c.kind = kind /\ c.got = "done"}
UploadArrives ==
  /\ \E c \in Answered("upload") :
       calls' = calls \ {c} /\ handleVersionUploaded(c.of)
  /\ UNCHANGED <<server, summary, versions, dialog, download, wizard, acts, others>>
DeleteArrives ==
  /\ \E c \in Answered("delete") : calls' = calls \ {c} /\ Archived(c.of)
  /\ upload' = Drawn("loading", upload)
  /\ UNCHANGED <<server, summary, versions, success, download, wizard, acts, others>>
DownloadArrives ==
  /\ \E c \in Answered("download") : calls' = calls \ {c}
  /\ download' = [download EXCEPT !.busy = None]
  /\ UNCHANGED <<server, summary, register, upload, success, dialog, wizard, told,
                 acts, others>>

(* Refused, or the answer is lost.                                         *)
CallFails ==
  /\ \E c \in calls :
       /\ calls' = calls \ {c}
       /\ upload' = IF c.kind = "upload"
                    THEN [upload EXCEPT !.uploading = FALSE, !.error = TRUE]
                    ELSE upload
       /\ dialog' = IF c.kind = "delete"
                    THEN [dialog EXCEPT !.busy = FALSE, !.error = @ \cup {c.of}]
                    ELSE dialog
       /\ download' = IF c.kind = "download"
                      THEN [busy |-> None, failed |-> download.failed \cup {c.of}]
                      ELSE download
  /\ UNCHANGED <<server, summary, register, success, wizard, told, acts, others>>

(* The re-ingestion drawer, and what it calls back once a version was      *)
(* deposited, extracted and compared.                                      *)
OpenReingestion ==
  /\ showAdminActions(status)
  /\ wizard' = IF wizard = "closed" THEN "open" ELSE wizard
  /\ UNCHANGED <<server, summary, register, upload, success, dialog, download, calls,
                 told, acts, others>>
CloseReingestion ==
  /\ wizard # "closed" /\ wizard' = "closed"
  /\ UNCHANGED <<server, summary, register, upload, success, dialog, download, calls,
                 told, acts, others>>
onCompleted ==
  /\ wizard = "open" /\ wizard' = "done"
  /\ acts < MaxActs /\ last < MaxVersions
  /\ acts' = acts + 1
  /\ last' = last + 1
  /\ told' = [told EXCEPT !.uploaded = @ \cup {last + 1}]
  /\ loadVersions(FALSE)
  /\ upload' = Drawn("loading", upload)
  /\ UNCHANGED <<deleted, summary, versions, tab, selected, success, dialog, download,
                 calls, others>>
-----------------------------------------------------------------------------
Next ==
  \/ OtherUser \/ ReadVersions \/ VersionsArrive \/ LoadFails
  \/ handleVersionTabChange \/ onSelectVersion
  \/ NewVersion \/ onCloseUpload \/ handleFileChange \/ handleSubmit
  \/ openArchiveDrawer \/ onCancel \/ onReasonChange \/ handleArchiveConfirm
  \/ handleDownload \/ Serve \/ UploadArrives \/ DeleteArrives \/ DownloadArrives
  \/ CallFails \/ OpenReingestion \/ CloseReingestion \/ onCompleted

Spec == Init /\ [][Next]_vars
(* A request is answered or fails.                                         *)
FairSpec ==
  /\ Spec
  /\ WF_vars(ReadVersions \/ VersionsArrive \/ LoadFails)
  /\ WF_vars(UploadArrives \/ DeleteArrives \/ DownloadArrives \/ CallFails)
-----------------------------------------------------------------------------
(* The variables hold what their comments say; the drawer is in its first  *)
(* state while it is not shown, but for a failure that comes late.         *)
TypeOK ==
  /\ deleted \subseteq 1..last
  /\ status \in {"loading", "ready", "error"}
  /\ versions.last <= last /\ versions.deleted \subseteq deleted
  /\ tab \in Tabs
  /\ selected \in 1..last \cup {None}
  /\ dialog.archiving \in 1..last \cup {None}
  /\ upload.uploading => UploadShown
  /\ \A c \in calls : c.of \in 1..last \cup {None}

(* What the workspace shows is in the tab that is open, and something is   *)
(* shown when the tab is not empty, whoever archived or deposited what     *)
(* between the loads.                                                      *)
SelectedIsDisplayed ==
  status = "ready" =>
    IF displayedVersions(versions, tab) = {} THEN selected = None
    ELSE selected \in displayedVersions(versions, tab)

(* A version is archived for the reason that was typed for it.             *)
ReasonOfItsVersion == \A c \in calls : c.kind = "delete" => c.reasonOf = c.of

(* The page loads, archives or deposits.                                   *)
Waiting == status = "loading" \/ dialog.busy \/ upload.uploading
(* Whatever becomes of the requests, the page comes to rest again and      *)
(* again.                                                                  *)
ComesToRest == []<>~Waiting

(* Violated, as the README says:                                           *)
(* The record calls Latest the newest active version: the summary of the   *)
(* catalogue is older than the list it is shown with.                      *)
LatestIsNewest ==
  status = "ready" /\ activeVersions(versions) # {} =>
    latestVersionId(versions) = Newest(activeVersions(versions))

(* Violated, as the README says:                                           *)
(* DocumentDetail.test.tsx says that an upload and an archiving refresh    *)
(* the ledger: once no load is under way it shows what it was told.        *)
ToldIsShown ==
  status = "ready" /\ loads = {} =>
    told.uploaded \subseteq All(versions) /\ told.deleted \subseteq versions.deleted
=============================================================================

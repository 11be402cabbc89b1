--------------------------- MODULE DocumentCatalog ---------------------------
(***************************************************************************)
(* The register of Policy Documents                                        *)
(* (client/src/policy-documents/DocumentCatalog.tsx), the drawer that      *)
(* registers a document (RegisterDocumentDrawer.tsx) and the record it     *)
(* opens, of which only the loads are here: one DocumentDetail serves      *)
(* whatever document is selected.  A drawer covers the page for a pointer  *)
(* only.  The page returns another tree while it loads and while a record  *)
(* is open: the drawer is unmounted then and what was typed is gone, but   *)
(* a deposit under way calls the catalogue back all the same.              *)
(***************************************************************************)
EXTENDS Naturals, FiniteSets

CONSTANTS None, Docs,
          MaxDeposits,   \* bound on the versions deposited by this user
          MaxOthers      \* bound on those deposited by others

DocAssumption == None \notin Docs

VARIABLES versions,   \* server: [Docs -> Nat], versions of each document
          canUpload,
          status, documents,  \* the list as loaded
          selected,   \* the record that is open, or None
          open,       \* registerDrawerOpen
          form,       \* id, file, error, uploading: the state of the drawer
          lists,      \* loads of the list: [number, value, registered]
          deposits,   \* [number, doc, here, noted, got]: here if its drawer is mounted
          record,     \* status, of: the document whose versions are shown
          records,    \* loads of versions: [number, doc]
          firsts,     \* history: deposits, with whether the id was noted as indexed
          made, others
page == <<status, documents, selected, open, form, lists>>
detail == <<record, records>>
server == <<versions, firsts>>
vars == <<versions, canUpload, status, documents, selected, open, form, lists,
          deposits, record, records, firsts, made, others>>

NewForm == [id |-> None, file |-> FALSE, error |-> FALSE, uploading |-> FALSE]
Blank == [status |-> "none", of |-> None]
Existing == {d \in Docs : versions[d] > 0}
FreeNumber(S) == CHOOSE n \in 0..Cardinality(S) : \A r \in S : r.number # n

DrawerMounted(st, sel) == canUpload /\ sel = None /\ st = "ready"
DrawerShown == DrawerMounted(status, selected) /\ open
(* A deposit whose drawer is gone has only the catalogue to call back.     *)
Left(S) == {[c EXCEPT !.here = FALSE] : c \in S}
-----------------------------------------------------------------------------
NewList(d) == [number |-> FreeNumber(lists), value |-> None, registered |-> d]
Init ==
  /\ versions \in [Docs -> {0, 1}]
  /\ canUpload \in BOOLEAN
  /\ status = "loading" /\ documents = {}
  /\ selected = None /\ open = FALSE /\ form = NewForm
  /\ lists = {[number |-> 0, value |-> None, registered |-> None]}
  /\ deposits = {}
  /\ record = Blank /\ records = {}
  /\ firsts = {}
  /\ made = 0 /\ others = 0

OtherUser ==
  /\ others < MaxOthers
  /\ others' = others + 1
  /\ \E d \in Docs : versions' = [versions EXCEPT ![d] = @ + 1]
  /\ UNCHANGED <<canUpload, page, deposits, detail, firsts, made>>
-----------------------------------------------------------------------------
(* DocumentDetail under the documentId it is given: the effect loads the   *)
(* versions when it is mounted and when the id changes, and cancels        *)
(* nothing while it stays mounted.                                         *)
Show(d) ==
  /\ selected' = d
  /\ IF d = None
     THEN record' = Blank /\ records' = {}
     ELSE IF d = selected
     THEN UNCHANGED detail
     ELSE /\ record' = [record EXCEPT !.status = "loading"]
          /\ records' = records \cup {[number |-> FreeNumber(records), doc |-> d]}

RecordArrives ==
  /\ \E r \in records :
       /\ records' = records \ {r}
       /\ record' = [status |-> "ready", of |-> r.doc]
  /\ UNCHANGED <<server, canUpload, page, deposits, made, others>>
RecordFails ==
  /\ \E r \in records : records' = records \ {r}
  /\ record' = [record EXCEPT !.status = "error"]
  /\ UNCHANGED <<server, canUpload, page, deposits, made, others>>

onBack ==
  /\ selected # None
  /\ Show(None)
  /\ UNCHANGED <<server, canUpload, status, documents, open, form, lists, deposits,
                 made, others>>

OpenRow ==
  /\ selected = None /\ status = "ready"
  /\ \E d \in documents : Show(d)
  /\ form' = NewForm
  /\ deposits' = Left(deposits)
  /\ UNCHANGED <<server, canUpload, status, documents, open, lists, made, others>>
-----------------------------------------------------------------------------
(* The list.  Once it is there an admin without documents is offered the   *)
(* drawer; once it is there or failed, what was registered is opened.      *)
ReadList ==
  /\ \E r \in lists :
       /\ r.value = None
       /\ lists' = (lists \ {r}) \cup {[r EXCEPT !.value = Existing]}
  /\ UNCHANGED <<server, canUpload, status, documents, selected, open, form, deposits,
                 detail, made, others>>

OpensItself(st, docs) ==
  /\ canUpload /\ docs = {}
  /\ st # "ready" \/ documents # {}

handleDocumentRegistered(d) ==
  IF d = None THEN UNCHANGED <<selected, detail>> ELSE Show(d)

ListArrives ==
  /\ \E r \in lists :
       /\ r.value # None
       /\ lists' = lists \ {r}
       /\ status' = "ready" /\ documents' = r.value
       /\ open' = IF r.registered # None THEN FALSE
                  ELSE open \/ OpensItself(status, r.value)
       /\ handleDocumentRegistered(r.registered)
  /\ IF DrawerMounted(status', selected')
     THEN UNCHANGED <<form, deposits>>
     ELSE form' = NewForm /\ deposits' = Left(deposits)
  /\ UNCHANGED <<server, canUpload, made, others>>

AfterFailure(st) == "error"
ListFails ==
  /\ \E r \in lists :
       /\ lists' = lists \ {r}
       /\ status' = AfterFailure(status)
       /\ open' = (open /\ r.registered = None)
       /\ handleDocumentRegistered(r.registered)
  /\ form' = NewForm
  /\ deposits' = Left(deposits)
  /\ UNCHANGED <<server, canUpload, documents, made, others>>
-----------------------------------------------------------------------------
(* The drawer.  It is toggled by the toolbar, which an empty list does not *)
(* have, and closed by Escape, its backdrop and its head unless it is      *)
(* uploading.  Closed, it forgets what it held.                            *)
KeptForm(f) == f \* mutant: nothing is reset when it closes
Reset(f) == NewForm
Toggle ==
  /\ canUpload /\ selected = None /\ status = "ready" /\ documents # {}
  /\ open' = ~open
  /\ form' = IF open THEN Reset(form) ELSE form
  /\ UNCHANGED <<server, canUpload, status, documents, selected, lists, deposits,
                 detail, made, others>>
onClose ==
  /\ DrawerShown /\ ~form.uploading
  /\ open' = FALSE /\ form' = Reset(form)
  /\ UNCHANGED <<server, canUpload, status, documents, selected, lists, deposits,
                 detail, made, others>>

Fill ==
  /\ DrawerShown /\ ~form.uploading
  /\ \/ \E d \in Docs \cup {None} : form' = [form EXCEPT !.id = d, !.error = FALSE]
     \/ \E accepted \in BOOLEAN : form' = [form EXCEPT !.file = accepted, !.error = ~accepted]
     \/ form' = NewForm
  /\ UNCHANGED <<server, canUpload, status, documents, selected, open, lists, deposits,
                 detail, made, others>>

handleSubmit ==
  /\ DrawerShown /\ ~form.uploading /\ form.file /\ form.id # None
  /\ made < MaxDeposits
  /\ made' = made + 1
  /\ form' = [form EXCEPT !.uploading = TRUE, !.error = FALSE]
  /\ deposits' = deposits \cup
       {[number |-> FreeNumber(deposits), doc |-> form.id, here |-> TRUE,
         noted |-> form.id \in documents, got |-> "pending"]}
  /\ UNCHANGED <<server, canUpload, status, documents, selected, open, lists, detail,
                 others>>

(* The server appends a version to whatever the id names.                  *)
Serve ==
  /\ \E c \in deposits :
       /\ c.got = "pending"
       /\ versions' = [versions EXCEPT ![c.doc] = @ + 1]
       /\ firsts' = firsts \cup {[doc |-> c.doc, noted |-> c.noted,
                                  first |-> versions[c.doc] = 0]}
       /\ deposits' = (deposits \ {c}) \cup {[c EXCEPT !.got = "done"]}
  /\ UNCHANGED <<canUpload, page, detail, made, others>>

DepositArrives ==
  /\ \E c \in deposits :
       /\ c.got = "done"
       /\ deposits' = Left(deposits \ {c})
       /\ lists' = lists \cup {NewList(c.doc)}
  /\ status' = "loading"
  /\ form' = NewForm
  /\ UNCHANGED <<server, canUpload, documents, selected, open, detail, made, others>>

(* Refused, or the answer is lost.  A drawer that was closed and opened    *)
(* meanwhile is the same one.                                              *)
DepositFails ==
  /\ \E c \in deposits :
       /\ deposits' = deposits \ {c}
       /\ form' = IF c.here THEN [form EXCEPT !.uploading = FALSE, !.error = TRUE]
                  ELSE form
  /\ UNCHANGED <<server, canUpload, status, documents, selected, open, lists, detail,
                 made, others>>
-----------------------------------------------------------------------------
Next ==
  \/ OtherUser \/ RecordArrives \/ RecordFails \/ onBack \/ OpenRow
  \/ ReadList \/ ListArrives \/ ListFails
  \/ Toggle \/ onClose \/ Fill \/ handleSubmit
  \/ Serve \/ DepositArrives \/ DepositFails

Spec == Init /\ [][Next]_vars
(* A request is answered or fails.                                         *)
FairSpec ==
  /\ Spec
  /\ WF_vars(ReadList \/ ListArrives \/ ListFails)
  /\ WF_vars(DepositArrives \/ DepositFails)
  /\ WF_vars(RecordArrives \/ RecordFails)
-----------------------------------------------------------------------------
(* The variables hold what their comments say; the drawer holds something  *)
(* only while it is mounted, and is uploading only if a deposit is.        *)
TypeOK ==
  /\ versions \in [Docs -> Nat]
  /\ status \in {"loading", "ready", "error"}
  /\ documents \subseteq Existing
  /\ selected \in Docs \cup {None}
  /\ form.id \in Docs \cup {None}
  /\ form # NewForm => DrawerMounted(status, selected)
  /\ form.uploading => open /\ \E c \in deposits : c.here
  /\ record.status \in {"none", "loading", "ready", "error"}
  /\ record.of \in Docs \cup {None}
  /\ \A r \in records : r.doc \in Docs
  /\ selected = None <=> record.status = "none"

(* However often it was toggled, replaced or unmounted, a drawer that      *)
(* appears is empty and ready for a registration.                          *)
AppearsEmpty ==
  [][~DrawerShown /\ DrawerShown' =>
       form'.id = None /\ ~form'.file /\ ~form'.uploading]_vars

(* List, record or drawer are busy.                                        *)
Waiting == "loading" \in {status, record.status} \/ form.uploading
(* Whatever becomes of the requests, the page comes to rest again and      *)
(* again.                                                                  *)
ComesToRest == []<>~Waiting

(* Violated.  The page tells an admin without documents to register one    *)
(* (DocumentCatalog.tsx:91): the drawer is there, or can be opened.        *)
CanRegister ==
  canUpload /\ selected = None /\ status = "ready" =>
    DrawerShown \/ ENABLED Toggle

(* Violated.  The record is the record of the document in its title.       *)
RecordIsOfSelected == record.status = "ready" => record.of = selected

(* Violated.  The drawer deposits the first version of a document, or says *)
(* that the id is indexed already (RegisterDocumentDrawer.tsx:141).        *)
FirstOrNoted == \A f \in firsts : f.first \/ f.noted
=============================================================================

---------------------------- MODULE DocumentPages ----------------------------
(* The shell and the pages on documents and Policy Versions.  The shell    *)
(* mounts one page at a time and a page shares no state with another, so   *)
(* every behaviour is that of one page, which is chosen initially.  Pages  *)
(* whose state has the same name share a variable; the variables of the    *)
(* pages that are not mounted hold None.                                   *)
EXTENDS VersionExtraction, Sequences
CONSTANTS SwitchClock, SwitchSubmits, SwitchOthers, SwitchEdits, SwitchLoads,
                                            \* of the extraction page again
          Docs, MaxDeposits, CatalogOthers, \* of the register
          InitVersions, MaxVersions, MaxActs, DetailOthers, \* of the record
          Typed, Files, Prompts, Models, MaxSecond, MaxWizards,
          MaxReingestions,                  \* of the wizard
          Ids, Published, Role, MaxVisits, MaxPublishes,
          PublicationOthers,                \* of the Policy Versions
          Tokens, RolesOf, Runs, MaxSessions, Sections \* of the shell
VARIABLES mounted,
          versions, canUpload, documents, lists, deposits, record, records,
          firsts, status, selected, open, last, deleted, summary, tab, upload,
          success, dialog, download, wizard, told, acts, calls, second,
          locked, heard, number, phase, stage, result, halted, published, sets, list,
          posts, kept, detail, reply, jobs, visits, publishes, principal,
          token, asking, active, scope, tour, session

(* The extraction page again, under other bounds.                          *)
VX == INSTANCE VersionExtraction WITH
        MaxSubmits <- SwitchSubmits, MaxOthers <- SwitchOthers,
        MaxEdits <- SwitchEdits, MaxLoads <- SwitchLoads, MaxClock <- SwitchClock
DC == INSTANCE DocumentCatalog WITH MaxOthers <- CatalogOthers
DD == INSTANCE DocumentDetail WITH MaxOthers <- DetailOthers
RW == INSTANCE ReingestionWizard WITH MaxSubmits <- MaxReingestions
PV == INSTANCE PolicyVersionPages WITH MaxOthers <- PublicationOthers
AS == INSTANCE AppShell
ASSUME PagesAssumption ==
  /\ SwitchClock \in Nat
  /\ DC!DocAssumption /\ DD!VersionAssumption
  /\ RW!BoundAssumption /\ RW!RunAssumption /\ PV!IdAssumption
  /\ AS!SectionAssumption /\ AS!RoleAssumption /\ AS!TokenAssumption
-----------------------------------------------------------------------------
Extraction == {"extraction", "switching"}
Pages == Extraction \cup {"catalog", "detail", "wizard", "versions", "shell"}
Unmounted ==
  /\ mounted \notin {"extraction", "switching", "wizard"} =>
       /\ runs = None /\ registry = None /\ submits = None
  /\ mounted \notin {"extraction", "switching"} =>
       /\ clock = None /\ archived = None /\ sel = None /\ history = None
       /\ edits = None
  /\ mounted \notin {"extraction", "switching", "catalog", "wizard", "versions"} =>
       form = None
  /\ mounted \notin {"extraction", "switching", "detail", "versions"} =>
       loads = None
  /\ mounted \notin {"extraction", "switching", "catalog", "versions"} =>
       made = None
  /\ mounted \notin {"extraction", "switching", "catalog", "detail", "versions"} =>
       others = None
  /\ mounted \notin {"catalog", "detail"} => versions = None
  /\ mounted # "catalog" =>
       /\ canUpload = None /\ documents = None /\ lists = None
       /\ deposits = None /\ record = None /\ records = None /\ firsts = None
  /\ mounted \notin {"catalog", "detail", "shell"} => status = None
  /\ mounted \notin {"catalog", "detail", "versions"} => selected = None
  /\ mounted \notin {"catalog", "wizard", "versions"} => open = None
  /\ mounted # "detail" =>
       /\ last = None /\ deleted = None /\ summary = None /\ tab = None
       /\ upload = None /\ success = None /\ dialog = None /\ download = None
       /\ wizard = None /\ told = None /\ acts = None
  /\ mounted \notin {"detail", "wizard"} => calls = None
  /\ mounted # "wizard" =>
       /\ second = None /\ locked = None /\ heard = None /\ number = None
       /\ phase = None
       /\ stage = None /\ result = None /\ halted = None
  /\ mounted # "versions" =>
       /\ published = None /\ sets = None /\ list = None /\ posts = None
       /\ kept = None /\ detail = None /\ reply = None /\ jobs = None
       /\ visits = None /\ publishes = None
  /\ mounted # "shell" =>
       /\ principal = None /\ token = None /\ asking = None /\ active = None
       /\ scope = None /\ tour = None /\ session = None

PagesInit ==
  /\ mounted \in Pages
  /\ Unmounted
  /\ CASE mounted = "extraction" -> Init
       [] mounted = "switching"  -> VX!Init
       [] mounted = "catalog"    -> DC!Init
       [] mounted = "detail"     -> DD!Init
       [] mounted = "wizard"     -> RW!Init
       [] mounted = "versions"   -> PV!Init
       [] mounted = "shell"      -> AS!Init

Kept ==
  /\ mounted \notin {"extraction", "switching", "wizard"} =>
       UNCHANGED <<runs, registry, submits>>
  /\ mounted \notin {"extraction", "switching"} =>
       UNCHANGED <<clock, archived, sel, history, edits>>
  /\ mounted \notin {"extraction", "switching", "catalog", "wizard", "versions"} => UNCHANGED form
  /\ mounted \notin {"extraction", "switching", "detail", "versions"} => UNCHANGED loads
  /\ mounted \notin {"extraction", "switching", "catalog", "versions"} => UNCHANGED made
  /\ mounted \notin {"extraction", "switching", "catalog", "detail", "versions"} => UNCHANGED others
  /\ mounted \notin {"catalog", "detail"} => UNCHANGED versions
  /\ mounted # "catalog" =>
       UNCHANGED <<canUpload, documents, lists, deposits, record, records,
                   firsts>>
  /\ mounted \notin {"catalog", "detail", "shell"} => UNCHANGED status
  /\ mounted \notin {"catalog", "detail", "versions"} => UNCHANGED selected
  /\ mounted \notin {"catalog", "wizard", "versions"} => UNCHANGED open
  /\ mounted # "detail" =>
       UNCHANGED <<last, deleted, summary, tab, upload, success, dialog,
                   download, wizard, told, acts>>
  /\ mounted \notin {"detail", "wizard"} => UNCHANGED calls
  /\ mounted # "wizard" =>
       UNCHANGED <<second, locked, heard, number, phase, stage, result, halted>>
  /\ mounted # "versions" =>
       UNCHANGED <<published, sets, list, posts, kept, detail, reply, jobs,
                   visits, publishes>>
  /\ mounted # "shell" =>
       UNCHANGED <<principal, token, asking, active, scope, tour, session>>

PagesNext ==
  /\ UNCHANGED mounted
  /\ Kept
  /\ \/ mounted = "extraction" /\ Next
     \/ mounted = "switching"  /\ VX!Next
     \/ mounted = "catalog"    /\ DC!Next
     \/ mounted = "detail"     /\ DD!Next
     \/ mounted = "wizard"     /\ RW!Next
     \/ mounted = "versions"   /\ PV!Next
     \/ mounted = "shell"      /\ AS!Next

pageVars ==
  <<mounted, runs, registry, submits, clock, archived, sel, history, edits, form,
    loads, made, others, versions, canUpload, documents, lists, deposits,
    record, records, firsts, status, selected, open, last, deleted, summary,
    tab, upload, success, dialog, download, wizard, told, acts, calls, second,
    locked, heard, number, phase, stage, result, halted, published, sets, list,
    posts, kept, detail, reply, jobs, visits, publishes, principal, token,
    asking, active, scope, tour, session>>
dcVars == DC!vars
ddVars == DD!vars
rwVars == RW!vars
pvVars == PV!vars
asVars == AS!vars
(* The fairness of each page: requests are answered or fail, effects run.  *)
PagesSpec ==
  /\ PagesInit /\ [][PagesNext]_pageVars
  /\ WF_vars(mounted \in Extraction /\ Registry)
  /\ WF_vars(mounted \in Extraction /\ Serve)
  /\ WF_vars(mounted \in Extraction /\ (Succeeds \/ Fails))
  /\ WF_vars(mounted \in Extraction /\ ReadHistory)
  /\ WF_vars(mounted \in Extraction /\ (HistoryArrives \/ HistoryFails))
  /\ WF_dcVars(mounted = "catalog" /\ (DC!ReadList \/ DC!ListArrives \/ DC!ListFails))
  /\ WF_dcVars(mounted = "catalog" /\ (DC!DepositArrives \/ DC!DepositFails))
  /\ WF_dcVars(mounted = "catalog" /\ (DC!RecordArrives \/ DC!RecordFails))
  /\ WF_ddVars(mounted = "detail"
       /\ (DD!ReadVersions \/ DD!VersionsArrive \/ DD!LoadFails))
  /\ WF_ddVars(mounted = "detail" /\ (\/ DD!UploadArrives \/ DD!DeleteArrives
                                      \/ DD!DownloadArrives \/ DD!CallFails))
  /\ WF_rwVars(mounted = "wizard" /\ (RW!RegistryArrives \/ RW!RegistryFails))
  /\ WF_rwVars(mounted = "wizard" /\ (RW!Completes \/ RW!Fails))
  /\ WF_rwVars(mounted = "wizard" /\ RW!LockEffect)
  /\ WF_rwVars(mounted = "wizard" /\ RW!ListenerEffect)
  /\ WF_pvVars(mounted = "versions" /\ (PV!ReadList \/ PV!ListArrives \/ PV!ListFails))
  /\ WF_pvVars(mounted = "versions" /\ (PV!PublishArrives \/ PV!PublishFails))
  /\ WF_pvVars(mounted = "versions"
       /\ (PV!ReadVersion \/ PV!VersionArrives \/ PV!VersionFails))
  /\ WF_pvVars(mounted = "versions" /\ PV!JobEnds)
  /\ WF_asVars(mounted = "shell" /\ AS!Boot)
  /\ WF_asVars(mounted = "shell" /\ (AS!Accepted \/ AS!Rejected))
-----------------------------------------------------------------------------
(* The state of the page that is mounted is of its types.                  *)
PagesTypeOK ==
  CASE mounted = "extraction" -> TypeOK
    [] mounted = "switching"  -> VX!TypeOK
    [] mounted = "catalog"    -> DC!TypeOK
    [] mounted = "detail"     -> DD!TypeOK
    [] mounted = "wizard"     -> RW!TypeOK
    [] mounted = "versions"   -> PV!TypeOK
    [] mounted = "shell"      -> AS!TypeOK

(* What a page shows is what was opened on it: the version selected is one *)
(* that is displayed, a wizard reports its own run, a version page has the *)
(* snapshot of its version and a Compiled Rule Set the server keeps, of    *)
(* that version or of one it was still compiling when that version was     *)
(* opened, a section opens with a run of its own session, and the tour is  *)
(* at a step there is.                                                     *)
ShownIsOpened ==
  CASE mounted = "detail"   -> DD!SelectedIsDisplayed
    [] mounted = "wizard"   -> RW!ResultIsOfThisWizard
    [] mounted = "versions" -> PV!DetailIsSelected /\ PV!SetIsServers
    [] mounted = "shell"    -> AS!ScopeIsOwn /\ AS!RailStepExists
    [] OTHER                -> TRUE

(* What a page told the server and was told by it agree: a retry creates   *)
(* one Extraction Run and its message is about the id in the field, a      *)
(* version is archived for the reason typed for it, a publication is made  *)
(* and listed once, and the session is that of the token.                  *)
AgreesWithServer ==
  CASE mounted = "extraction" -> RetryCreatesOne /\ ExplainedByServer
    [] mounted = "switching"  -> VX!RetryCreatesOne /\ VX!ExplainedByServer
    [] mounted = "detail"     -> DD!ReasonOfItsVersion
    [] mounted = "versions"   ->
         PV!PublishedOnce /\ PV!ListedIsPublished /\ PV!ListedOnce
    [] mounted = "shell"      -> AS!AuthAgrees
    [] OTHER                  -> TRUE

(* A drawer appears empty, and one that has taken the lock of a            *)
(* re-ingestion keeps it until the run ends or the page is left.           *)
DrawersAreSafe ==
  [][/\ mounted = "catalog" /\ ~DC!DrawerShown /\ DC!DrawerShown' =>
          form'.id = None /\ ~form'.file /\ ~form'.uploading
     /\ mounted = "wizard" /\ RW!LockedRun =>
          RW!LockedRun' \/ phase' # "running" \/ number' = number + 1]_pageVars

(* Whatever becomes of the requests, the page mounted comes to rest again  *)
(* and again.                                                              *)
PageWaits ==
  CASE mounted = "extraction" -> Waiting
    [] mounted = "switching"  -> VX!Waiting
    [] mounted = "catalog"    -> DC!Waiting
    [] mounted = "detail"     -> DD!Waiting
    [] mounted = "wizard"     -> RW!Waiting
    [] mounted = "versions"   -> PV!Waiting
    [] mounted = "shell"      -> AS!Waiting
PagesComeToRest == []<>~PageWaits
=============================================================================

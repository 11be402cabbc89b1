------------------------------- MODULE RulePages -------------------------------
(* The pages on which Rules are reviewed and written, one mounted at a     *)
(* time.  The parts of a page that share no state are mounted like pages.  *)
(* What has the same name shares a variable; the variables of the pages    *)
(* that are not mounted hold None.                                         *)
EXTENDS SearchablePicker
CONSTANTS None,
          Candidates, Docs, DocOf, AllDocs, \* of the queue
          Flagged, Changed, Blocked, MaxLoads, MaxDecisions,
          Queue, MaxMounts,                \* of the page of a rule
          Sections, Wide, Spaces, Queries, FoundIn, \* of its source
          EditorWords, Words, ScopeFields, Periods, Currencies, Fragments,
          ExtractedRules, Unresolvable, MaxEdits, \* of its form
          Forms, NotEntered, NotInteger, MaxRules \* of Manual Rules
VARIABLES mounted,
          server, loads, tab, modal, filter, selected, sent, rows, deciding,
          bulk, feedback, mine, overtaken, status, listed, id, mount, effect, shown,
          dirty, sections, saving, resolving, lost, citation, matches, full,
          picked, extracted, rule, edits, draft, answer, errors, pending,
          createdRule, stored

RC == INSTANCE ReviewCatalog WITH Rules <- Candidates
RD == INSTANCE ReviewDetail
SV == INSTANCE SourceView WITH Blank <- Spaces, Found <- FoundIn
RE == INSTANCE RuleEditor WITH
        Words <- EditorWords, Null <- None, Flagged <- Unresolvable
MR == INSTANCE ManualRules WITH Null <- None
ASSUME PagesAssumption ==
  /\ RC!CatalogAssumption /\ RD!QueueAssumption /\ SV!SectionAssumption
  /\ RE!DraftAssumption /\ RE!EditorAssumption
  /\ MR!DraftAssumption /\ MR!ManualAssumption
-----------------------------------------------------------------------------
Pages == {"picker", "list", "review", "source", "editor", "manual"}
Unmounted ==
  /\ mounted # "picker" =>
       /\ free = None /\ all = None /\ options = None /\ value = None
       /\ query = None /\ highlight = None /\ focused = None /\ entered = None
       /\ touched = None
  /\ mounted \notin {"picker", "source"} => open = None
  /\ mounted \notin {"list", "review"} =>
       /\ server = None /\ loads = None /\ tab = None /\ modal = None
  /\ mounted \notin {"list", "source"} =>
       /\ filter = None /\ selected = None
  /\ mounted # "list" =>
       /\ sent = None /\ rows = None /\ deciding = None /\ bulk = None
       /\ feedback = None /\ mine = None /\ overtaken = None
  /\ mounted \notin {"list", "review", "source"} => status = None
  /\ mounted # "review" =>
       /\ listed = None /\ id = None /\ mount = None /\ effect = None
       /\ shown = None /\ dirty = None /\ sections = None /\ saving = None
       /\ resolving = None /\ lost = None
  /\ mounted # "source" =>
       /\ citation = None /\ matches = None /\ full = None /\ picked = None
  /\ mounted # "editor" =>
       /\ extracted = None /\ rule = None /\ edits = None
  /\ mounted \notin {"editor", "manual"} =>
       /\ draft = None /\ answer = None
  /\ mounted # "manual" =>
       /\ errors = None /\ pending = None /\ createdRule = None
       /\ stored = None

PagesInit ==
  /\ mounted \in Pages
  /\ Unmounted
  /\ CASE mounted = "picker" -> Init
       [] mounted = "list"   -> RC!Init
       [] mounted = "review" -> RD!Init
       [] mounted = "source" -> SV!Init
       [] mounted = "editor" -> RE!Init
       [] mounted = "manual" -> MR!Init

Kept ==
  /\ mounted # "picker" =>
       UNCHANGED <<free, all, options, value, query, highlight, focused,
                   entered, touched>>
  /\ mounted \notin {"picker", "source"} => UNCHANGED open
  /\ mounted \notin {"list", "review"} =>
       UNCHANGED <<server, loads, tab, modal>>
  /\ mounted \notin {"list", "source"} =>
       UNCHANGED <<filter, selected>>
  /\ mounted # "list" =>
       UNCHANGED <<sent, rows, deciding, bulk, feedback, mine, overtaken>>
  /\ mounted \notin {"list", "review", "source"} => UNCHANGED status
  /\ mounted # "review" =>
       UNCHANGED <<listed, id, mount, effect, shown, dirty, sections, saving,
                   resolving, lost>>
  /\ mounted # "source" =>
       UNCHANGED <<citation, matches, full, picked>>
  /\ mounted # "editor" =>
       UNCHANGED <<extracted, rule, edits>>
  /\ mounted \notin {"editor", "manual"} =>
       UNCHANGED <<draft, answer>>
  /\ mounted # "manual" =>
       UNCHANGED <<errors, pending, createdRule, stored>>

PagesNext ==
  /\ UNCHANGED mounted
  /\ Kept
  /\ \/ mounted = "picker" /\ Next
     \/ mounted = "list"   /\ RC!Next
     \/ mounted = "review" /\ RD!Next
     \/ mounted = "source" /\ SV!Next
     \/ mounted = "editor" /\ RE!Next
     \/ mounted = "manual" /\ MR!Next

pageVars ==
  <<mounted, free, all, options, value, query, highlight, focused, entered, touched,
    open, server, loads, tab, modal, filter, selected, sent, rows, deciding,
    bulk, feedback, mine, overtaken, status, listed, id, mount, effect, shown, dirty,
    sections, saving, resolving, lost, citation, matches, full, picked,
    extracted, rule, edits, draft, answer, errors, pending, createdRule,
    stored>>
rcVars == RC!vars
rdVars == RD!vars
(* What was requested is answered or fails, and effects run.               *)
PagesSpec ==
  /\ PagesInit /\ [][PagesNext]_pageVars
  /\ WF_rcVars(mounted = "list" /\ (RC!Answers \/ RC!Failures))
  /\ WF_rdVars(mounted = "review" /\ RD!loadReview)
  /\ WF_rdVars(mounted = "review" /\ RD!Arrivals)
-----------------------------------------------------------------------------
(* The state of the page that is mounted is of its types.                  *)
PagesTypeOK ==
  CASE mounted = "picker" -> TypeOK
    [] mounted = "list"   -> RC!TypeOK
    [] mounted = "review" -> RD!TypeOK
    [] mounted = "source" -> SV!TypeOK
    [] mounted = "editor" -> RE!TypeOK
    [] mounted = "manual" -> MR!TypeOK

(* What is decided, picked or read is what is shown: a batch approves low- *)
(* risk rules only and leaves none of them selected; a decided rule is not *)
(* offered again unless a list requested before the decision arrives after *)
(* it; a request of the page names the rule it shows and the next rule is  *)
(* another one; the quote is in view where code points and code units      *)
(* agree, and its context is that of its section; an untouched field keeps *)
(* its value where labels are told apart, and a closed one holds an option.*)
DecidedIsShown ==
  CASE mounted = "picker" -> UntouchedKeeps /\ OnlyOffered
    [] mounted = "list"   -> /\ RC!BulkOnlyLowRisk
                             /\ RC!ApprovedNotSelected
                             /\ RC!DecidedNotOffered
    [] mounted = "review" -> RD!RequestsForShown /\ RD!MovesOn
    [] mounted = "source" -> SV!QuoteInView /\ SV!ContextIsCited
    [] OTHER              -> TRUE

(* A form sends what it shows: a decided rule is stored as the form shows  *)
(* it, a request says all that was typed, what the form lets through the   *)
(* server accepts, a saved form has no unsaved changes, what is marked as  *)
(* changed is counted, and one Rule is created per id (ruleDraft.ts).      *)
FormsSendWhatTheyShow ==
  CASE mounted = "editor" -> /\ RE!DecidedAsShown /\ RE!SavedFormIsClean
                             /\ RE!DivergenceMatchesPayload
                             /\ RE!MarkedIsCounted /\ RE!ApproveIsAccepted
    [] mounted = "manual" -> /\ MR!ValidatedRequestAccepted
                             /\ MR!NothingTypedIsDropped /\ MR!OneRulePerId
    [] OTHER              -> TRUE

(* Whatever becomes of the requests, list and detail come to rest again    *)
(* and again.                                                              *)
PagesComeToRest ==
  []<>~(\/ mounted = "list" /\ RC!Waiting
        \/ mounted = "review" /\ RD!Waiting)
=============================================================================

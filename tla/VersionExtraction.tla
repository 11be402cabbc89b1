-------------------------- MODULE VersionExtraction --------------------------
(***************************************************************************)
(* The extraction part of a document version on the document page          *)
(* (client/src/policy-documents/VersionExtractionWorkspace.tsx): the       *)
(* history of its Extraction Runs and, for a version that is not archived, *)
(* the form that triggers one (extraction-runs/TriggerExtractionRun.tsx),  *)
(* against a server that accepts a run id once.  Selecting another version *)
(* changes the props of one workspace; the form is replaced only when an   *)
(* archived version comes in between.                                      *)
(***************************************************************************)
EXTENDS Naturals, FiniteSets

CONSTANTS None, Versions,
          MaxClock,      \* bound on the seconds that pass
          MaxSubmits,    \* bound on the submissions of this admin
          MaxOthers,     \* bound on the runs of another admin
          MaxEdits,      \* bound on the ids typed
          MaxLoads       \* bound on the loads another version is selected under

ASSUME ExtractionAssumption == None \notin Nat /\ MaxClock \in Nat

VARIABLES runs,      \* server: [id, of, done, epoch]: done unless it failed
          clock,     \* seconds
          archived,  \* the versions that were struck from the register
          sel,       \* the version that is selected
          registry,  \* the form's prompts and models
          form,      \* id, epoch, submitting, told
          history,   \* status, of, ids
          loads,     \* of the history: [number, of, got]
          submits,   \* [number, id, of, epoch, got, here]
          made, others, edits
user == <<made, others, edits>>
vars == <<runs, clock, archived, sel, registry, form, history, loads, submits,
          made, others, edits>>

(* A run id is composed of a version and a time, or typed.                 *)
DefaultId(v, second) == [of |-> v, stamp |-> second]
TypedIds == [of : {None}, stamp : 0..1]
Empty == [of |-> None, stamp |-> 0]  \* the typed id that is blank
(* An epoch is the time a form keeps an id: it ends with a success, an     *)
(* edit or the form.                                                       *)
UsedEpochs == {r.epoch : r \in runs} \cup {s.epoch : s \in submits} \cup {form.epoch}
FreshEpoch == CHOOSE n \in 0..Cardinality(UsedEpochs) : n \notin UsedEpochs
NewForm(v) == [id |-> DefaultId(v, clock), epoch |-> FreshEpoch,
               submitting |-> FALSE, told |-> "none"]
Taken(id) == \E r \in runs : r.id = id
RunsOf(v) == {r.id : r \in {q \in runs : q.of = v}}
FreeNumber(S) == CHOOSE n \in 0..Cardinality(S) : \A r \in S : r.number # n
HasForm == sel \notin archived

(* loadRuns of the render that calls it: for the version it was given.     *)
NewLoad(v) == [number |-> FreeNumber(loads), of |-> v, got |-> None]
loadRuns(v) ==
  /\ history' = [history EXCEPT !.status = "loading"]
  /\ loads' = loads \cup {NewLoad(v)}
-----------------------------------------------------------------------------
Init ==
  /\ runs = {} /\ clock = 0
  /\ archived \in SUBSET Versions
  /\ sel \in Versions
  /\ registry = "loading"
  /\ form = [id |-> DefaultId(sel, 0), epoch |-> 0, submitting |-> FALSE, told |-> "none"]
  /\ history = [status |-> "loading", of |-> None, ids |-> {}]
  /\ loads = {[number |-> 0, of |-> sel, got |-> None]}
  /\ submits = {}
  /\ made = 0 /\ others = 0 /\ edits = 0

Tick ==
  /\ clock < MaxClock
  /\ clock' = clock + 1
  /\ UNCHANGED <<runs, archived, sel, registry, form, history, loads, submits, user>>

(* Another admin submits the id the same form offers.                      *)
OtherAdmin ==
  /\ others < MaxOthers
  /\ others' = others + 1
  /\ \E v \in Versions :
       /\ ~Taken(DefaultId(v, clock))
       /\ runs' = runs \cup {[id |-> DefaultId(v, clock), of |-> v, done |-> TRUE,
                              epoch |-> None]}
  /\ UNCHANGED <<clock, archived, sel, registry, form, history, loads, submits,
                 made, edits>>

Select ==
  /\ Cardinality(loads) < MaxLoads
  /\ \E v \in Versions \ {sel} :
       /\ sel' = v
       /\ loadRuns(v)
       /\ IF v \in archived
          THEN /\ submits' = {[s EXCEPT !.here = FALSE] : s \in submits}
               /\ UNCHANGED <<registry, form>>
          ELSE /\ IF HasForm THEN UNCHANGED <<registry, form>>
                  ELSE registry' = "loading" /\ form' = NewForm(v)
               /\ UNCHANGED submits
  /\ UNCHANGED <<runs, clock, archived, user>>

Registry ==
  /\ HasForm /\ registry = "loading"
  /\ registry' \in {"ready", "empty", "error"}
  /\ UNCHANGED <<runs, clock, archived, sel, form, history, loads, submits, user>>
-----------------------------------------------------------------------------
(* The fields are disabled while a run is under way.                       *)
Edited(id) == [form EXCEPT !.id = id, !.epoch = FreshEpoch, !.told = "none"]
Edit ==
  /\ HasForm /\ registry = "ready" /\ ~form.submitting
  /\ edits < MaxEdits
  /\ edits' = edits + 1
  /\ \E id \in TypedIds : form' = Edited(id)
  /\ UNCHANGED <<runs, clock, archived, sel, registry, history, loads, submits,
                 made, others>>

PickPin ==
  /\ HasForm /\ registry = "ready" /\ ~form.submitting
  /\ form' = [form EXCEPT !.told = "none"]
  /\ UNCHANGED <<runs, clock, archived, sel, registry, history, loads, submits, user>>

handleSubmit ==
  /\ HasForm /\ registry = "ready" /\ ~form.submitting
  /\ IF form.id = Empty
     THEN form' = [form EXCEPT !.told = "error"] /\ UNCHANGED <<submits, made>>
     ELSE /\ made < MaxSubmits
          /\ made' = made + 1
          /\ form' = [form EXCEPT !.submitting = TRUE, !.told = "none"]
          /\ submits' = submits \cup
               {[number |-> FreeNumber(submits), id |-> form.id, of |-> sel,
                 epoch |-> form.epoch, got |-> "pending", here |-> TRUE]}
  /\ UNCHANGED <<runs, clock, archived, sel, registry, history, loads, others, edits>>

(* The server: an id is used once, a rejected output keeps its run, any    *)
(* other failure leaves none.                                              *)
Serve ==
  /\ \E s \in submits :
       /\ s.got = "pending"
       /\ \/ /\ Taken(s.id)
             /\ submits' = (submits \ {s}) \cup {[s EXCEPT !.got = "exists"]}
             /\ UNCHANGED runs
          \/ /\ ~Taken(s.id)
             /\ \E done \in BOOLEAN :
                  /\ runs' = runs \cup {[id |-> s.id, of |-> s.of, done |-> done,
                                         epoch |-> s.epoch]}
                  /\ submits' = (submits \ {s}) \cup
                       {[s EXCEPT !.got = IF done THEN "success" ELSE "error"]}
  /\ UNCHANGED <<clock, archived, sel, registry, form, history, loads, user>>

(* The answer goes to the form if that is still there, and both of them    *)
(* load the history again with the version that was submitted for.         *)
Succeeds ==
  /\ \E s \in submits :
       /\ s.got = "success"
       /\ submits' = submits \ {s}
       /\ form' = IF s.here
                  THEN [id |-> DefaultId(s.of, clock), epoch |-> FreshEpoch,
                        submitting |-> FALSE, told |-> "success"]
                  ELSE form
       /\ loadRuns(s.of)
  /\ UNCHANGED <<runs, clock, archived, sel, registry, user>>

(* Also when the answer is lost, after the server has done what it does.   *)
NewIdAfterFailure(f, told) ==  \* mutant: a failure renews the id
  [f EXCEPT !.submitting = FALSE, !.told = told, !.id = DefaultId(sel, clock)]
AfterFailure(f, told) == [f EXCEPT !.submitting = FALSE, !.told = told]
Fails ==
  /\ \E s \in submits :
       /\ submits' = submits \ {s}
       /\ form' = IF s.here
                  THEN AfterFailure(form, IF s.got = "exists" THEN "exists" ELSE "error")
                  ELSE form
       /\ loadRuns(s.of)
  /\ UNCHANGED <<runs, clock, archived, sel, registry, user>>
-----------------------------------------------------------------------------
ReadHistory ==
  /\ \E l \in loads :
       /\ l.got = None
       /\ loads' = (loads \ {l}) \cup {[l EXCEPT !.got = RunsOf(l.of)]}
  /\ UNCHANGED <<runs, clock, archived, sel, registry, form, history, submits, user>>

Loaded(l) == [status |-> "ready", of |-> l.of, ids |-> l.got]
HistoryArrives ==
  /\ \E l \in loads :
       /\ l.got # None
       /\ loads' = loads \ {l}
       /\ history' = Loaded(l)
  /\ UNCHANGED <<runs, clock, archived, sel, registry, form, submits, user>>
HistoryFails ==
  /\ \E l \in loads : loads' = loads \ {l}
  /\ history' = [history EXCEPT !.status = "error"]
  /\ UNCHANGED <<runs, clock, archived, sel, registry, form, submits, user>>
-----------------------------------------------------------------------------
Next ==
  \/ Tick \/ OtherAdmin \/ Select \/ Registry \/ Edit \/ PickPin \/ handleSubmit
  \/ Serve \/ Succeeds \/ Fails
  \/ ReadHistory \/ HistoryArrives \/ HistoryFails

Spec == Init /\ [][Next]_vars
(* A request is answered or fails.                                         *)
FairSpec ==
  /\ Spec
  /\ WF_vars(Registry)
  /\ WF_vars(Serve) /\ WF_vars(Succeeds \/ Fails)
  /\ WF_vars(ReadHistory) /\ WF_vars(HistoryArrives \/ HistoryFails)
-----------------------------------------------------------------------------
(* The variables hold what their comments say; a form that waits has a     *)
(* submission that will call it back.                                      *)
TypeOK ==
  /\ \A r \in runs : r.of \in Versions /\ r.done \in BOOLEAN
  /\ clock \in 0..MaxClock
  /\ sel \in Versions /\ archived \subseteq Versions
  /\ registry \in {"loading", "ready", "empty", "error"}
  /\ form.told \in {"none", "success", "exists", "error"}
  /\ HasForm /\ form.submitting => \E s \in submits : s.here
  /\ history.status \in {"loading", "ready", "error"}
  /\ history.status = "loading" => loads # {}

(* A user who submits again after an error, with the id the form still     *)
(* shows, gets one run however many answers were lost and whichever        *)
(* version is selected.                                                    *)
RetryCreatesOne ==
  \A r, q \in runs : r.epoch # None /\ r.epoch = q.epoch => r = q

(* What the form says of its id is so: the message that it exists already  *)
(* is about the id that is in the field.                                   *)
ExplainedByServer == HasForm /\ form.told = "exists" => Taken(form.id)

(* Registry, form or history are busy.                                     *)
Waiting == \/ HasForm /\ (registry = "loading" \/ form.submitting)
           \/ history.status = "loading"
(* Whatever becomes of the requests, the page comes to rest again and      *)
(* again.                                                                  *)
ComesToRest == []<>~Waiting

(* Violated.  The workspace is the workspace of the version it is named    *)
(* after (VersionWorkspace.tsx:75): its history is of that version.        *)
HistoryOfShown == history.status = "ready" => history.of = sel

(* Violated.  "No extraction runs yet." (VersionExtractionWorkspace.tsx:74)*)
(* is not said below a success that was reported for the same version.     *)
EmptyMeansNone ==
  HasForm /\ form.told = "success" /\ form.id.of = sel /\ loads = {} =>
    ~(history.status = "ready" /\ history.of = sel /\ history.ids = {})
=============================================================================

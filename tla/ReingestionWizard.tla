------------------------- MODULE ReingestionWizard -------------------------
(***************************************************************************)
(* The re-ingestion wizard and the drawer that holds it                    *)
(* (client/src/reingestion/ReingestionWizard.tsx and ReingestionDrawer.tsx)*)
(* with the one request it makes, answered by                              *)
(* reingestion/router.py: a Document Version, its Extraction Run and the   *)
(* diff, all committed or none.  The drawer unmounts the wizard when it    *)
(* closes, and so does leaving the page, which the keyboard can do behind  *)
(* the drawer; the request goes on.  What is extracted and compared is in  *)
(* DocumentStore and PolicyStore, the register behind in DocumentDetail.   *)
(***************************************************************************)
EXTENDS Naturals, FiniteSets

CONSTANTS None, Typed,    \* Typed: a run id that the user makes up
          Files, Prompts, Models,
          MaxSecond,      \* bound on the clock
          MaxWizards,     \* bound on the wizards opened and the times the page is left
          MaxSubmits      \* bound on the requests

BoundAssumption ==
  MaxWizards \in Nat \ {0} /\ MaxSecond \in Nat /\ Files # {} /\ None \notin Files

LastStage == 3

VARIABLES runs,     \* server: committed, [id, version, file]
          second,   \* the clock, which the default run id is made of
          open, locked, \* the drawer
          heard,    \* the lock its Escape listener was made with
          number,   \* the wizard that is, or was last, mounted
          phase, stage,
          registry, \* status, prompts, models
          form,     \* file, id, prompt, model
          result,   \* a run, or None
          calls,    \* in flight: [by, id, file, got]
          submits,
          halted    \* history: the last submission of the wizard, if it failed
wizard == <<phase, stage, registry, form, result>>
vars == <<runs, second, open, locked, heard, number, phase, stage, registry, form, result,
          calls, submits, halted>>

RunIds == 0..MaxSecond \cup {Typed}
RunAssumption ==
  None \notin RunIds /\ None \notin [id : RunIds, version : Nat, file : Files]
Loading == [status |-> "loading", prompts |-> {}, models |-> {}]
defaultReingestionRunId == second
NewForm == [file |-> None, id |-> defaultReingestionRunId, prompt |-> None, model |-> None]

registryEmpty == registry.prompts = {} \/ registry.models = {}
(* The form is drawn when there is something to pin.                       *)
FormShown == open /\ phase = "configure" /\ registry.status = "ready" /\ ~registryEmpty
-----------------------------------------------------------------------------
Init ==
  /\ runs = {} /\ second = 0
  /\ open = FALSE /\ locked = FALSE /\ heard = FALSE
  /\ number = 0
  /\ phase = "configure" /\ stage = 0
  /\ registry = Loading /\ form = NewForm /\ result = None
  /\ calls = {} /\ submits = 0 /\ halted = None

SecondPasses ==
  /\ second < MaxSecond /\ second' = second + 1
  /\ UNCHANGED <<runs, open, locked, heard, number, wizard, calls, submits, halted>>

(* Mounting the wizard starts the loading of the registry.                 *)
OpenDrawer ==
  /\ ~open /\ number < MaxWizards
  /\ open' = TRUE /\ number' = number + 1
  /\ heard' = locked
  /\ phase' = "configure" /\ stage' = 0
  /\ registry' = Loading /\ form' = NewForm /\ result' = None
  /\ halted' = None
  /\ UNCHANGED <<runs, second, locked, calls, submits>>

(* Both registries in one answer; the first of each is selected.           *)
RegistryArrives ==
  /\ open /\ registry.status = "loading"
  /\ \E ps \in SUBSET Prompts, ms \in SUBSET Models :
       /\ registry' = [status |-> "ready", prompts |-> ps, models |-> ms]
       /\ \E p \in (IF ps = {} THEN {None} ELSE ps), m \in (IF ms = {} THEN {None} ELSE ms) :
            form' = [form EXCEPT !.prompt = p, !.model = m]
  /\ UNCHANGED <<runs, second, open, locked, heard, number, phase, stage, result, calls,
                 submits, halted>>

RegistryFails ==
  /\ open /\ registry.status = "loading"
  /\ registry' = [registry EXCEPT !.status = "error"]
  /\ UNCHANGED <<runs, second, open, locked, heard, number, phase, stage, form, result,
                 calls, submits, halted>>
-----------------------------------------------------------------------------
(* A file of another format is dropped; Clear file drops any.              *)
handleFileChange ==
  /\ FormShown
  /\ form' \in {[form EXCEPT !.file = f] : f \in Files \cup {None}}
  /\ UNCHANGED <<runs, second, open, locked, heard, number, phase, stage, registry, result,
                 calls, submits, halted>>

FillIn ==
  /\ FormShown
  /\ form' \in {[form EXCEPT !.id = Typed]} \cup
               {[form EXCEPT !.id = None]} \cup
               {[form EXCEPT !.prompt = p] : p \in registry.prompts} \cup
               {[form EXCEPT !.model = m] : m \in registry.models}
  /\ UNCHANGED <<runs, second, open, locked, heard, number, phase, stage, registry, result,
                 calls, submits, halted>>

handleSubmit ==
  /\ FormShown
  /\ form.file # None /\ form.id # None /\ form.prompt # None /\ form.model # None
  /\ submits < MaxSubmits
  /\ submits' = submits + 1
  /\ phase' = "running" /\ stage' = 0
  /\ calls' = calls \cup {[by |-> number, id |-> form.id, file |-> form.file,
                           got |-> "pending"]}
  /\ halted' = None
  /\ UNCHANGED <<runs, second, open, locked, heard, number, registry, form, result>>

(* The stages shown are told by a timer.                                   *)
NextStage(i) == IF i >= LastStage THEN i ELSE i + 1
StageTicks ==
  /\ open /\ phase = "running"
  /\ stage' = NextStage(stage)
  /\ UNCHANGED <<runs, second, open, locked, heard, number, phase, registry, form, result,
                 calls, submits, halted>>
-----------------------------------------------------------------------------
(* The server: a run id already taken is refused, and what fails a quality *)
(* gate or the extraction leaves nothing.                                  *)
Serve ==
  /\ \E c \in calls :
       /\ c.got = "pending"
       /\ \/ /\ \A r \in runs : r.id # c.id
             /\ runs' = runs \cup {[id |-> c.id, version |-> Cardinality(runs) + 1,
                                    file |-> c.file]}
             /\ calls' = (calls \ {c}) \cup {[c EXCEPT !.got = "done"]}
          \/ /\ calls' = (calls \ {c}) \cup {[c EXCEPT !.got = "refused"]}
             /\ UNCHANGED runs
  /\ UNCHANGED <<second, open, locked, heard, number, wizard, submits, halted>>

(* An answer to a wizard that was unmounted changes nothing that is shown. *)
AnyWizard(c) == TRUE \* mutant: the drawer hides the wizard without unmounting
Mine(c) == open /\ c.by = number

RunOf(c) == CHOOSE r \in runs : r.id = c.id

Completes ==
  /\ \E c \in calls :
       /\ c.got = "done"
       /\ calls' = calls \ {c}
       /\ IF Mine(c)
          THEN result' = RunOf(c) /\ phase' = "complete"
          ELSE UNCHANGED <<result, phase>>
  /\ UNCHANGED <<runs, second, open, locked, heard, number, stage, registry, form,
                 submits, halted>>

(* Refused, or the answer is lost, before or after the server worked.      *)
AfterFailure(p) == "error"
Fails ==
  /\ \E c \in calls :
       /\ calls' = calls \ {c}
       /\ IF Mine(c)
          THEN phase' = AfterFailure(phase) /\ halted' = c.id
          ELSE UNCHANGED <<phase, halted>>
  /\ UNCHANGED <<runs, second, open, locked, heard, number, stage, registry, form,
                 result, submits>>

(* Adjust and retry: the file is kept, the run id is a new one.            *)
handleRetry ==
  /\ open /\ phase = "error"
  /\ phase' = "configure" /\ result' = None
  /\ form' = [form EXCEPT !.id = defaultReingestionRunId]
  /\ halted' = None
  /\ UNCHANGED <<runs, second, open, locked, heard, number, stage, registry, calls, submits>>
-----------------------------------------------------------------------------
(* The effect that follows a change of phase sets the lock of the drawer,  *)
(* which is rendered later, and so does its own when it is closed; another *)
(* effect then replaces the listener.  The user may act in between.        *)
Lock(p) == p = "running"
LockDue == open /\ Lock(phase)
LockEffect ==
  /\ locked # LockDue
  /\ locked' = LockDue
  /\ UNCHANGED <<runs, second, open, heard, number, wizard, calls, submits, halted>>
ListenerEffect ==
  /\ open /\ heard # locked
  /\ heard' = locked
  /\ UNCHANGED <<runs, second, open, locked, number, wizard, calls, submits, halted>>

(* The drawer closes: by its buttons, by the backdrop, by Escape.          *)
AnyKey == TRUE \* mutant: the listener does not ask for the lock
Escapes == ~heard
onClose ==
  /\ open
  /\ phase # "running" \/ ~locked \/ Escapes
  /\ open' = FALSE /\ heard' = FALSE
  /\ UNCHANGED <<runs, second, locked, number, wizard, calls, submits, halted>>

(* The page is left, whatever the drawer shows; it opens again without it. *)
onBack ==
  /\ open
  /\ open' = FALSE /\ locked' = FALSE /\ heard' = FALSE
  /\ number' = number + 1
  /\ UNCHANGED <<runs, second, wizard, calls, submits, halted>>

Next ==
  \/ SecondPasses \/ OpenDrawer \/ RegistryArrives \/ RegistryFails
  \/ handleFileChange \/ FillIn \/ handleSubmit \/ StageTicks
  \/ Serve \/ Completes \/ Fails \/ handleRetry
  \/ LockEffect \/ ListenerEffect \/ onClose \/ onBack

Spec == Init /\ [][Next]_vars
(* The server answers or the connection fails; effects run.                *)
FairSpec ==
  /\ Spec
  /\ WF_vars(RegistryArrives \/ RegistryFails) /\ WF_vars(Completes \/ Fails)
  /\ WF_vars(LockEffect) /\ WF_vars(ListenerEffect)
-----------------------------------------------------------------------------
(* The variables hold what their comments say; a result is shown at the    *)
(* end of a run only, and what is pinned comes from the registry.          *)
TypeOK ==
  /\ {open, locked, heard} \subseteq BOOLEAN /\ (heard => open)
  /\ phase \in {"configure", "running", "complete", "error"}
  /\ stage \in 0..LastStage
  /\ form \in [file : Files \cup {None}, id : RunIds \cup {None},
               prompt : registry.prompts \cup {None}, model : registry.models \cup {None}]
  /\ result \in runs \cup {None}
  /\ phase = "complete" <=> result # None

(* The diff that a wizard shows is that of the file it deposited under the *)
(* run id it gave, whatever an earlier wizard left under way.              *)
ResultIsOfThisWizard ==
  phase = "complete" => result.id = form.id /\ result.file = form.file

(* A wizard that runs, once the drawer and its listener have taken the     *)
(* lock, keeps it until the run ends: nothing closes the drawer, and only  *)
(* leaving the page unmounts the wizard.                                   *)
LockedRun == open /\ phase = "running" /\ locked /\ heard
RunIsNotClosed ==
  [][LockedRun => LockedRun' \/ phase' # "running" \/ number' = number + 1]_vars

(* The registry loads, a re-ingestion runs, or the lock lags behind.       *)
Waiting ==
  \/ open /\ (registry.status = "loading" \/ phase = "running" \/ heard # locked)
  \/ locked # LockDue
(* Whatever becomes of the requests, the page comes to rest again and      *)
(* again.                                                                  *)
ComesToRest == []<>~Waiting

(* Violated, as the README says:                                           *)
(* The wizard's own button is disabled as soon as it runs, but Escape or   *)
(* the backdrop can close the drawer before the lock has reached it        *)
(* (ReingestionDrawer.tsx:25).                                             *)
RunIsNeverClosed ==
  [][open /\ phase = "running" /\ ~open' => number' = number + 1]_vars

(* Violated, as the README says:                                           *)
(* ReingestionWizard.tsx says 'Process halted' and offers to retry: then   *)
(* the process did not go through.                                         *)
HaltedMeansNotDone == halted # None /\ open /\ phase = "error" =>
  \A r \in runs : ~(r.id = halted /\ r.file = form.file)
=============================================================================

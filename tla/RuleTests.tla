----------------------------- MODULE RuleTests -----------------------------
(***************************************************************************)
(* The Rule Test Cases of one Compiled Rule Set: the page                  *)
(* (client/src/compiled-rule-sets/CompiledRuleSetCatalog.tsx and           *)
(* rule-test-cases/) and the store behind it.  The page loads the cases    *)
(* and the runs side by side, generates, runs, disables, enables and edits *)
(* cases, and reads the list again after each change; other users change   *)
(* the same cases.  The text of an edit is RuleTestEdit's.                 *)
(***************************************************************************)
EXTENDS Naturals, Sequences, FiniteSets

CONSTANTS Cases,
          RuleOf,    \* the rule each case tests
          None,
          MaxRuns,   \* bound on the Rule Test Runs
          MaxActs,   \* bound on what the user of the page confirms
          MaxOthers  \* bound on what other users do

Case == [on : BOOLEAN,  \* active, not disabled
         ok : BOOLEAN]  \* evaluates to the outcome it expects
Run == [tested : SUBSET Cases, failed : SUBSET Cases, overall : BOOLEAN]
Roles == {"admin", "approver"}
Kinds == {"list", "runs", "generate", "run", "status", "edit"}
Modes == {"disable", "enable"}
CaseLists == {None} \cup [Cases -> Case]
Replies == [ok : BOOLEAN, cases : CaseLists, run : Nat]
Requests == [kind : Kinds, step : {"post", "get"}, case : Cases \cup {None},
             mode : Modes \cup {None}, reply : {None} \cup Replies]
CaseAssumption ==
  /\ IsFiniteSet(Cases)
  /\ None \notin [Cases -> Case] \cup [case : Cases, mode : Modes]
  /\ None \notin Run /\ None \notin Replies /\ None \notin Requests
  /\ None \notin Cases
  /\ MaxRuns \in Nat \ {0} /\ MaxActs \in Nat /\ MaxOthers \in Nat
Filters == {"all", "active", "disabled"}

VARIABLES cases,   \* server: the cases, None before they are generated
          runs,    \* server: the runs, the latest last
          roles,   \* of the user of the page
          page,    \* the Compiled Rule Set: loading, ready, failed
          shown, counts, listStatus, \* the cases the page shows
          latest, runStatus,         \* the run it shows, by number, 0 for none
          target,  \* the open status dialog, or None
          editing, \* the case in the open edit dialog, or None
          req,     \* requests in flight
          acts, others, \* bounded counters
          since,   \* history: the lists of cases the server held since the
                   \* last change of this user, and the run of their last run
          clean    \* history: no answer lost and none that could overtake
                   \* another, and generations found no disabled case
server == <<cases, runs>>
list == <<shown, counts, listStatus>>
evidence == <<latest, runStatus>>
vars == <<cases, runs, roles, page, shown, counts, listStatus, latest,
          runStatus, target, editing, req, acts, others, since, clean>>
-----------------------------------------------------------------------------
(* The server.                                                             *)
Active(cs) == IF cs = None THEN {} ELSE {c \in Cases : cs[c].on}
Counts(cs) == [active |-> Cardinality(Active(cs)),
               disabled |-> IF cs = None THEN 0
                            ELSE Cardinality(Cases \ Active(cs))]

(* The cases every operation may leave, none where it is refused.          *)
generate_cases(cs) ==
  IF cs # None THEN {cs}
  ELSE {[c \in Cases |-> [on |-> TRUE, ok |-> good[c]]] : good \in [Cases -> BOOLEAN]}
set_status(cs, c, mode) ==
  IF cs # None /\ cs[c].on = (mode = "disable")
  THEN {[cs EXCEPT ![c].on = (mode = "enable")]} ELSE {}
edit_case(cs, c) ==
  IF c \in Active(cs) THEN {[cs EXCEPT ![c].ok = b] : b \in BOOLEAN} ELSE {}

OverallPassed(failed, tested) == failed = {}
RunOf(cs) == LET failed == {c \in Active(cs) : ~cs[c].ok}
             IN  [tested |-> Active(cs), failed |-> failed,
                  overall |-> OverallPassed(failed, Active(cs))]
CanRun(cs) == Active(cs) # {} /\ Len(runs) < MaxRuns

(* assert_rule_test_run_gate_passed, with the cases cs and the first n     *)
(* runs.                                                                   *)
Gate(cs, n) == IF Active(cs) = {} THEN "not_required"
               ELSE IF n = 0 THEN "missing_run"
               ELSE IF runs[n].overall THEN "open" ELSE "failed_run"
-----------------------------------------------------------------------------
(* What the page makes of its state.                                       *)
Total == counts.active + counts.disabled
latestRun == IF latest = 0 THEN None ELSE runs[latest]

resolveRuleTestRunGateStatus ==
  IF counts.active = 0 THEN "not_required"
  ELSE IF runStatus = "loading" THEN "loading"
  ELSE IF latestRun = None THEN "missing_run"
  ELSE IF latestRun.overall THEN "open" ELSE "failed_run"
getFailedRuleTestRunResults == IF latestRun = None THEN {} ELSE latestRun.failed
RowsOf(r) == {c \in Cases : RuleOf[c] = r}
resolveRuleRunStatus(r) ==
  IF latestRun = None THEN "no_run"
  ELSE IF RowsOf(r) \cap Active(shown) = {} THEN "not_run"
  ELSE IF RowsOf(r) \cap latestRun.tested = {} THEN "not_run"
  ELSE IF RowsOf(r) \cap latestRun.failed # {} THEN "failed" ELSE "passed"

filterRuleTestCases(filter) ==
  IF shown = None THEN {}
  ELSE CASE filter = "all"      -> Cases
         [] filter = "active"   -> Active(shown)
         [] filter = "disabled" -> Cases \ Active(shown)
TabCount(filter) == CASE filter = "all"      -> Total
                      [] filter = "active"   -> counts.active
                      [] filter = "disabled" -> counts.disabled

(* The ledger with its row actions.  A dialog covers the page.             *)
DialogOpen == target # None \/ editing # None
LedgerAlways == page = "ready" /\ listStatus = "ready" /\ Total > 0 \* mutant
LedgerShown == page = "ready" /\ listStatus = "ready" /\ Total > 0 /\ ~DialogOpen
Headed == page = "ready" /\ ~DialogOpen
-----------------------------------------------------------------------------
Fresh(k) == [kind |-> k, step |-> "post", case |-> None, mode |-> None,
             reply |-> None]
Get(k) == [Fresh(k) EXCEPT !.step = "get"]

Init == /\ cases \in {None} \cup [Cases -> Case]
        /\ runs \in {<<>>} \cup {<<RunOf(cs)>> : cs \in
                     IF cases = None THEN {} ELSE {cases}}
        /\ (runs # <<>> => runs[1].tested # {})
        /\ roles \in SUBSET Roles
        /\ page = "loading"
        /\ shown = None /\ counts = Counts(None) /\ listStatus = "loading"
        /\ latest = 0 /\ runStatus = "loading"
        /\ target = None /\ editing = None
        /\ req = [k \in Kinds |-> IF k \in {"list", "runs"}
                                  THEN Get(k) ELSE None]
        /\ acts = 0 /\ others = 0
        /\ since = [cases |-> {cases}, run |-> 0]
        /\ clean = TRUE

Send(k, r) ==
  /\ req[k] = None
  /\ acts < MaxActs
  /\ acts' = acts + 1
  /\ req' = [req EXCEPT ![k] = r]
  /\ UNCHANGED <<server, roles, page, list, evidence, others, since, clean>>

handleGenerate == /\ Headed /\ "admin" \in roles /\ Total = 0
                  /\ Send("generate", Fresh("generate"))
                  /\ UNCHANGED <<target, editing>>
handleRun == /\ Headed /\ "admin" \in roles /\ counts.active > 0
             /\ Send("run", Fresh("run"))
             /\ UNCHANGED <<target, editing>>

handleStatusActionRequest(c) ==
  /\ LedgerShown /\ "approver" \in roles
  /\ target' = [case |-> c, mode |-> IF shown[c].on THEN "disable" ELSE "enable"]
  /\ UNCHANGED <<server, roles, page, list, evidence, editing, req, acts,
                 others, since, clean>>
handleEditRequest(c) ==
  /\ LedgerShown /\ "approver" \in roles /\ shown[c].on
  /\ editing' = c
  /\ UNCHANGED <<server, roles, page, list, evidence, target, req, acts,
                 others, since, clean>>
(* Neither dialog closes while its own request is in flight.               *)
handleStatusActionCancel ==
  /\ target # None /\ req["status"] = None
  /\ target' = None
  /\ UNCHANGED <<server, roles, page, list, evidence, editing, req, acts,
                 others, since, clean>>
handleEditCancel ==
  /\ editing # None /\ req["edit"] = None
  /\ editing' = None
  /\ UNCHANGED <<server, roles, page, list, evidence, target, req, acts,
                 others, since, clean>>
handleStatusActionConfirm ==
  /\ target # None
  /\ Send("status", [Fresh("status") EXCEPT !.case = target.case,
                                            !.mode = target.mode])
  /\ UNCHANGED <<target, editing>>
handleEditConfirm ==
  /\ editing # None
  /\ Send("edit", [Fresh("edit") EXCEPT !.case = editing])
  /\ UNCHANGED <<target, editing>>
-----------------------------------------------------------------------------
(* The server answers: it reads at that moment, or writes and answers, or  *)
(* the write is refused, or its answer is lost.                            *)
CasesAfter(r) ==
  CASE r.kind = "generate" -> generate_cases(cases)
    [] r.kind = "status"   -> set_status(cases, r.case, r.mode)
    [] r.kind = "edit"     -> edit_case(cases, r.case)
    [] OTHER -> {}
Reply(ok) == IF ok THEN [ok |-> TRUE, cases |-> cases', run |-> Len(runs')]
             ELSE [ok |-> FALSE, cases |-> None, run |-> 0]

Write(k) == /\ req[k].step = "post"
            /\ IF k = "run"
               THEN /\ CanRun(cases) /\ runs' = Append(runs, RunOf(cases))
                    /\ UNCHANGED cases
               ELSE /\ cases' \in CasesAfter(req[k])
                    /\ UNCHANGED runs

(* Answers of one kind of data may overtake each other once two of them    *)
(* are on their way; that of a change to a case brings no list.            *)
Touches(k) == IF k \in {"runs", "run"} THEN {"runs", "run"}
              ELSE {"list", "generate", "status", "edit"}
Brings(k, r) == k \in {"status", "edit"} => r.step = "get"
OnItsWay(k) == /\ req[k] # None /\ req[k].reply # None
               /\ req[k].reply.ok /\ Brings(k, req[k])
Alone(k) == Brings(k, req[k]) => \A j \in Touches(k) : ~OnItsWay(j)
Own(k) == IF k = "run" THEN [since EXCEPT !.run = Len(runs')]
          ELSE [since EXCEPT !.cases = {cases'}]

Answer(k) ==
  /\ req[k] # None /\ req[k].reply = None
  /\ \E ok, written \in BOOLEAN :
       /\ IF written THEN Write(k) /\ since' = Own(k)
          ELSE UNCHANGED <<cases, runs, since>> /\ (ok => req[k].step = "get")
       /\ req' = [req EXCEPT ![k].reply = Reply(ok)]
       /\ clean' = /\ clean
                   /\ IF ok THEN Alone(k) ELSE ~written /\ req[k].step = "post"
                   /\ k = "generate" /\ ok => Active(cases') = Cases
  /\ UNCHANGED <<roles, page, list, evidence, target, editing, acts, others>>

OtherUser ==
  /\ others < MaxOthers
  /\ others' = others + 1
  /\ \/ /\ cases' \in generate_cases(cases)
              \cup (UNION {set_status(cases, c, m) : c \in Cases, m \in Modes})
              \cup (UNION {edit_case(cases, c) : c \in Cases})
        /\ UNCHANGED runs
     \/ /\ CanRun(cases) /\ runs' = Append(runs, RunOf(cases))
        /\ UNCHANGED cases
  /\ since' = [since EXCEPT !.cases = @ \cup {cases'}]
  /\ UNCHANGED <<roles, page, list, evidence, target, editing, req, acts, clean>>
-----------------------------------------------------------------------------
(* What arrives at the page.                                               *)
Arrived(k) == req[k] # None /\ req[k].reply # None
Done(k) == req' = [req EXCEPT ![k] = None]

applyRuleTestCaseList(cs, n) == /\ shown' = cs /\ counts' = n
                                /\ listStatus' = "ready"

(* The Compiled Rule Set never changes: when it was read does not matter.  *)
ArriveSet == /\ page = "loading"
             /\ page' \in {"ready", "failed"}
             /\ UNCHANGED <<server, roles, list, evidence, target, editing, req,
                            acts, others, since, clean>>

AfterFailure(s) == "error"
ArriveList ==
  /\ Arrived("list") /\ Done("list")
  /\ LET a == req["list"].reply
     IN  IF a.ok THEN applyRuleTestCaseList(a.cases, Counts(a.cases))
         ELSE listStatus' = AfterFailure(listStatus) /\ UNCHANGED <<shown, counts>>
  /\ UNCHANGED <<server, roles, page, evidence, target, editing, acts, others,
                 since, clean>>
ArriveRuns ==
  /\ Arrived("runs") /\ Done("runs")
  /\ LET a == req["runs"].reply
     IN  IF a.ok THEN latest' = a.run /\ runStatus' = "ready"
         ELSE runStatus' = AfterFailure(runStatus) /\ UNCHANGED latest
  /\ UNCHANGED <<server, roles, page, list, target, editing, acts, others,
                 since, clean>>

(* The answer of a generation is taken to hold active cases only.          *)
GeneratedCounts(cs) == [active |-> Cardinality(Cases), disabled |-> 0]
ArriveGenerate ==
  /\ Arrived("generate") /\ Done("generate")
  /\ LET a == req["generate"].reply
     IN  IF a.ok THEN applyRuleTestCaseList(a.cases, GeneratedCounts(a.cases))
         ELSE UNCHANGED list
  /\ UNCHANGED <<server, roles, page, evidence, target, editing, acts, others,
                 since, clean>>
ArriveRun ==
  /\ Arrived("run") /\ Done("run")
  /\ LET a == req["run"].reply
     IN  IF a.ok THEN latest' = a.run /\ runStatus' = "ready"
         ELSE UNCHANGED evidence
  /\ UNCHANGED <<server, roles, page, list, target, editing, acts, others,
                 since, clean>>

(* A change that was accepted closes its dialog and reads the list again;  *)
(* the handler still counts as submitting until that answer is there.      *)
Reload(k) == req' = [req EXCEPT ![k] = Get(k)]
ArriveChange(k) ==
  /\ k \in {"status", "edit"}
  /\ Arrived(k) /\ req[k].step = "post"
  /\ IF req[k].reply.ok
     THEN /\ IF k = "status" THEN target' = None /\ UNCHANGED editing
             ELSE editing' = None /\ UNCHANGED target
          /\ Reload(k)
     ELSE Done(k) /\ UNCHANGED <<target, editing>>
  /\ UNCHANGED <<server, roles, page, list, evidence, acts, others, since, clean>>
ArriveReload(k) ==
  /\ k \in {"status", "edit"}
  /\ Arrived(k) /\ req[k].step = "get"
  /\ Done(k)
  /\ LET a == req[k].reply
     IN  IF a.ok THEN applyRuleTestCaseList(a.cases, Counts(a.cases))
         ELSE UNCHANGED list
  /\ UNCHANGED <<server, roles, page, evidence, target, editing, acts, others,
                 since, clean>>

Arrive == \/ ArriveSet \/ ArriveList \/ ArriveRuns \/ ArriveGenerate \/ ArriveRun
          \/ \E k \in Kinds : ArriveChange(k) \/ ArriveReload(k)
Next == \/ handleGenerate \/ handleRun
        \/ \E c \in Cases : handleStatusActionRequest(c) \/ handleEditRequest(c)
        \/ handleStatusActionCancel \/ handleEditCancel
        \/ handleStatusActionConfirm \/ handleEditConfirm
        \/ \E k \in Kinds : Answer(k)
        \/ OtherUser
        \/ Arrive

(* Every request is answered (or fails) and every answer is delivered.     *)
Spec == /\ Init /\ [][Next]_vars
        /\ \A k \in Kinds : WF_vars(Answer(k))
        /\ WF_vars(Arrive)
-----------------------------------------------------------------------------
(* The types of the variables.                                             *)
TypeOK == /\ cases \in {None} \cup [Cases -> Case]
          /\ Len(runs) <= MaxRuns
          /\ \A i \in 1..Len(runs) : runs[i].failed \subseteq runs[i].tested
          /\ roles \subseteq Roles
          /\ page \in {"loading", "ready", "failed"}
          /\ shown \in {None} \cup [Cases -> Case]
          /\ listStatus \in {"loading", "ready", "error"}
          /\ runStatus \in {"loading", "ready", "error"}
          /\ latest \in 0..Len(runs)
          /\ target = None \/ editing = None
          /\ \A k \in Kinds : req[k] # None => req[k].kind = k
          /\ acts \in 0..MaxActs /\ others \in 0..MaxOthers

Settled == /\ page = "ready" /\ listStatus = "ready" /\ runStatus = "ready"
           /\ \A k \in Kinds : req[k] = None

(* Once its requests are answered, whatever overlapped and whoever else    *)
(* changed the cases, the page shows cases the server held since this      *)
(* user's last change and no run older than their own last one             *)
(* (loadRuleTestCases after every change, setLatestRuleTestRun), unless an *)
(* answer was lost or one could overtake another.                          *)
SettledPageIsCurrent ==
  Settled /\ clean => shown \in since.cases /\ latest \in since.run..Len(runs)

(* And then the gate the page announces is the gate an evaluation would    *)
(* have met with those cases and that run                                  *)
(* (resolveRuleTestRunGateStatus against assert_rule_test_run_gate_passed).*)
GateIsServerGate ==
  Settled /\ clean =>
    \E cs \in since.cases, n \in since.run..Len(runs) :
      resolveRuleTestRunGateStatus = Gate(cs, n)

(* And the number on each filter tab is the number of rows behind it       *)
(* (handleGenerate counts for itself, the list brings its counts).         *)
TabCountsMatchRows ==
  Settled /\ clean =>
    \A f \in Filters : TabCount(f) = Cardinality(filterRuleTestCases(f))

(* The verdict of the gate and the results listed below it agree: a gate   *)
(* closed by a failed run lists a failed case, an open one shows none and  *)
(* no rule with failures.                                                  *)
VerdictMatchesResults ==
  LET gate == resolveRuleTestRunGateStatus
      failed == getFailedRuleTestRunResults
  IN  /\ gate = "failed_run" => failed # {}
      /\ gate = "open" => /\ failed = {}
                          /\ \A c \in Cases : resolveRuleRunStatus(RuleOf[c]) # "failed"

(* Cases or runs are loading.                                              *)
Waiting == "loading" \in {listStatus, runStatus}
(* Whatever becomes of the requests, the page comes to rest again and      *)
(* again.                                                                  *)
ComesToRest == []<>~Waiting

(* Violated, as the README says:                                           *)
(* What the coverage view calls the latest run never gives way to an       *)
(* earlier one.                                                            *)
LatestRunEvidence == [][latest' >= latest]_vars

(* Violated, as the README says:                                           *)
(* The counts on the page are those of the cases it shows: a generation    *)
(* that finds cases already there, some of them disabled, counts them all  *)
(* as active.                                                              *)
CountsAreOfShown == listStatus = "ready" => counts = Counts(shown)
=============================================================================

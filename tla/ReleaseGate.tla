---------------------------- MODULE ReleaseGate ----------------------------
(***************************************************************************)
(* From a Policy Version to an evaluation: compiled_rule_sets/store.py,    *)
(* rule_test_cases/store.py and runner.py, compliance_evaluation_runs/     *)
(* gate.py and runner.py, with their routers.  A request is a transaction  *)
(* under READ COMMITTED: each query sees what is committed, its writes are *)
(* seen once it commits, and an inserted policy_version_id, a unique key,  *)
(* makes others that insert it wait until the transaction ends.  Policy    *)
(* Versions never change, so compiling one twice gives the same rules.     *)
(* Every request serves one user once; KindOf says what it asks for.       *)
(***************************************************************************)
EXTENDS Naturals

CONSTANTS None, Requests, KindOf, Versions, Slots,
          Evaluable,   \* the versions with a rule that can be evaluated
          Enforceable  \* those with a rule test cases can be generated for

Case == [set : Requests, active : BOOLEAN, good : BOOLEAN] \* good: as the evaluator decides
Kinds == {"compile", "generate", "disable", "enable", "edit", "test", "evaluate"}
ASSUME GateAssumption == /\ KindOf \in [Requests -> Kinds]
                         /\ Enforceable \subseteq Evaluable /\ Evaluable \subseteq Versions
                         /\ None \notin Versions \cup Requests \cup Case

VARIABLES sets,        \* Compiled Rule Sets: [id, version], id the request that compiled it
          creations,   \* audit: compiled_rule_set.created, [id, version]
          cases,       \* Rule Test Cases: of a generation and a slot, or None
          runs,        \* Rule Test Runs: [id, set, passed, time]
          evaluations, \* Compliance Evaluation Runs: [id, set, version, gate, known]
          req,         \* the requests
          clock        \* what datetime.now has told the test runs
vars == <<sets, creations, cases, runs, evaluations, req, clock>>

CaseIds == Requests \X Slots
Set == [id : Requests, version : Versions]
Run == [id : Requests, set : Requests, passed : BOOLEAN, time : Nat]
Known == [failed : SUBSET Run, cases : SUBSET CaseIds]
Evaluation == [id : Requests, set : Requests, version : Versions,
               gate : {"no cases", "passed"}, known : Known]

Open == {"sent", "absent", "inserted", "resolved", "gated", "allowed", "read", "stamped"}
Ended == {"done", "refused", "conflict", "dropped"}
Request == [at : {"idle"} \cup Open \cup Ended, version : Versions \cup {None},
            wanted : Requests \cup {None}, set : Requests \cup {None},
            case : CaseIds \cup {None}, payload : Case \cup {None},
            passed : BOOLEAN, time : Nat, gate : {"no cases", "passed"},
            known : Known]

CasesOf(s) == {c \in CaseIds : cases[c] # None /\ cases[c].set = s}
list_active_rule_test_cases(s) == {c \in CasesOf(s) : cases[c].active}

(* The first of list_rule_test_runs.                                       *)
Oldest(r, s) == r.set = s /\ \A o \in runs : o.set = s => r.time <= o.time \* mutant
IsLatest(r, s) == r.set = s /\ \A o \in runs : o.set = s => o.time <= r.time

Init ==
  /\ sets = {} /\ creations = {} /\ runs = {} /\ evaluations = {} /\ clock = 0
  /\ cases = [c \in CaseIds |-> None]
  /\ req = [q \in Requests |->
              [at |-> "idle", version |-> None, wanted |-> None, set |-> None,
               case |-> None, payload |-> None, passed |-> FALSE, time |-> 0,
               gate |-> "no cases", known |-> [failed |-> {}, cases |-> {}]]]

Ends(q, how) == req' = [req EXCEPT ![q].at = how]

(* What a request of a kind names: a version, a set that is listed, a case. *)
Names(k, v, s, c) ==
  /\ (v # None) => k \in {"compile", "evaluate"}
  /\ (s # None) => k \in {"generate", "test", "evaluate"}
  /\ (c # None) <=> k \in {"disable", "enable", "edit"}
  /\ v # None \/ s # None \/ c # None
Send(q) ==
  /\ req[q].at = "idle"
  /\ \E v \in Versions \cup {None}, s \in {x.id : x \in sets} \cup {None},
        c \in {x \in CaseIds : cases[x] # None} \cup {None} :
       /\ Names(KindOf[q], v, s, c)
       /\ req' = [req EXCEPT ![q].at = "sent", ![q].version = v, ![q].wanted = s,
                             ![q].case = c,
                             ![q].known = [failed |-> {r \in runs : ~r.passed},
                                           cases |-> {x \in CaseIds : cases[x] # None}]]
  /\ UNCHANGED <<sets, creations, cases, runs, evaluations, clock>>

(* A handler stops before its commit and its transaction is rolled back.   *)
Drop(q) ==
  /\ req[q].at \in Open /\ Ends(q, "dropped")
  /\ UNCHANGED <<sets, creations, cases, runs, evaluations, clock>>
-----------------------------------------------------------------------------
(* compile_policy_version, of a compilation or of an evaluation.           *)
Resolved(q, id) ==
  req' = IF req[q].wanted \notin {None, id} THEN [req EXCEPT ![q].at = "refused"]
         ELSE [req EXCEPT ![q].set = id,
                          ![q].at = IF KindOf[q] # "compile" THEN "resolved"
                                    ELSE IF id = q THEN "inserted" ELSE "done"]
Find(q) ==
  /\ req[q].at = "sent" /\ req[q].version # None
  /\ \/ \E s \in sets : s.version = req[q].version /\ Resolved(q, s.id)
     \/ /\ \A s \in sets : s.version # req[q].version
        /\ Ends(q, "absent")
  /\ UNCHANGED <<sets, creations, cases, runs, evaluations, clock>>

NeverTaken(v) == FALSE \* mutant: the version is not a unique key
Taken(v) == \E s \in sets : s.version = v
Holds(q, v) == req[q].set = q /\ req[q].version = v
               /\ req[q].at \in {"inserted", "resolved", "gated", "allowed"}
Insert(q) ==
  /\ req[q].at = "absent"
  /\ \A p \in Requests \ {q} : ~Holds(p, req[q].version)
  /\ IF Taken(req[q].version) THEN Ends(q, "conflict") ELSE Resolved(q, q)
  /\ UNCHANGED <<sets, creations, cases, runs, evaluations, clock>>

(* The set a transaction inserted, and its event.                          *)
Unversioned(q) == IF req[q].set = q THEN {[id |-> q, version |-> req[q].wanted]} ELSE {} \* mutant
Inserted(q) == IF req[q].set = q THEN {[id |-> q, version |-> req[q].version]} ELSE {}
Event(q) == Inserted(q)
CommitSet(q) ==
  /\ req[q].at = "inserted"
  /\ sets' = sets \cup Inserted(q) /\ creations' = creations \cup Event(q)
  /\ Ends(q, "done")
  /\ UNCHANGED <<cases, runs, evaluations, clock>>
-----------------------------------------------------------------------------
(* execute_compliance_evaluation_run.                                      *)
ReadSet(q) ==
  /\ req[q].at = "sent" /\ KindOf[q] = "evaluate" /\ req[q].version = None
  /\ \E s \in sets :
       /\ s.id = req[q].wanted
       /\ req' = [req EXCEPT ![q].at = "resolved", ![q].set = s.id,
                             ![q].version = s.version]
  /\ UNCHANGED <<sets, creations, cases, runs, evaluations, clock>>

GateReadsCases(q) ==
  /\ req[q].at = "resolved"
  /\ req' = IF req[q].version \notin Evaluable THEN [req EXCEPT ![q].at = "refused"]
            ELSE IF list_active_rule_test_cases(req[q].set) = {}
                 THEN [req EXCEPT ![q].at = "allowed", ![q].gate = "no cases"]
                 ELSE [req EXCEPT ![q].at = "gated"]
  /\ UNCHANGED <<sets, creations, cases, runs, evaluations, clock>>

GateReadsRuns(q) ==
  /\ req[q].at = "gated"
  /\ \/ /\ \A r \in runs : r.set # req[q].set
        /\ Ends(q, "refused")
     \/ \E r \in runs :
          /\ IsLatest(r, req[q].set)
          /\ req' = IF r.passed
                    THEN [req EXCEPT ![q].at = "allowed", ![q].gate = "passed"]
                    ELSE [req EXCEPT ![q].at = "refused"]
  /\ UNCHANGED <<sets, creations, cases, runs, evaluations, clock>>

CommitEvaluation(q) ==
  /\ req[q].at = "allowed"
  /\ evaluations' = evaluations \cup
       {[id |-> q, set |-> req[q].set, version |-> req[q].version,
         gate |-> req[q].gate, known |-> req[q].known]}
  /\ sets' = sets \cup Inserted(q) /\ creations' = creations \cup Event(q)
  /\ Ends(q, "done")
  /\ UNCHANGED <<cases, runs, clock>>
-----------------------------------------------------------------------------
(* generate_rule_test_cases_for_compiled_rule_set.  The outcome it expects *)
(* is its own: the evaluator may decide otherwise.                         *)
GenerateReads(q) ==
  /\ req[q].at = "sent" /\ KindOf[q] = "generate"
  /\ \E s \in sets :
       /\ s.id = req[q].wanted
       /\ req' = IF CasesOf(s.id) # {} THEN [req EXCEPT ![q].at = "done"]
                 ELSE IF s.version \notin Enforceable THEN [req EXCEPT ![q].at = "refused"]
                 ELSE [req EXCEPT ![q].at = "read"]
  /\ UNCHANGED <<sets, creations, cases, runs, evaluations, clock>>

CommitCases(q) ==
  /\ req[q].at = "read" /\ KindOf[q] = "generate"
  /\ \E good \in [Slots -> BOOLEAN] :
       cases' = [c \in CaseIds |->
                   IF c[1] # q THEN cases[c]
                   ELSE [set |-> req[q].wanted, active |-> TRUE, good |-> good[c[2]]]]
  /\ Ends(q, "done")
  /\ UNCHANGED <<sets, creations, runs, evaluations, clock>>

(* disable, enable and edit: the payload is read, checked and rewritten as *)
(* a whole.                                                                *)
ChangeReads(q) ==
  /\ req[q].at = "sent" /\ KindOf[q] \in {"disable", "enable", "edit"}
  /\ req' = IF cases[req[q].case].active = (KindOf[q] # "enable")
            THEN [req EXCEPT ![q].at = "read", ![q].payload = cases[req[q].case]]
            ELSE [req EXCEPT ![q].at = "refused"]
  /\ UNCHANGED <<sets, creations, cases, runs, evaluations, clock>>

EditedOut(k, p, good) == [p EXCEPT !.active = (k = "enable"), !.good = good] \* mutant
Rewritten(k, p, good) == [p EXCEPT !.active = (k # "disable"),
                                   !.good = IF k = "edit" THEN good ELSE @]
CommitChange(q) ==
  /\ req[q].at = "read" /\ KindOf[q] \in {"disable", "enable", "edit"}
  /\ \E good \in BOOLEAN :
       cases' = [cases EXCEPT ![req[q].case] = Rewritten(KindOf[q], req[q].payload, good)]
  /\ Ends(q, "done")
  /\ UNCHANGED <<sets, creations, runs, evaluations, clock>>

(* execute_rule_test_run takes its time after it read the cases.           *)
TestReads(q) ==
  /\ req[q].at = "sent" /\ KindOf[q] = "test"
  /\ LET active == list_active_rule_test_cases(req[q].wanted) IN
     req' = IF active = {} THEN [req EXCEPT ![q].at = "refused"]
            ELSE [req EXCEPT ![q].at = "read",
                             ![q].passed = \A c \in active : cases[c].good]
  /\ UNCHANGED <<sets, creations, cases, runs, evaluations, clock>>

TestStamps(q) ==
  /\ req[q].at = "read" /\ KindOf[q] = "test"
  /\ clock' = clock + 1
  /\ req' = [req EXCEPT ![q].at = "stamped", ![q].time = clock']
  /\ UNCHANGED <<sets, creations, cases, runs, evaluations>>

CommitTest(q) ==
  /\ req[q].at = "stamped"
  /\ runs' = runs \cup {[id |-> q, set |-> req[q].wanted, passed |-> req[q].passed,
                         time |-> req[q].time]}
  /\ Ends(q, "done")
  /\ UNCHANGED <<sets, creations, cases, evaluations, clock>>
-----------------------------------------------------------------------------
Handle(q) == \/ Find(q) \/ Insert(q) \/ CommitSet(q)
             \/ ReadSet(q) \/ GateReadsCases(q) \/ GateReadsRuns(q)
             \/ CommitEvaluation(q)
             \/ GenerateReads(q) \/ CommitCases(q)
             \/ ChangeReads(q) \/ CommitChange(q)
             \/ TestReads(q) \/ TestStamps(q) \/ CommitTest(q)
Next == \E q \in Requests : Send(q) \/ Drop(q) \/ Handle(q)
Spec == Init /\ [][Next]_vars
FairSpec == Spec /\ \A q \in Requests : WF_vars(Handle(q))
-----------------------------------------------------------------------------
TypeOK ==
  /\ sets \subseteq Set /\ creations \subseteq Set
  /\ cases \in [CaseIds -> Case \cup {None}]
  /\ runs \subseteq Run /\ evaluations \subseteq Evaluation
  /\ req \in [Requests -> Request]
  /\ clock \in Nat

(* A Compiled Rule Set exists exactly if its creation is audited, whether  *)
(* it was asked for or compiled for an evaluation, and one that was        *)
(* compiled for an evaluation the gate refused leaves neither (runner.py:  *)
(* 113, router.py of the evaluations).                                     *)
CreationsAudited == creations = sets

(* Compilations that run at once agree: whoever was answered a set, or     *)
(* evaluated with one, was given the committed set of the version, who was *)
(* refused by the unique key finds one when it asks again                  *)
(* (compiled_rule_sets/store.py:21), and each set that was committed, by   *)
(* the request for it or by an evaluation, has its one audit event.        *)
CompileAgrees ==
  /\ CreationsAudited
  /\ \A s, t \in sets : s.version = t.version => s = t
  /\ \A q \in Requests :
       /\ req[q].at = "done" /\ KindOf[q] \in {"compile", "evaluate"}
            => [id |-> req[q].set, version |-> req[q].version] \in sets
       /\ req[q].at = "conflict" => \E s \in sets : s.version = req[q].version
  /\ \A e \in evaluations : [id |-> e.set, version |-> e.version] \in sets

(* A failing Rule Test Run is never overlooked: an evaluation asked for    *)
(* after it was recorded went through because a run executed no earlier    *)
(* passed, or because no case was active (gate.py:45), although runs       *)
(* commit in another order than they are executed in.                      *)
FailureIsRespected ==
  \A e \in evaluations : \A f \in e.known.failed :
    (f.set = e.set /\ e.gate = "passed") =>
      \E r \in runs : r.set = e.set /\ r.passed /\ r.time >= f.time

(* Who may evaluate cannot open the gate of a set that has test cases by   *)
(* themselves: where an evaluation went through without a Rule Test Run,   *)
(* an Approver disabled every case the set had when it was asked for.      *)
OpenedByApprover ==
  \A e \in evaluations : e.gate = "no cases" =>
    \A c \in e.known.cases :
      cases[c].set = e.set =>
        \E q \in Requests : KindOf[q] = "disable" /\ req[q].case = c /\ req[q].at = "done"

(* Every request is answered, those that wait for the key of another       *)
(* transaction included.                                                   *)
RequestEnds == \A q \in Requests : req[q].at \in Open ~> req[q].at \in Ended

(* Violated.  Generating twice yields one set of test cases                *)
(* (tests/test_rule_test_cases_api.py:296): two generations that both find *)
(* none both insert theirs (rule_test_cases/store.py:39).                  *)
GeneratedOnce ==
  \A c, d \in CaseIds :
    (cases[c] # None /\ cases[d] # None /\ cases[c].set = cases[d].set) => c[1] = d[1]

(* Violated.  A disabled case cannot be edited (tests/                     *)
(* test_rule_test_cases_edit_api.py:205), so only enabling makes it active *)
(* again: an edit that read it before it was disabled writes it back as    *)
(* active (rule_test_cases/store.py:210).                                  *)
DisabledStaysOut ==
  [][\A c \in CaseIds :
       (cases[c] # None /\ ~cases[c].active /\ cases'[c].active) =>
         \E q \in Requests : KindOf[q] = "enable" /\ req[q].at = "read"
                             /\ req'[q].at = "done" /\ req[q].case = c]_vars
=============================================================================

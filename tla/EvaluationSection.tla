------------------------- MODULE EvaluationSection -------------------------
(***************************************************************************)
(* The compliance evaluations of one Expense Report                        *)
(* (client/src/compliance-evaluation-runs/ComplianceEvaluationSection.tsx) *)
(* and the server behind them.  The section loads the Policy Versions and  *)
(* the runs, then the Compiled Rule Set of the selected version, then the  *)
(* Rule Test Runs of that set, which decide whether the gate shown beside  *)
(* the button is open; an evaluation compiles the version when nobody has. *)
(* Other users compile, generate and disable cases, run tests and          *)
(* evaluate meanwhile.                                                     *)
(***************************************************************************)
EXTENDS Naturals, Sequences, FiniteSets

CONSTANTS Versions,   \* published Policy Versions
          Newest,     \* the first of the list
          Enforceable,\* those that compile to at least one enforceable rule
          Evaluable,  \* and those with a rule for guidance only
          None,
          MaxActs,    \* bound on selections and evaluations of this user
          MaxOthers   \* bound on what other users do

VersionAssumption ==
  /\ Newest \in Versions /\ None \notin Versions
  /\ Enforceable \subseteq Evaluable /\ Evaluable \subseteq Versions
  /\ MaxActs \in Nat /\ MaxOthers \in Nat

Loads == {"versions", "runs", "set", "tests"}
Status == {"loading", "ready", "error"}
Verdicts == {"none", "passed", "failed"}

VARIABLES compiled, \* server: the versions that have a Compiled Rule Set
          cases,    \* server: those whose set has an active Rule Test Case
          verdict,  \* server: the latest Rule Test Run of each set
          evals,    \* server: the versions the report was evaluated against
          status,   \* of each load of the section
          selected, \* the Policy Version in the picker, or None
          resolved, \* the version of the set the section holds, or None
          tests,    \* what it knows of Rule Test Runs: of which set, which verdict
          listed,   \* the runs it lists, by number
          replies,  \* loads in flight: [load, of, value], value None if unread
          exec,     \* the evaluation in flight, or None
          execError,
          acts, others,
          opened    \* history: versions the server's gate was open for since
                    \* the section was mounted
server == <<compiled, cases, verdict, evals>>
vars == <<compiled, cases, verdict, evals, status, selected, resolved, tests,
          listed, replies, exec, execError, acts, others, opened>>
-----------------------------------------------------------------------------
(* The server.                                                             *)
ServerGate(v) == ~(v \in compiled /\ v \in cases) \/ verdict[v] = "passed"
(* Rules for guidance only make a row need review and need no tests.       *)
Accepts(v) == v \in Evaluable /\ ServerGate(v)
Opens == opened' = opened \cup {v \in Versions : ServerGate(v)'}

OtherUser ==
  /\ others < MaxOthers
  /\ others' = others + 1
  /\ UNCHANGED <<status, selected, resolved, tests, listed, replies, exec,
                 execError, acts>>
  /\ \E v \in Versions :
       \/ /\ v \notin compiled
          /\ compiled' = compiled \cup {v}
          /\ UNCHANGED <<cases, verdict, evals>>
       \/ /\ v \in compiled \cap Enforceable
          /\ cases' = (cases \ {v}) \cup ({v} \ cases)
          /\ UNCHANGED <<compiled, verdict, evals>>
       \/ /\ v \in compiled \cap cases
          /\ \E r \in {"passed", "failed"} : verdict' = [verdict EXCEPT ![v] = r]
          /\ UNCHANGED <<compiled, cases, evals>>
       \/ /\ Accepts(v)
          /\ compiled' = compiled \cup {v}
          /\ evals' = Append(evals, v)
          /\ UNCHANGED <<cases, verdict>>
  /\ Opens

Read(load, of) == CASE load = "versions" -> Versions
                    [] load = "runs"     -> 1..Len(evals)
                    [] load = "set"      -> {of} \cap compiled
                    [] load = "tests"    -> {verdict[of]}
-----------------------------------------------------------------------------
(* What the section shows.                                                 *)
RuleCount == IF resolved \in Enforceable THEN 1 ELSE 0

resolveRuleTestRunGateStatus ==
  IF RuleCount = 0 THEN "not_required"
  ELSE IF status["tests"] = "loading" THEN "loading"
  ELSE CASE tests.latest = "none"   -> "missing_run"
         [] tests.latest = "failed" -> "failed_run"
         [] tests.latest = "passed" -> "open"
isRuleTestGateClosed ==
  resolveRuleTestRunGateStatus \in {"missing_run", "failed_run"}
FormShown == status["versions"] = "ready" /\ Versions # {}
CanRun == /\ FormShown
          /\ exec = None
          /\ selected # None
          /\ status["set"] # "loading"
          /\ resolveRuleTestRunGateStatus # "loading"
          /\ ~isRuleTestGateClosed
RunsShown == IF status["runs"] = "ready" THEN listed ELSE <<>>
-----------------------------------------------------------------------------
Init ==
  /\ \E C \in SUBSET Versions : \E A \in SUBSET (C \cap Enforceable) :
       /\ compiled = C /\ cases = A
       /\ verdict \in [Versions -> Verdicts]
       /\ \A v \in Versions \ A : verdict[v] = "none"
  /\ evals = <<>>
  /\ status = [l \in Loads |-> IF l \in {"versions", "runs"}
                               THEN "loading" ELSE "ready"]
  /\ selected = None /\ resolved = None
  /\ tests = [of |-> None, latest |-> "none"]
  /\ listed = <<>>
  /\ replies = {[load |-> l, of |-> None, value |-> None] :
                  l \in {"versions", "runs"}}
  /\ exec = None /\ execError = FALSE
  /\ acts = 0 /\ others = 0
  /\ opened = {v \in Versions : ServerGate(v)}

(* The cleanup of an effect: the answers of its request are ignored.       *)
KeepAll(rs, loads) == rs \* mutant: no cancelled flag
Cancel(rs, loads) == {r \in rs : r.load \notin loads}
Request(l, of) == [load |-> l, of |-> of, value |-> None]

(* setResolvedCompiledRuleSet and the effect on it, which runs when the    *)
(* set is another one.                                                     *)
Resolve(v, rs, st) ==
  /\ resolved' = v
  /\ IF v = resolved
     THEN status' = st /\ UNCHANGED tests /\ replies' = rs
     ELSE IF v \in Enforceable
     THEN /\ status' = [st EXCEPT !["tests"] = "loading"]
          /\ UNCHANGED tests
          /\ replies' = Cancel(rs, {"tests"}) \cup {Request("tests", v)}
     ELSE /\ status' = [st EXCEPT !["tests"] = "ready"]
          /\ tests' = [of |-> v, latest |-> "none"]
          /\ replies' = Cancel(rs, {"tests"})

(* The effect on the selected version.                                     *)
SetEffect(v, rs) ==
  /\ selected' = v
  /\ replies' = Cancel(rs, {"set"}) \cup {Request("set", v)}

Select(v) ==
  /\ FormShown
  /\ exec = None
  /\ v # selected
  /\ acts < MaxActs
  /\ acts' = acts + 1
  /\ SetEffect(v, replies)
  /\ status' = [status EXCEPT !["set"] = "loading"]
  /\ UNCHANGED <<server, resolved, tests, listed, exec, execError, others,
                 opened>>

Answer(r) ==
  /\ r.value = None
  /\ replies' = (replies \ {r}) \cup {[r EXCEPT !.value = Read(r.load, r.of)]}
  /\ UNCHANGED <<server, status, selected, resolved, tests, listed, exec,
                 execError, acts, others, opened>>

The(S) == IF S = {} THEN None ELSE CHOOSE x \in S : TRUE
SeqUpTo(S) == [i \in 1..Cardinality(S) |-> Cardinality(S) + 1 - i]

ArriveVersions(r) ==
  /\ r.load = "versions"
  /\ SetEffect(Newest, replies \ {r})
  /\ status' = [status EXCEPT !["versions"] = "ready", !["set"] = "loading"]
  /\ UNCHANGED <<resolved, tests, listed>>
ArriveRuns(r) ==
  /\ r.load = "runs"
  /\ listed' = SeqUpTo(r.value)
  /\ status' = [status EXCEPT !["runs"] = "ready"]
  /\ replies' = replies \ {r}
  /\ UNCHANGED <<selected, resolved, tests>>
ArriveSet(r) ==
  /\ r.load = "set"
  /\ Resolve(The(r.value), replies \ {r}, [status EXCEPT !["set"] = "ready"])
  /\ UNCHANGED <<selected, listed>>
ArriveTests(r) ==
  /\ r.load = "tests"
  /\ tests' = [of |-> r.of, latest |-> The(r.value)]
  /\ status' = [status EXCEPT !["tests"] = "ready"]
  /\ replies' = replies \ {r}
  /\ UNCHANGED <<selected, resolved, listed>>
Arrive(r) ==
  /\ r.value # None
  /\ \/ ArriveVersions(r) \/ ArriveRuns(r) \/ ArriveSet(r) \/ ArriveTests(r)
  /\ UNCHANGED <<server, exec, execError, acts, others, opened>>

(* A load that fails, before or after the server read anything: what the   *)
(* section knew before stays.                                              *)
AfterFailure(r) == [status EXCEPT ![r.load] = "error"]
Fail(r) ==
  /\ replies' = replies \ {r}
  /\ status' = AfterFailure(r)
  /\ UNCHANGED <<server, selected, resolved, tests, listed, exec, execError,
                 acts, others, opened>>
-----------------------------------------------------------------------------
(* One evaluation: the request, its answer, and the set when none was      *)
(* known.                                                                  *)
handleExecute ==
  /\ CanRun
  /\ acts < MaxActs
  /\ acts' = acts + 1
  /\ exec' = [of |-> selected, step |-> "post", run |-> 0,
              fetch |-> resolved = None]
  /\ execError' = FALSE
  /\ UNCHANGED <<server, status, selected, resolved, tests, listed, replies,
                 others, opened>>

ExecuteRun ==
  /\ exec # None
  /\ exec.step = "post"
  /\ IF Accepts(exec.of)
     THEN /\ compiled' = compiled \cup {exec.of}
          /\ evals' = Append(evals, exec.of)
          /\ exec' = [exec EXCEPT !.step = "posted", !.run = Len(evals) + 1]
     ELSE /\ exec' = [exec EXCEPT !.step = "failed"]
          /\ UNCHANGED <<compiled, evals>>
  /\ UNCHANGED <<cases, verdict, status, selected, resolved, tests, listed,
                 replies, execError, acts, others>>
  /\ Opens

ExecuteAnswered ==
  /\ exec # None
  /\ exec.step = "posted"
  /\ listed' = <<exec.run>> \o listed
  /\ exec' = IF exec.fetch THEN [exec EXCEPT !.step = "get"] ELSE None
  /\ UNCHANGED <<server, status, selected, resolved, tests, replies, execError,
                 acts, others, opened>>

ExecuteGot ==
  /\ exec # None
  /\ exec.step = "get"
  /\ Resolve(The(Read("set", exec.of)), replies, status)
  /\ exec' = None
  /\ UNCHANGED <<server, selected, listed, execError, acts, others, opened>>

ExecuteFailed ==
  /\ exec # None
  /\ exec' = None
  /\ execError' = TRUE
  /\ UNCHANGED <<server, status, selected, resolved, tests, listed, replies,
                 acts, others, opened>>

Execute == ExecuteRun \/ ExecuteAnswered \/ ExecuteGot \/ ExecuteFailed
-----------------------------------------------------------------------------
Next ==
  \/ OtherUser
  \/ \E v \in Versions : Select(v)
  \/ \E r \in replies : Answer(r) \/ Arrive(r) \/ Fail(r)
  \/ handleExecute
  \/ Execute

(* Every request is answered or fails, and the answer is handled.          *)
Fairness ==
  /\ WF_vars(\E r \in replies : Answer(r))
  /\ WF_vars(\E r \in replies : Arrive(r))
  /\ WF_vars(Execute)
Spec == Init /\ [][Next]_vars /\ Fairness
-----------------------------------------------------------------------------
TypeOK ==
  /\ compiled \subseteq Versions /\ cases \subseteq compiled \cap Enforceable
  /\ verdict \in [Versions -> Verdicts]
  /\ evals \in Seq(Evaluable)
  /\ status \in [Loads -> Status]
  /\ selected \in Versions \cup {None} /\ resolved \in compiled \cup {None}
  /\ tests.of \in Versions \cup {None} /\ tests.latest \in Verdicts
  /\ \A i \in DOMAIN listed : listed[i] \in 1..Len(evals)
  /\ acts \in 0..MaxActs /\ others \in 0..MaxOthers
  /\ opened \subseteq Versions

(* When the loads of the selected version have all succeeded, the set and  *)
(* the Rule Test Runs the section decides on are those of that version:    *)
(* an answer for a version selected before never replaces them.            *)
EvidenceIsSelected ==
  /\ status["set"] = "ready" /\ exec = None => resolved \in {selected, None}
  /\ status["set"] = "ready" /\ status["tests"] = "ready" /\ exec = None
       => tests.of = resolved

(* The button is offered only for a version that could be evaluated: once  *)
(* the loads about it have succeeded, and however they were overtaken by   *)
(* selections, compilations, test runs and evaluations of others, the      *)
(* server's gate was open for the version at a moment since the section    *)
(* was mounted.  It may have closed since; the server looks again.         *)
GateSound ==
  CanRun /\ status["set"] = "ready" /\ status["tests"] = "ready"
    => selected \in opened

(* A load is pending or the button is busy.                                *)
Waiting == exec # None \/ \E l \in Loads : status[l] = "loading"
(* Whatever becomes of the requests, the page comes to rest again and      *)
(* again.                                                                  *)
ComesToRest == []<>~Waiting
-----------------------------------------------------------------------------
(* Violated.  The gate beside an enabled button is about the selected      *)
(* version (format.ts says "this Policy Version" of it): after the set of  *)
(* a newly selected version fails to load, or the runs of its set, the     *)
(* gate of the one before stays and the button with it.                    *)
GateOfSelected ==
  CanRun /\ resolveRuleTestRunGateStatus = "open"
    => resolved = selected /\ tests.of = selected

(* Violated.  An evaluation that was answered is in the list, once: the    *)
(* initial list of runs may arrive after the answer without it, or before  *)
(* the answer with it.                                                     *)
ListedOnce ==
  status["runs"] = "ready" =>
    /\ \A i, j \in DOMAIN listed : listed[i] = listed[j] => i = j
    /\ exec # None /\ exec.step = "get" =>
         \E i \in DOMAIN listed : listed[i] = exec.run

(* Violated.  The gate is required only of a set with generated test cases *)
(* (format.ts); a set compiled by the first evaluation has none, the       *)
(* server would evaluate again, and the button is closed.                  *)
ClosedMeansRefused ==
  /\ FormShown /\ resolved # None /\ resolved = selected
  /\ tests = [of |-> resolved, latest |-> verdict[resolved]]
  /\ resolveRuleTestRunGateStatus = "missing_run"
  => ~ServerGate(selected)
=============================================================================

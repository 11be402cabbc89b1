------------------------- MODULE SandcastlePipeline -------------------------
(***************************************************************************)
(* The agent pipeline of .sandcastle/main.mts: `npm run agent:run` lists   *)
(* the issues labelled ready-for-agent, picks a few, claims them and runs  *)
(* one pipeline per issue in parallel, implement, review, verify, publish. *)
(*                                                                         *)
(* GitHub keeps all the state that outlives a run, as labels; the code     *)
(* locks nothing and every gh call may throw.  An exception inside a       *)
(* pipeline is collected by Promise.allSettled; one outside ends the run   *)
(* where it is.                                                            *)
(***************************************************************************)
EXTENDS Naturals, FiniteSets

CONSTANTS
  Runs,            \* executions of the script, each made once
  Issues,          \* issue numbers
  Blockers,        \* the "Blocked by" section of each issue
  Planning,        \* PRDs and human-in-the-loop issues
  PARALLEL_RUNS,
  Overlap,         \* may a run start while another one is active
  GhFails,         \* may gh issue edit and gh issue comment throw
  LookupsFail,     \* may gh issue view throw
  Misnumbered      \* may the last commit name another issue

ASSUME SandcastleAssumption ==
  /\ Issues \subseteq Nat
  /\ Blockers \in [Issues -> SUBSET Issues]
  /\ Planning \subseteq Issues
  /\ PARALLEL_RUNS \in Nat \ {0}
  /\ {Overlap, GhFails, LookupsFail, Misnumbered} \subseteq BOOLEAN

Labels == {"ready", "in_progress", "pr_open"}
Phases == {"new", "picking", "claiming", "processing", "reporting",
           "done", "died"}
Stages == {"none", "picked", "implementing", "reviewing", "verifying",
           "releasing", "publishing", "labelling",
           "disposing",   \* returned, the sandbox not yet disposed of
           "settled", "failed",
           "reported"}    \* failed, and released to the backlog
Working == {"implementing", "reviewing", "verifying", "publishing"}

VARIABLES label,    \* the agent label of each issue
          open,     \* issues that are open
          phase,    \* where each run is
          listed,   \* issues the run has listed and not yet considered
          stage,    \* the pipeline of each run for each issue
          releasing,\* the issue a pipeline releases after a failed verify
          prs       \* runs that opened a pull request for each issue
vars == <<label, open, phase, listed, stage, releasing, prs>>

TypeOK == /\ label \in [Issues -> Labels]
          /\ open \subseteq Issues
          /\ phase \in [Runs -> Phases]
          /\ listed \in [Runs -> SUBSET Issues]
          /\ stage \in [Runs -> [Issues -> Stages]]
          /\ releasing \in [Runs -> [Issues -> Issues]]
          /\ prs \in [Issues -> SUBSET Runs]

Init == /\ label = [i \in Issues |-> "ready"]
        /\ open = Issues
        /\ phase = [r \in Runs |-> "new"]
        /\ listed = [r \in Runs |-> {}]
        /\ stage = [r \in Runs |-> [i \in Issues |-> "none"]]
        /\ releasing = [r \in Runs |-> [i \in Issues |-> i]]
        /\ prs = [i \in Issues |-> {}]

In(r, s) == {i \in Issues : stage[r][i] = s}
Picked(r) == Issues \ In(r, "none")
Lowest(S) == CHOOSE i \in S : \A j \in S : i <= j
Active(r) == phase[r] \notin {"new", "done", "died"}

To(r, i, s) == stage' = [stage EXCEPT ![r][i] = s]
Enter(r, p) == phase' = [phase EXCEPT ![r] = p]
-----------------------------------------------------------------------------
(* Picking: listReadyIssues, then pickNextIssues over the sorted list.     *)

ListReadyIssues(r) ==
  /\ phase[r] = "new"
  /\ Overlap \/ \A s \in Runs : ~Active(s)
  /\ listed' = [listed EXCEPT ![r] = {i \in open : label[i] = "ready"}]
  /\ Enter(r, "picking")
  /\ UNCHANGED <<label, open, stage, releasing, prs>>

(* isIssueOpen takes a failed lookup for a missing, closed issue.          *)
OpenBlockers(i, seen) == Blockers[i] \cap open \cap seen

IsActionable(i, seen) == i \notin Planning /\ OpenBlockers(i, seen) = {}

RunsWithoutBlockers(r, i) == Blockers[i] \cap Picked(r) = {}

Consider(r) ==
  /\ phase[r] = "picking"
  /\ listed[r] # {}
  /\ Cardinality(Picked(r)) < PARALLEL_RUNS
  /\ \E seen \in IF LookupsFail THEN SUBSET Issues ELSE {Issues} :
       LET i == Lowest(listed[r])
       IN /\ listed' = [listed EXCEPT ![r] = @ \ {i}]
          /\ IF IsActionable(i, seen) /\ RunsWithoutBlockers(r, i)
             THEN To(r, i, "picked")
             ELSE UNCHANGED stage
  /\ UNCHANGED <<label, open, phase, releasing, prs>>

(* With nothing actionable the script stops.                               *)
PickingDone(r) ==
  /\ phase[r] = "picking"
  /\ listed[r] = {} \/ Cardinality(Picked(r)) = PARALLEL_RUNS
  /\ Enter(r, IF Picked(r) = {} THEN "done" ELSE "claiming")
  /\ UNCHANGED <<label, open, listed, stage, releasing, prs>>
-----------------------------------------------------------------------------
(* An edit of the labels followed by a comment: either may throw.          *)
EditThenComment(i, l, ok, thrown) ==
  \/ label' = [label EXCEPT ![i] = l] /\ ok
  \/ GhFails /\ label' = [label EXCEPT ![i] = l] /\ thrown
  \/ GhFails /\ UNCHANGED label /\ thrown

(* claimIssue inside issues.map: nothing catches its exception.            *)
Claim(r) ==
  /\ phase[r] = "claiming"
  /\ In(r, "picked") # {}
  /\ LET i == Lowest(In(r, "picked"))
     IN EditThenComment(i, "in_progress",
          To(r, i, "implementing") /\ UNCHANGED phase,
          Enter(r, "died") /\ UNCHANGED stage)
  /\ UNCHANGED <<open, listed, releasing, prs>>

(* The pipelines start when every issue is claimed.                        *)
StartPipelines(r) ==
  /\ phase[r] = "claiming"
  /\ In(r, "picked") = {}
  /\ Enter(r, "processing")
  /\ UNCHANGED <<label, open, listed, stage, releasing, prs>>

Step(r, i, from, to) ==
  /\ phase[r] = "processing"
  /\ stage[r][i] = from
  /\ stage' = [stage EXCEPT ![r][i] = to]

(* An agent or the sandbox throws, whatever the agent has done by then:    *)
(* the publisher may have opened its pull request.                         *)
Throws(r, i) ==
  /\ \E s \in Working : Step(r, i, s, "failed")
  /\ UNCHANGED <<label, open, phase, listed, releasing, prs>>

(* No commits: the issue is released to the backlog.                       *)
Implement(r, i) ==
  /\ \E commits \in BOOLEAN :
       Step(r, i, "implementing", IF commits THEN "reviewing" ELSE "releasing")
  /\ UNCHANGED <<label, open, phase, listed, releasing, prs>>

Review(r, i) ==
  /\ Step(r, i, "reviewing", "verifying")
  /\ UNCHANGED <<label, open, phase, listed, releasing, prs>>

(* execInSandbox turns a failing command into an exit code; the number to  *)
(* release is read from the subject of the last commit.                    *)
Verify(r, i) ==
  /\ \/ Step(r, i, "verifying", "publishing") /\ UNCHANGED releasing
     \/ /\ Step(r, i, "verifying", "releasing")
        /\ \E n \in IF Misnumbered THEN Issues ELSE {i} :
             releasing' = [releasing EXCEPT ![r][i] = n]
  /\ UNCHANGED <<label, open, phase, listed, prs>>

Release(r, i) ==
  /\ phase[r] = "processing"
  /\ stage[r][i] = "releasing"
  /\ EditThenComment(releasing[r][i], "ready", To(r, i, "disposing"),
                     To(r, i, "failed"))
  /\ UNCHANGED <<open, phase, listed, releasing, prs>>

(* The publisher is an agent: it opens the pull request while it works,    *)
(* and may end without one.                                                *)
OpenPullRequest(r, i) ==
  /\ phase[r] = "processing"
  /\ stage[r][i] = "publishing"
  /\ r \notin prs[i]
  /\ prs' = [prs EXCEPT ![i] = @ \cup {r}]
  /\ UNCHANGED <<label, open, phase, listed, stage, releasing>>

Publish(r, i) ==
  /\ Step(r, i, "publishing", "labelling")
  /\ UNCHANGED <<label, open, phase, listed, releasing, prs>>

MarkIssuePrOpen(r, i) ==
  /\ phase[r] = "processing"
  /\ stage[r][i] = "labelling"
  /\ \/ label' = [label EXCEPT ![i] = "pr_open"] /\ To(r, i, "disposing")
     \/ GhFails /\ UNCHANGED label /\ To(r, i, "failed")
  /\ UNCHANGED <<open, phase, listed, releasing, prs>>

(* `await using`: the sandbox is disposed of when the pipeline returns, and *)
(* a disposal that throws makes it a failed one.                           *)
Dispose(r, i) ==
  /\ \E s \in {"settled", "failed"} : Step(r, i, "disposing", s)
  /\ UNCHANGED <<label, open, phase, listed, releasing, prs>>

(* mutant: Promise.all, which reports with the first failure.              *)
FirstFailure(r) ==
  \/ In(r, "failed") # {}
  \/ \A i \in Picked(r) : stage[r][i] \in {"settled", "failed"}

(* mutant: failures are not counted as answers.                            *)
AllFulfilled(r) == \A i \in Picked(r) : stage[r][i] = "settled"

AllSettled(r) == \A i \in Picked(r) : stage[r][i] \in {"settled", "failed"}

Settle(r) ==
  /\ phase[r] = "processing"
  /\ AllSettled(r)
  /\ Enter(r, "reporting")
  /\ UNCHANGED <<label, open, listed, stage, releasing, prs>>

(* The rejected outcomes are released in order; a throw ends the script.   *)
ReleaseFailed(r) ==
  /\ phase[r] = "reporting"
  /\ In(r, "failed") # {}
  /\ LET i == Lowest(In(r, "failed"))
     IN EditThenComment(i, "ready",
          To(r, i, "reported") /\ UNCHANGED phase,
          Enter(r, "died") /\ UNCHANGED stage)
  /\ UNCHANGED <<open, listed, releasing, prs>>

Finish(r) ==
  /\ phase[r] = "reporting"
  /\ In(r, "failed") = {}
  /\ Enter(r, "done")
  /\ UNCHANGED <<label, open, listed, stage, releasing, prs>>

(* A human merges a pull request and closes its issue.                     *)
Merge(i) ==
  /\ i \in open /\ prs[i] # {}
  /\ open' = open \ {i}
  /\ UNCHANGED <<label, phase, listed, stage, releasing, prs>>

Pipeline(r, i) ==
  \/ Implement(r, i) \/ Review(r, i) \/ Verify(r, i) \/ Release(r, i)
  \/ OpenPullRequest(r, i) \/ Publish(r, i) \/ MarkIssuePrOpen(r, i)
  \/ Dispose(r, i) \/ Throws(r, i)

Script(r) ==
  \/ ListReadyIssues(r) \/ Consider(r) \/ PickingDone(r) \/ Claim(r)
  \/ StartPipelines(r) \/ Settle(r) \/ ReleaseFailed(r) \/ Finish(r)

Next == \/ \E r \in Runs : Script(r) \/ \E i \in Issues : Pipeline(r, i)
        \/ \E i \in Issues : Merge(i)

Spec == Init /\ [][Next]_vars

(* A script that runs goes on; nobody has to start one or to merge.        *)
Fairness ==
  \A r \in Runs : /\ WF_vars(phase[r] # "new" /\ Script(r))
                  /\ \A i \in Issues : WF_vars(Pipeline(r, i))
LiveSpec == Spec /\ Fairness
-----------------------------------------------------------------------------
(* The prompt tells the implementer that its issue is claimed and carries  *)
(* agent-in-progress (.sandcastle/implement-prompt.md:10): the label of an *)
(* issue stays with the pipeline that works on it.                         *)
WorkingIsLabelled ==
  \A r \in Runs, i \in Issues :
    phase[r] = "processing" /\ stage[r][i] \in Working
      => label[i] = "in_progress"

(* "Do not run an issue in parallel with an open blocker, including one    *)
(* already selected for this batch" (.sandcastle/main.mts:272).            *)
(* Violated when a blocker has the higher number and its lookup fails.     *)
NoBlockerInParallel ==
  \A r \in Runs : \A i, b \in Issues :
    stage[r][i] \in Working /\ stage[r][b] \in Working => b \notin Blockers[i]

(* The pull requests of pipelines that did not fail.                       *)
Succeeded(i) == {r \in prs[i] : stage[r][i] \notin {"failed", "reported"}}

(* Work that reached a pull request is done again only where its pipeline  *)
(* failed: of the pull requests for an issue, from whatever runs, at most  *)
(* one is of a pipeline that did not.                                      *)
PublishedOnce ==
  \A i \in Issues : \A r, s \in Succeeded(i) : r = s

(* "Agent opened a PR; awaiting human review and merge"                    *)
(* (.sandcastle/main.mts:126, on agent-pr-open): once its run has ended,   *)
(* an issue with such a pull request carries that label, which keeps it    *)
(* out of the list of every later run.                                     *)
PublishedIsLabelled ==
  \A i \in Issues : \A r \in Succeeded(i) :
    ~Active(r) => label[i] = "pr_open"

(* Violated, as the README says: a publisher that opened its pull request  *)
(* and then failed, or a sandbox that could not be disposed of after it,   *)
(* puts the issue back among the ready ones, and a later run opens a       *)
(* second pull request.                                                    *)
OnePullRequest == \A i \in Issues : Cardinality(prs[i]) <= 1

(* "Agent is actively implementing or reviewing" (.sandcastle/main.mts:121 *)
(* on agent-in-progress): some run that has not ended works on the issue.  *)
(* Violated when a gh call throws while issues are claimed (GhFails).      *)
InProgressMeansWorkedOn ==
  \A i \in Issues : label[i] = "in_progress" =>
    \E r \in Runs : Active(r) /\ stage[r][i] # "none"

(* What the labels say of an issue is so, at every moment of a run that    *)
(* nothing but its agents and its lookups disturbs.                        *)
LabelsTellTheTruth ==
  /\ TypeOK
  /\ WorkingIsLabelled
  /\ NoBlockerInParallel
  /\ PublishedOnce
  /\ PublishedIsLabelled
  /\ InProgressMeansWorkedOn

(* "Agent opened a PR; awaiting human review and merge" and the backlog:   *)
(* a claimed issue ends with a pull request or back among the ready ones,  *)
(* whatever the agents do.                                                 *)
EveryClaimSettled ==
  \A i \in Issues : label[i] = "in_progress" ~> label[i] # "in_progress"
=============================================================================

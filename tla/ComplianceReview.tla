-------------------------- MODULE ComplianceReview -------------------------
(***************************************************************************)
(* Compliance Review: the queue of outcomes that wait for a human          *)
(* (compliance_review/service.py, store.py and router.py) and the pages on *)
(* which an Approver works through it (client/src/compliance-review).      *)
(* The server checks that an outcome is undecided and then inserts the     *)
(* decision, whose outcome is a unique key; the audit event is committed   *)
(* with it.  A page loads the queue for a scope, cancels no load, and      *)
(* after a decision loads the review and then the queue again.  The drawer *)
(* covers the page for a pointer only.  Outcomes here are those of runs    *)
(* that ended; the user and the others are Approvers.                      *)
(***************************************************************************)
EXTENDS Naturals, FiniteSets

CONSTANTS None, Reviews, Runs,
          RunOf,      \* [Reviews -> Runs]
          Violations, \* the reviews whose outcome is a violation
          Types,      \* upheld, overridden_pass, escalated
          MaxOpens, MaxConfirms, MaxScopes, MaxOthers \* bounds of the checks

ReviewAssumption == RunOf \in [Reviews -> Runs] /\ Violations \subseteq Reviews
                    /\ None \notin Reviews \cup Runs
                    /\ None \notin [type : Types, who : {"user", "other"}]

VARIABLES decision, \* server: of each review, or None
          audit,    \* server: compliance_review.resolved events
          requests, \* resolutions: [who, by, review, type, rationale, scope, at, heard]
          scope,    \* the catalogue's filters: run or None, violations
          status, queue, queueOf, \* queueOf: history, the scope the queue was loaded for
          loads,    \* of the queue: [number, of, value], value None until it is read
          selected, \* the review shown, or None
          instance, \* the detail page that is, or was last, mounted
          detail,   \* its state
          fetches,  \* of a review: [by, review, value, after, scope]
          done,     \* history: the reviews this detail page was told are resolved
          confirms, scopes, others
server == <<decision, audit>>
catalogue == <<scope, status, queue, queueOf, loads>>
page == <<selected, instance, detail, fetches, done>>
vars == <<decision, audit, requests, scope, status, queue, queueOf, loads, selected,
          instance, detail, fetches, done, confirms, scopes, others>>

Scopes == [run : Runs \cup {None}, violations : BOOLEAN]
AllOfThem == [run |-> None, violations |-> TRUE]
Decisions == [type : Types, who : {"user", "other"}]

list_compliance_reviews(s) ==
  {r \in Reviews : /\ s.run \in {None, RunOf[r]}
                   /\ s.violations \/ r \notin Violations
                   /\ decision[r] = None}

(* Mounting a detail page starts from its first state.                     *)
NewDetail(r) == [status |-> "loading", resolved |-> FALSE, open |-> FALSE,
                 rationale |-> None, resolving |-> FALSE]

Init ==
  /\ decision = [r \in Reviews |-> None] /\ audit = {} /\ requests = {}
  /\ scope = AllOfThem
  /\ status = "loading" /\ queue = {} /\ queueOf = None
  /\ loads = {[number |-> 0, of |-> AllOfThem, value |-> None]}
  /\ selected = None /\ instance = 0
  /\ detail = [status |-> "loading", resolved |-> FALSE, open |-> FALSE,
               rationale |-> None, resolving |-> FALSE]
  /\ fetches = {} /\ done = FALSE
  /\ confirms = 0 /\ scopes = 0 /\ others = 0
-----------------------------------------------------------------------------
(* The server.                                                             *)
OtherApprover ==
  /\ others < MaxOthers /\ others' = others + 1
  /\ \E r \in Reviews, t \in Types :
       requests' = requests \cup
         {[who |-> "other", by |-> 0, review |-> r, type |-> t, rationale |-> r,
           scope |-> None, at |-> "sent", heard |-> FALSE]}
  /\ UNCHANGED <<server, catalogue, page, confirms, scopes>>

(* An answer nobody waits for is forgotten.                                *)
Answer(q, at) == (requests \ {q}) \cup (IF q.heard THEN {[q EXCEPT !.at = at]} ELSE {})

(* resolve_compliance_review reads the decision, and the store once more.  *)
Check ==
  /\ \E q \in requests :
       /\ q.at = "sent"
       /\ requests' = IF decision[q.review] = None
                      THEN (requests \ {q}) \cup {[q EXCEPT !.at = "checked"]}
                      ELSE Answer(q, "conflict")
  /\ UNCHANGED <<server, catalogue, page, confirms, scopes, others>>

Taken(r) == decision[r] # None
Audited(e, taken) == IF taken THEN audit ELSE audit \cup {e}

(* The flush, which the unique key may refuse, and the commit.             *)
Record ==
  /\ \E q \in requests :
       LET d == [type |-> q.type, who |-> q.who]
           taken == Taken(q.review) IN
       /\ q.at = "checked"
       /\ decision' = IF taken THEN decision ELSE [decision EXCEPT ![q.review] = d]
       /\ audit' = Audited([review |-> q.review, decision |-> d], taken)
       /\ requests' = Answer(q, IF taken THEN "integrity error" ELSE "done")
  /\ UNCHANGED <<catalogue, page, confirms, scopes, others>>

(* The handler stops before its commit.                                    *)
Dropped ==
  /\ \E q \in requests :
       q.at \in {"sent", "checked"} /\ requests' = Answer(q, "error")
  /\ UNCHANGED <<server, catalogue, page, confirms, scopes, others>>
-----------------------------------------------------------------------------
(* The catalogue.                                                          *)
loadQueue(s) ==
  /\ status' = "loading"
  /\ LET n == CHOOSE n \in 0..Cardinality(loads) : \A l \in loads : l.number # n IN
     loads' = loads \cup {[number |-> n, of |-> s, value |-> None]}

QueueRead ==
  /\ \E l \in loads :
       /\ l.value = None
       /\ loads' = (loads \ {l}) \cup {[l EXCEPT !.value = list_compliance_reviews(l.of)]}
  /\ UNCHANGED <<server, requests, scope, status, queue, queueOf, page, confirms,
                 scopes, others>>

QueueArrives ==
  /\ \E l \in loads :
       /\ l.value # None
       /\ loads' = loads \ {l} /\ queue' = l.value /\ queueOf' = l.of
  /\ status' = "ready"
  /\ UNCHANGED <<server, requests, scope, page, confirms, scopes, others>>

AfterFailure(st) == "error"
QueueFails ==
  /\ \E l \in loads : loads' = loads \ {l}
  /\ status' = AfterFailure(status)
  /\ UNCHANGED <<server, requests, scope, queue, queueOf, page, confirms, scopes,
                 others>>

(* The picker of a run, the toggle of violations and Clear filters.        *)
ChangeScope ==
  /\ selected = None /\ scopes < MaxScopes /\ scopes' = scopes + 1
  /\ \E s \in Scopes \ {scope} : scope' = s /\ loadQueue(s)
  /\ UNCHANGED <<server, requests, queue, queueOf, page, confirms, others>>

onOpenReview ==
  /\ selected = None /\ status = "ready" /\ instance < MaxOpens
  /\ \E r \in queue :
       /\ selected' = r
       /\ instance' = instance + 1
       /\ detail' = NewDetail(r)
       /\ fetches' = fetches \cup {[by |-> instance', review |-> r, value |-> None,
                                    after |-> FALSE, scope |-> scope]}
  /\ done' = FALSE
  /\ UNCHANGED <<server, requests, catalogue, confirms, scopes, others>>
-----------------------------------------------------------------------------
(* The detail page.                                                        *)
Mounted(by) == selected # None /\ by = instance

(* While it loads nothing of it can be left or pressed.                    *)
onBack ==
  /\ selected # None /\ detail.status # "loading"
  /\ selected' = None
  /\ UNCHANGED <<server, requests, catalogue, instance, detail, fetches, done,
                 confirms, scopes, others>>

loadDetail(r, after, s) ==
  fetches' = fetches \cup {[by |-> instance, review |-> r, value |-> None,
                            after |-> after, scope |-> s]}

DetailRead ==
  /\ \E f \in fetches :
       /\ f.value = None
       /\ fetches' = (fetches \ {f}) \cup
            {[f EXCEPT !.value = IF decision[f.review] = None THEN "open" ELSE "resolved"]}
  /\ UNCHANGED <<server, requests, catalogue, selected, instance, detail, done,
                 confirms, scopes, others>>

(* After a decision the queue is loaded too, for the scope it was taken in.*)
DetailEnds(f, st, resolved) ==
  /\ fetches' = fetches \ {f}
  /\ detail' = IF Mounted(f.by)
               THEN [detail EXCEPT !.status = st, !.resolved = resolved,
                                   !.resolving = IF f.after THEN FALSE ELSE @]
               ELSE detail
  /\ IF f.after THEN loadQueue(f.scope) ELSE UNCHANGED <<status, loads>>

DetailArrives ==
  /\ \E f \in fetches : f.value # None /\ DetailEnds(f, "ready", f.value = "resolved")
  /\ UNCHANGED <<server, requests, scope, queue, queueOf, selected, instance, done,
                 confirms, scopes, others>>
DetailFails ==
  /\ \E f \in fetches : DetailEnds(f, "error", detail.resolved)
  /\ UNCHANGED <<server, requests, scope, queue, queueOf, selected, instance, done,
                 confirms, scopes, others>>

CanAct == selected # None /\ detail.status = "ready"
Resolve ==
  /\ CanAct /\ ~detail.resolved /\ ~detail.open
  /\ detail' = [detail EXCEPT !.open = TRUE]
  /\ UNCHANGED <<server, requests, catalogue, selected, instance, fetches, done,
                 confirms, scopes, others>>

(* What was typed stays when the drawer is closed.                         *)
onClose ==
  /\ CanAct /\ detail.open /\ ~detail.resolving
  /\ detail' = [detail EXCEPT !.open = FALSE]
  /\ UNCHANGED <<server, requests, catalogue, selected, instance, fetches, done,
                 confirms, scopes, others>>

onRationaleChange ==
  /\ CanAct /\ detail.open /\ ~detail.resolving
  /\ detail' \in {[detail EXCEPT !.rationale = v] : v \in {None, selected}}
  /\ UNCHANGED <<server, requests, catalogue, selected, instance, fetches, done,
                 confirms, scopes, others>>

handleConfirmResolution ==
  /\ CanAct /\ detail.open /\ ~detail.resolving /\ detail.rationale # None
  /\ confirms < MaxConfirms /\ confirms' = confirms + 1
  /\ detail' = [detail EXCEPT !.resolving = TRUE]
  /\ \E t \in Types :
       requests' = requests \cup
         {[who |-> "user", by |-> instance, review |-> selected, type |-> t,
           rationale |-> detail.rationale, scope |-> scope, at |-> "sent",
           heard |-> TRUE]}
  /\ UNCHANGED <<server, catalogue, selected, instance, fetches, done, scopes, others>>

Reloading(d) == [d EXCEPT !.status = "loading"]
ResolutionArrives ==
  /\ \E q \in requests :
       /\ q.at = "done"
       /\ requests' = requests \ {q}
       /\ detail' = IF Mounted(q.by)
                    THEN Reloading([detail EXCEPT !.open = FALSE, !.rationale = None])
                    ELSE detail
       /\ done' = (done \/ Mounted(q.by))
       /\ fetches' = fetches \cup {[by |-> q.by, review |-> q.review, value |-> None,
                                    after |-> TRUE, scope |-> q.scope]}
  /\ UNCHANGED <<server, catalogue, selected, instance, confirms, scopes, others>>

(* Refused, or the answer is lost wherever the server is.                  *)
ResolutionFails ==
  /\ \E q \in requests :
       /\ q.heard
       /\ requests' = (requests \ {q}) \cup
            (IF q.at \in {"sent", "checked"} THEN {[q EXCEPT !.heard = FALSE]} ELSE {})
       /\ detail' = IF Mounted(q.by) THEN [detail EXCEPT !.resolving = FALSE] ELSE detail
  /\ UNCHANGED <<server, catalogue, selected, instance, fetches, done, confirms,
                 scopes, others>>

Next ==
  \/ OtherApprover \/ Check \/ Record \/ Dropped
  \/ QueueRead \/ QueueArrives \/ QueueFails \/ ChangeScope \/ onOpenReview
  \/ onBack \/ DetailRead \/ DetailArrives \/ DetailFails \/ Resolve \/ onClose
  \/ onRationaleChange \/ handleConfirmResolution \/ ResolutionArrives
  \/ ResolutionFails

Spec == Init /\ [][Next]_vars
(* The server answers or the connection fails.                             *)
FairSpec ==
  /\ Spec
  /\ WF_vars(QueueRead \/ QueueArrives \/ QueueFails)
  /\ WF_vars(DetailRead \/ DetailArrives \/ DetailFails)
  /\ WF_vars(ResolutionArrives \/ ResolutionFails)
-----------------------------------------------------------------------------
(* The variables hold what their comments say; what waits for a human is   *)
(* shown for the reviews of its scope only.                                *)
TypeOK ==
  /\ decision \in [Reviews -> Decisions \cup {None}]
  /\ scope \in Scopes /\ queue \subseteq Reviews
  /\ status \in {"loading", "ready", "error"}
  /\ selected \in Reviews \cup {None}
  /\ detail.status \in {"loading", "ready", "error"}
  /\ \A l \in loads : l.value # None =>
       \A r \in l.value : l.of.run \in {None, RunOf[r]}

(* Every decision has its audit event and no event is of a decision that   *)
(* was refused.                                                            *)
DecisionsAudited ==
  audit = {[review |-> r, decision |-> decision[r]] :
             r \in {x \in Reviews : decision[x] # None}}

(* The rationale sent for a review was typed for it, whatever the drawer   *)
(* of another was left with.                                               *)
RationaleOfItsReview == \A q \in requests : q.rationale = q.review

(* A page that was told its review is resolved shows it as resolved, and   *)
(* offers no second resolution.                                            *)
ResolvedIsShown ==
  done /\ selected # None /\ detail.status = "ready" => detail.resolved

(* Queue or review are loading, or a resolution is under way.              *)
Waiting == \/ status = "loading"
           \/ selected # None /\ (detail.status = "loading" \/ detail.resolving)
(* Whatever becomes of the requests, the page comes to rest again and      *)
(* again.                                                                  *)
ComesToRest == []<>~Waiting

(* Violated, as the README says:                                           *)
(* ComplianceReviewCatalog.tsx writes the scope over the queue: what is    *)
(* ready is the queue of that scope.                                       *)
QueueIsOfScope == status = "ready" => queueOf = scope

(* Violated, as the README says:                                           *)
(* The tests say that the second resolution of an outcome is a conflict.   *)
DuplicateIsConflict == \A q \in requests : q.at # "integrity error"
=============================================================================

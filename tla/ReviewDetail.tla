--------------------------- MODULE ReviewDetail ---------------------------
(***************************************************************************)
(* The page of one Candidate Rule (client/src/candidate-rules/             *)
(* CandidateRuleDetail.tsx) as the queue opens it, moves it on to the next *)
(* rule after a decision and closes it.  The content of the form is        *)
(* RuleEditor's; here it is clean or has unsaved changes.  One component   *)
(* instance serves several rules, and what it has in flight for one rule   *)
(* may arrive while it shows another.                                      *)
(***************************************************************************)
EXTENDS Naturals, Sequences, FiniteSetsExt, Functions

CONSTANTS Queue,    \* the rules in the order of the list
          None,
          MaxMounts \* bound on how often a rule is opened from the list

Rules == Range(Queue)
States == {"in_review", "approved", "rejected"}

(* A list shows every rule once; None is no review.                        *)
QueueAssumption == /\ Queue \in Seq(Rules)
                   /\ \A i, j \in DOMAIN Queue : Queue[i] = Queue[j] => i = j
                   /\ None \notin [rule : Rules, state : States]

Modes == {"approve", "reject"}
Outcome(m) == IF m = "approve" THEN "approved" ELSE "rejected"

VARIABLES server,    \* the state of every rule
          listed,    \* the state the list shows
          tab,       \* of the list: queue or all
          id,        \* the rule that is open, None for the list
          mount,     \* which opening this is, and of which rule
          effect,    \* id changed, loadReview has not run yet
          status, shown, \* the loaded review: rule and state, or None
          dirty,     \* the form has unsaved changes
          modal,     \* mode of the open decision dialog, or None
          loads,     \* what loadReview has in flight
          sections,  \* the source sections: status and the rule they are of
          saving, resolving, \* requests in flight, None for none
          lost       \* history: unsaved changes a decision threw away
vars == <<server, listed, tab, id, mount, effect, status, shown, dirty, modal,
          loads, sections, saving, resolving, lost>>
page == <<effect, status, shown, dirty, modal, sections>>
-----------------------------------------------------------------------------
(* The positions of the queue that the tab of the list displays.           *)
Displayed == {i \in DOMAIN Queue : tab = "all" \/ listed[Queue[i]] = "in_review"}
NoSections == [status |-> "idle", of |-> None]

Init == /\ server = [r \in Rules |-> "in_review"]
        /\ listed = server
        /\ tab \in {"queue", "all"}
        /\ id = None
        /\ mount = [n |-> 0, first |-> None]
        /\ effect = FALSE
        /\ status = "loading" /\ shown = None /\ dirty = FALSE /\ modal = None
        /\ loads = {}
        /\ sections = NoSections
        /\ saving = None /\ resolving = None
        /\ lost = FALSE

Fresh == /\ effect' = TRUE
         /\ status' = "loading" /\ shown' = None /\ dirty' = FALSE
         /\ modal' = None
         /\ sections' = NoSections

(* A new instance: what an earlier one has in flight no longer reaches it. *)
Open(r) == /\ id = None
           /\ \E i \in Displayed : Queue[i] = r
           /\ mount.n < MaxMounts
           /\ id' = r
           /\ mount' = [n |-> mount.n + 1, first |-> r]
           /\ Fresh
           /\ loads' = {}
           /\ saving' = None /\ resolving' = None
           /\ UNCHANGED <<server, listed, tab, lost>>

(* A dialog covers the way back; an error or a missing rule has one.       *)
Back == /\ id # None /\ modal = None
        /\ status # "loading"
        /\ id' = None
        /\ UNCHANGED <<server, listed, tab, mount, page, loads, saving,
                       resolving, lost>>

RuleToLoad == id

loadReview ==
  /\ id # None /\ effect
  /\ effect' = FALSE
  /\ status' = "loading"
  /\ sections' = NoSections
  /\ modal' = None
  /\ loads' = loads \cup {[rule |-> RuleToLoad, what |-> "review"]}
  /\ UNCHANGED <<server, listed, tab, id, mount, shown, dirty, saving,
                 resolving, lost>>

Show(r) == /\ shown' = [rule |-> r, state |-> server'[r]]
           /\ dirty' = FALSE

ArriveReview(l) ==
  /\ id # None /\ l.what = "review"
  /\ UNCHANGED server
  /\ Show(l.rule)
  /\ status' = "ready"
  /\ sections' = [sections EXCEPT !.status = "loading"]
  /\ loads' = (loads \ {l}) \cup {[rule |-> l.rule, what |-> "sections"]}
  /\ UNCHANGED <<listed, tab, id, mount, effect, modal, saving, resolving, lost>>

FailedReview == {"error", "not_found"}
FailReview(l) ==
  /\ id # None /\ l.what = "review"
  /\ status' \in FailedReview
  /\ shown' = None /\ dirty' = FALSE
  /\ loads' = loads \ {l}
  /\ UNCHANGED <<server, listed, tab, id, mount, effect, modal, sections,
                 saving, resolving, lost>>

(* loadSourceDocumentSections stores what arrives, whichever rule is open. *)
ArriveSections(l) ==
  /\ id # None /\ l.what = "sections"
  /\ \/ sections' = [status |-> "ready", of |-> l.rule]
     \/ sections' = [sections EXCEPT !.status = "error"]
  /\ loads' = loads \ {l}
  /\ UNCHANGED <<server, listed, tab, id, mount, effect, status, shown, dirty,
                 modal, saving, resolving, lost>>
-----------------------------------------------------------------------------
(* React runs the effects of a commit before the next user event.          *)
Usable == id # None /\ status = "ready" /\ ~effect

(* The inputs are disabled while a save is in flight only; those behind    *)
(* the dialog can be reached with the keyboard.                            *)
Edit == /\ Usable /\ saving = None
        /\ \E d \in BOOLEAN : dirty' = d
        /\ UNCHANGED <<server, listed, tab, id, mount, effect, status, shown,
                       modal, loads, sections, saving, resolving, lost>>

handleSave ==
  /\ Usable /\ dirty /\ saving = None /\ resolving = None
  /\ saving' = [rule |-> id, shown |-> shown.rule]
  /\ UNCHANGED <<server, listed, tab, id, mount, page, loads, resolving, lost>>

ArriveSave ==
  /\ id # None /\ saving # None
  /\ saving' = None
  /\ \/ /\ server[saving.rule] = "in_review"
        /\ UNCHANGED server
        /\ Show(saving.rule)
        /\ listed' = [listed EXCEPT ![saving.rule] = "in_review"]
     \/ UNCHANGED <<server, listed, shown, dirty>>
  /\ UNCHANGED <<tab, id, mount, effect, status, modal, loads, sections,
                 resolving, lost>>

canResolve == shown.state = "in_review"

openDecisionModal(m) ==
  /\ Usable /\ canResolve
  /\ saving = None /\ resolving = None /\ ~dirty /\ modal = None
  /\ modal' = m
  /\ UNCHANGED <<server, listed, tab, id, mount, effect, status, shown, dirty,
                 loads, sections, saving, resolving, lost>>

closeDecisionModal ==
  /\ modal # None /\ resolving = None
  /\ modal' = None
  /\ UNCHANGED <<server, listed, tab, id, mount, effect, status, shown, dirty,
                 loads, sections, saving, resolving, lost>>

(* The handler keeps the list of the render it was made in.                *)
handleResolveReview ==
  /\ Usable /\ modal # None /\ saving = None /\ resolving = None
  /\ resolving' = [rule |-> id, shown |-> shown.rule, mode |-> modal,
                   displayed |-> Displayed]
  /\ UNCHANGED <<server, listed, tab, id, mount, page, loads, saving, lost>>

(* handleDetailReviewResolved: the rule after the decided one.             *)
NextRule(displayed, r) ==
  LET after == {j \in displayed : \E i \in displayed : Queue[i] = r /\ i < j}
  IN IF after = {} THEN None ELSE Queue[Min(after)]

ArriveResolved ==
  /\ id # None /\ resolving # None
  /\ LET r == resolving.rule
         next == NextRule(resolving.displayed, r)
     IN /\ server[r] = "in_review"
        /\ server' = [server EXCEPT ![r] = Outcome(resolving.mode)]
        /\ Show(r)
        /\ listed' = [listed EXCEPT ![r] = Outcome(resolving.mode)]
        /\ id' = next
        /\ effect' = (next # None /\ next # id)
  /\ modal' = None
  /\ resolving' = None
  /\ lost' = (lost \/ dirty)
  /\ UNCHANGED <<tab, mount, status, loads, sections, saving>>

ResolveFails ==
  /\ id # None /\ resolving # None
  /\ resolving' = None
  /\ UNCHANGED <<server, listed, tab, id, mount, page, loads, saving, lost>>

OtherReviewer(r) == /\ server[r] = "in_review"
                    /\ server' = [server EXCEPT ![r] = "rejected"]
                    /\ UNCHANGED <<listed, tab, id, mount, page, loads, saving,
                                   resolving, lost>>

Arrivals == \/ \E l \in loads : \/ ArriveReview(l) \/ FailReview(l)
                                \/ ArriveSections(l)
            \/ ArriveSave \/ ArriveResolved \/ ResolveFails
Next == \/ \E r \in Rules : Open(r) \/ OtherReviewer(r)
        \/ Back \/ loadReview \/ Arrivals
        \/ Edit \/ handleSave \/ handleResolveReview
        \/ \E m \in Modes : openDecisionModal(m)
        \/ closeDecisionModal
(* Effects run, and what was requested is answered or fails.               *)
Spec == Init /\ [][Next]_vars /\ WF_vars(loadReview) /\ WF_vars(Arrivals)
-----------------------------------------------------------------------------
(* Types; the dialog and the requests belong to an open rule.              *)
TypeOK == /\ {server, listed} \subseteq [Rules -> States]
          /\ id \in Rules \cup {None}
          /\ status \in {"loading", "ready", "error", "not_found"}
          /\ status = "ready" => shown # None
          /\ shown # None => shown.rule \in Rules /\ shown.state \in States
          /\ modal \in Modes \cup {None}
          /\ resolving # None => modal = resolving.mode

(* One instance moves from rule to rule while its requests are under way:  *)
(* a save or a decision is sent for the rule whose content is in view.     *)
RequestsForShown ==
  /\ saving # None => saving.rule = saving.shown
  /\ resolving # None => resolving.rule = resolving.shown

(* A decision moves on to a rule that still waits for one: in the queue    *)
(* tab the page never stays on a rule this reviewer has decided.           *)
MovesOn == tab = "queue" /\ id # None => listed[id] = "in_review"

(* Violated, as the README says:                                           *)
(* "blocks approval and rejection while Candidate Rule edits are unsaved"  *)
(* (CandidateRuleDetail.test.tsx:327).                                     *)
NoUnsavedDecision == ~lost

(* Violated, as the README says:                                           *)
(* "Browse the source document and confirm the statement matches the       *)
(* policy text" (decisions.ts:20): the sections are of the rule in view.   *)
SectionsOfShown ==
  id # None /\ status = "ready" /\ sections.status = "ready"
    => sections.of = shown.rule

(* A rule was opened and is not there yet.                                 *)
Waiting == id # None /\ status = "loading"
(* Whatever becomes of the requests, the page comes to rest again and      *)
(* again.                                                                  *)
ComesToRest == []<>~Waiting
=============================================================================

----------------------------- MODULE AppShell ------------------------------
(***************************************************************************)
(* The shell of the client (client/src/app/): who is signed in, which      *)
(* section is open, the run a section is opened with, and the guided tour. *)
(* The token lives in session storage and outlives the page; everything    *)
(* else is lost by a reload.  Sections appear here by what the shell knows *)
(* of them: the roles they are for and the ways out of them.               *)
(***************************************************************************)
EXTENDS Naturals, Sequences, FiniteSets

CONSTANTS Tokens,  \* bearer tokens
          RolesOf, \* the roles the server gives each, {} if it refuses it
          Runs,    \* Extraction Runs and Compliance Evaluation Runs
          None,
          MaxSessions, \* bound on sign-ins and reloads
          Sections     \* the sections of this instance

Operators == {"admin", "approver"}
Everyone == Operators \cup {"viewer"}
visibleRoles(s) ==
  IF s \in {"rule-test-cases", "extraction-runs", "review", "compliance"}
  THEN Operators ELSE Everyone
AllSections ==
  {"dashboard", "documents", "rule-test-cases", "expense-reports",
   "evaluation-runs", "compliance-review", "extraction-runs", "review",
   "policy-versions", "compliance", "manual-rules", "audit"}
guidedTourSteps ==
  <<"documents", "extraction-runs", "review", "policy-versions", "compliance",
    "rule-test-cases", "expense-reports", "evaluation-runs",
    "compliance-review">>

SectionAssumption ==
  /\ {"dashboard", "review"} \subseteq Sections /\ Sections \subseteq AllSections
  /\ "expense-reports" \in Sections => "evaluation-runs" \in Sections
RoleAssumption == RolesOf \in [Tokens -> SUBSET Everyone]
TokenAssumption ==
  /\ None \notin Tokens /\ None \notin [token : Tokens, roles : SUBSET Everyone]
  /\ MaxSessions \in Nat

VARIABLES status,    \* booting, signed_out, authenticating, authenticated
          principal, \* [token, roles], or None
          token,     \* in session storage, or None
          asking,    \* the token /api/me is asked about, or None
          active,    \* the open section
          scope,     \* the run a section is opened with: [run, by], by the
                     \* session that chose it, or None
          tour,      \* the guided tour, and its step
          session    \* counts sign-ins and reloads
auth == <<status, principal, token, asking, session>>
vars == <<status, principal, token, asking, active, scope, tour, session>>
-----------------------------------------------------------------------------
isSectionVisible(s) == principal.roles \cap visibleRoles(s) # {}
(* The steps at the positions that the principal can open, in their order. *)
visiblePositions ==
  {i \in DOMAIN guidedTourSteps :
     guidedTourSteps[i] \in Sections /\ isSectionVisible(guidedTourSteps[i])}
getVisibleGuidedTourSteps ==
  [k \in 1..Cardinality(visiblePositions) |->
     guidedTourSteps[CHOOSE i \in visiblePositions :
                       Cardinality({j \in visiblePositions : j <= i}) = k]]

SignInShown == status = "signed_out" \/ (principal = None /\ status = "authenticated")
ShellShown == status = "authenticated" /\ principal # None
Links == {s \in Sections : isSectionVisible(s)}

(* The rail follows the open section where that is a step of the tour.     *)
RailShown == /\ ShellShown /\ tour.on
             /\ getVisibleGuidedTourSteps # <<>>
             /\ active \notin {"dashboard", "audit"}
RailStep ==
  IF \E i \in DOMAIN getVisibleGuidedTourSteps : getVisibleGuidedTourSteps[i] = active
  THEN CHOOSE i \in DOMAIN getVisibleGuidedTourSteps :
         getVisibleGuidedTourSteps[i] = active
  ELSE tour.step
-----------------------------------------------------------------------------
NoRun == [review |-> None, evaluation |-> None]
NoTour == [on |-> FALSE, step |-> 1]
Init == /\ status = "booting" /\ principal = None /\ asking = None
        /\ active = "dashboard" /\ scope = NoRun /\ tour = NoTour
        /\ token \in Tokens \cup {None} /\ session = 0

Boot ==
  /\ status = "booting"
  /\ IF token = None
     THEN status' = "signed_out" /\ UNCHANGED asking
     ELSE status' = "authenticating" /\ asking' = token
  /\ UNCHANGED <<principal, token, active, scope, tour, session>>

Reload ==
  /\ session < MaxSessions
  /\ session' = session + 1
  /\ status' = "booting" /\ principal' = None /\ asking' = None
  /\ active' = "dashboard" /\ scope' = NoRun /\ tour' = NoTour
  /\ UNCHANGED token

authenticate(t) ==
  /\ SignInShown
  /\ session < MaxSessions
  /\ session' = session + 1
  /\ status' = "authenticating" /\ asking' = t
  /\ UNCHANGED <<principal, token, active, scope, tour>>

TourReset == NoTour

(* The answer of /api/me.  Signing in opens the dashboard; a reload is     *)
(* there already.                                                          *)
AnyToken(t) == TRUE \* mutant
Authenticates(t) == RolesOf[t] # {}
Accepted ==
  /\ asking # None /\ Authenticates(asking)
  /\ token' = asking
  /\ principal' = [token |-> asking, roles |-> RolesOf[asking]]
  /\ active' = "dashboard"
  /\ tour' = TourReset
  /\ status' = "authenticated" /\ asking' = None
  /\ UNCHANGED <<scope, session>>

TokenCleared == None
AfterFailure == "signed_out"
Rejected ==
  /\ asking # None
  /\ token' = TokenCleared
  /\ principal' = None /\ status' = AfterFailure /\ asking' = None
  /\ UNCHANGED <<active, scope, tour, session>>

handleSignOut ==
  /\ ShellShown
  /\ token' = TokenCleared
  /\ principal' = None /\ status' = "signed_out"
  /\ tour' = TourReset
  /\ UNCHANGED <<asking, active, scope, session>>
-----------------------------------------------------------------------------
(* navigateToSection: the list of a section, never a run opened before.    *)
ScopeReset(s) == CASE s = "review"          -> [scope EXCEPT !.review = None]
                   [] s = "evaluation-runs" -> [scope EXCEPT !.evaluation = None]
                   [] OTHER                 -> scope
navigateToSection(s, t) ==
  IF isSectionVisible(s)
  THEN /\ scope' = ScopeReset(s)
       /\ tour' = IF s \in {"dashboard", "audit"} THEN TourReset ELSE t
       /\ active' = s
  ELSE tour' = t /\ UNCHANGED <<active, scope>>

Navigate(s) ==
  /\ ShellShown
  /\ s \in Links \/ (active = "dashboard" /\ s \in Sections \ {"dashboard", "audit"})
  /\ navigateToSection(s, tour)
  /\ UNCHANGED auth

startGuidedTour ==
  /\ ShellShown /\ active = "dashboard"
  /\ getVisibleGuidedTourSteps # <<>>
  /\ navigateToSection(getVisibleGuidedTourSteps[1], [on |-> TRUE, step |-> 1])
  /\ UNCHANGED auth

(* The markers of the rail, Previous and Next.                             *)
goToTourStep(i) ==
  /\ RailShown
  /\ i \in DOMAIN getVisibleGuidedTourSteps
  /\ navigateToSection(getVisibleGuidedTourSteps[i], [tour EXCEPT !.step = i])
  /\ UNCHANGED auth
dismissGuidedTour ==
  /\ RailShown
  /\ tour' = TourReset
  /\ UNCHANGED <<auth, active, scope>>

(* Sections that open a run of another section.                            *)
onOpenRun(r) ==
  /\ ShellShown /\ active \in {"dashboard", "extraction-runs"}
  /\ scope' = [scope EXCEPT !.review = [run |-> r, by |-> session]]
  /\ active' = "review"
  /\ UNCHANGED <<auth, tour>>
onOpenEvaluationRun(r) ==
  /\ ShellShown /\ active = "expense-reports"
  /\ scope' = [scope EXCEPT !.evaluation = [run |-> r, by |-> session]]
  /\ active' = "evaluation-runs"
  /\ UNCHANGED <<auth, tour>>
onClearExtractionRunScope ==
  /\ ShellShown /\ active = "review"
  /\ scope' = [scope EXCEPT !.review = None]
  /\ UNCHANGED <<auth, active, tour>>

Next ==
  \/ Boot \/ Reload \/ Accepted \/ Rejected \/ handleSignOut
  \/ \E t \in Tokens : authenticate(t)
  \/ \E s \in Sections : Navigate(s)
  \/ startGuidedTour \/ dismissGuidedTour \/ onClearExtractionRunScope
  \/ \E i \in DOMAIN guidedTourSteps : goToTourStep(i)
  \/ \E r \in Runs : onOpenRun(r) \/ onOpenEvaluationRun(r)

(* The first effect runs, and /api/me is answered or fails.                *)
Spec == Init /\ [][Next]_vars /\ WF_vars(Boot) /\ WF_vars(Accepted \/ Rejected)
-----------------------------------------------------------------------------
TypeOK ==
  /\ status \in {"booting", "signed_out", "authenticating", "authenticated"}
  /\ principal = None \/
       principal \in [token : Tokens, roles : (SUBSET Everyone) \ {{}}]
  /\ {token, asking} \subseteq Tokens \cup {None}
  /\ active \in Sections
  /\ tour \in [on : BOOLEAN, step : DOMAIN guidedTourSteps]
  /\ session \in 0..MaxSessions

(* The principal shown, the status and the token every request of a page   *)
(* will carry never disagree, over sign-outs, refusals and reloads.        *)
AuthAgrees ==
  /\ status = "authenticated" <=> principal # None
  /\ principal # None => token = principal.token
  /\ status = "signed_out" => token = None
  /\ status = "authenticating" <=> asking # None

(* A section opened with a run was given it in this session: signing in as *)
(* another role never opens what the role before had open.                 *)
ScopeIsOwn ==
  ShellShown =>
    /\ active = "review" /\ scope.review # None => scope.review.by = session
    /\ active = "evaluation-runs" /\ scope.evaluation # None
         => scope.evaluation.by = session

(* While the rail is shown it is at a step the principal can open, and the *)
(* steps before and after are where its buttons lead.                      *)
RailStepExists == RailShown => RailStep \in DOMAIN getVisibleGuidedTourSteps

(* A token is being checked.                                               *)
Waiting == status \in {"booting", "authenticating"}
(* Whatever becomes of the requests, the page comes to rest again and      *)
(* again.                                                                  *)
ComesToRest == []<>~Waiting
-----------------------------------------------------------------------------
(* Violated.  The open section is one the roles of the principal may see   *)
(* (navigation.ts, visibleRoles): a run opened from the dashboard goes to  *)
(* the review section whoever opens it.                                    *)
ActiveIsVisible == ShellShown => isSectionVisible(active)
=============================================================================

--------------------------- MODULE MCPolicyStore ---------------------------
(***************************************************************************)
(* TLC harness of PolicyStore.  One document, two earlier Candidate Rules  *)
(* (one of them drafted without a resolvable quote), one new structured    *)
(* output for the next document version and one that never validates.     *)
(***************************************************************************)
EXTENDS PolicyStore, TLC

CONSTANTS MCRequests, none

MCNone == none
RequestSymmetry == Permutations(MCRequests)

MCRuleIds == {"run1:1", "run1:2", "run2:1"}
MCRuleOrder == <<"run1:1", "run1:2", "run2:1">>
MCVersionIds == {"v1", "v2"}
MCDocuments == {"travel"}
MCRuns == {"run1", "run2"}
MCRunDocument == [run \in MCRuns |-> "travel"]

(* "cap 50" and "cap 75" differ in a number only; "nowhere" is in no text. *)
MCStatements == {"cap 50", "cap 75", "nowhere"}
MCShapeOf == ("cap 50" :> "cap" @@ "cap 75" :> "cap" @@ "nowhere" :> "nowhere")
MCAnchor == ("run1" :> ("cap 50" :> "exact" @@ "cap 75" :> "approximate"
                          @@ "nowhere" :> "none")
             @@ "run2" :> ("cap 50" :> "none" @@ "cap 75" :> "exact"
                             @@ "nowhere" :> "none"))

DraftOf(text, cls, cond, quoted) ==
  [statement |-> text, class |-> cls, condition |-> cond, quote |-> quoted]
MCSeed == [run |-> "run1",
           drafts |-> ("run1:1" :> DraftOf("cap 50", "enforceable", TRUE, "cap 50")
                       @@ "run1:2" :> DraftOf("nowhere", "guidance", FALSE,
                                              "nowhere"))]
NextExtraction ==
  [run |-> "run2",
   drafts |-> ("run2:1" :> DraftOf("cap 75", "enforceable", TRUE, "cap 75"))]
BadExtraction ==
  [run |-> "run2",
   drafts |-> ("run2:1" :> DraftOf("cap 75", "guidance", TRUE, "cap 75"))]
MCExtractions == {NextExtraction, BadExtraction}

(* Reword and take the citation away, so that it is resolved again; drop   *)
(* the condition of a rule that needs it; cite by hand.                    *)
MCEdits == {("statement" :> "cap 75" @@ "citation" :> none),
            ("condition" :> FALSE),
            ("citation" :> "travel")}
MCManualValues ==
  {[origin |-> "manual", statement |-> "cap 50", class |-> "guidance",
    condition |-> FALSE, citation |-> none]}
=============================================================================

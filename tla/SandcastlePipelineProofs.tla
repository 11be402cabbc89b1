---------------------- MODULE SandcastlePipelineProofs ----------------------
(***************************************************************************)
(* Proofs about SandcastlePipeline, for every set of runs and issues:      *)
(* LabelsTellTheTruth, part by part, each under the assumptions it needs   *)
(* of the world the script runs in and no others.                          *)
(*                                                                         *)
(* The label of an issue is written by one pipeline and read by another    *)
(* run, steps later.  The invariants therefore relate it to the pipeline   *)
(* that owns the issue: Claimed is the label a pipeline relies on,         *)
(* WorkedOn finds the pipeline behind a label, and PublishedFits follows   *)
(* the pull requests: that of a pipeline that did not fail until its label *)
(* keeps the issue out of every list, the others for as long as a later    *)
(* run works on the issue again.                                           *)
(***************************************************************************)
EXTENDS SandcastlePipeline, WellFoundedInduction, FiniteSetTheorems, TLAPS

(* Issues are filed in dependency order. *)
BlockersFiledFirst == \A i \in Issues : \A b \in Blockers[i] : b < i

Busy == Working \cup {"releasing", "labelling"}

(* The pipelines a run may have in each of its phases. *)
StagesOf(p) == CASE p = "new"        -> {"none"}
                 [] p = "picking"    -> {"none", "picked"}
                 [] p = "claiming"   -> {"none", "picked", "implementing"}
                 [] p = "processing" -> Stages \ {"picked", "reported"}
                 [] p = "reporting"  -> {"none", "settled", "failed", "reported"}
                 [] p = "done"       -> {"none", "settled", "reported"}
                 [] p = "died"       -> Stages

PhasesFit == \A r \in Runs, i \in Issues : stage[r][i] \in StagesOf(phase[r])

(* Issues are picked in the order of their numbers. *)
PickedInOrder == \A r \in Runs : \A i \in Picked(r), j \in listed[r] : i < j

PickedUnblocked ==
  BlockersFiledFirst =>
    \A r \in Runs : \A i, b \in Picked(r) : b \notin Blockers[i]

OneActive == ~Overlap => \A r, s \in Runs : Active(r) /\ Active(s) => r = s

OwnNumber == ~Misnumbered => \A r \in Runs, i \in Issues : releasing[r][i] = i

Basic == /\ TypeOK
         /\ PhasesFit
         /\ PickedInOrder
         /\ PickedUnblocked
         /\ OneActive
         /\ OwnNumber

(* The label of an issue a pipeline is busy with. *)
Claimed ==
  ~Overlap /\ ~Misnumbered =>
    \A r \in Runs, i \in Issues :
      Active(r) /\ stage[r][i] \in Busy => label[i] = "in_progress"

(* The pipeline behind a label. *)
WorkedOn ==
  ~GhFails /\ ~Misnumbered =>
    \A i \in Issues : label[i] = "in_progress" =>
      \E r \in Runs : Active(r) /\ stage[r][i] \in Busy \cup {"failed"}

Failures == {"failed", "reported"}

(* What is listed or picked is still ready; whatever pull requests other   *)
(* runs opened for an issue this run lists or works on, they failed.       *)
LabelKept(r, i) ==
  Active(r) /\ (i \in listed[r] \/ stage[r][i] = "picked") => label[i] = "ready"

FailedBefore(r, i) ==
  Active(r) /\ (i \in listed[r] \/ stage[r][i] # "none") =>
    \A q \in prs[i] \ {r} : stage[q][i] \in Failures

(* A pull request is that of a failed pipeline, is labelled, or is about   *)
(* to be.                                                                  *)
PrFits(q, i) ==
  \/ stage[q][i] \in Failures
  \/ stage[q][i] \in {"disposing", "settled"} /\ label[i] = "pr_open"
  \/ stage[q][i] \in {"publishing", "labelling"} /\ Active(q)

PublishedFits ==
  ~Overlap /\ ~GhFails /\ ~Misnumbered =>
    /\ \A r \in Runs, i \in Issues : LabelKept(r, i) /\ FailedBefore(r, i)
    /\ \A i \in Issues : \A q \in prs[i] : PrFits(q, i)
    /\ PublishedOnce

-----------------------------------------------------------------------------
(* The steps, variable by variable *)

StageSet(r, i, s) ==
  /\ stage'[r][i] = s
  /\ \A q \in Runs, j \in Issues : q # r \/ j # i => stage'[q][j] = stage[q][j]

PhaseSet(r, p) == /\ phase'[r] = p
                  /\ \A q \in Runs \ {r} : phase'[q] = phase[q]

LabelSet(i, l) == /\ label'[i] = l
                  /\ \A j \in Issues \ {i} : label'[j] = label[j]

LEMMA ToSets ==
  ASSUME TypeOK, NEW r \in Runs, NEW i \in Issues, NEW s \in Stages, To(r, i, s)
  PROVE  StageSet(r, i, s) /\ stage' \in [Runs -> [Issues -> Stages]]
BY DEF TypeOK, To, StageSet

LEMMA EnterSets ==
  ASSUME TypeOK, NEW r \in Runs, NEW p \in Phases, Enter(r, p)
  PROVE  PhaseSet(r, p) /\ phase' \in [Runs -> Phases]
BY DEF TypeOK, Enter, PhaseSet

LEMMA EditSets ==
  ASSUME TypeOK, NEW i \in Issues, NEW l \in Labels,
         label' = [label EXCEPT ![i] = l]
  PROVE  LabelSet(i, l) /\ label' \in [Issues -> Labels]
BY DEF TypeOK, LabelSet

(* A set of issue numbers has a lowest one. *)
LEMMA LowestIs ==
  ASSUME NEW S \in SUBSET Issues, S # {}
  PROVE  Lowest(S) \in S /\ \A j \in S : Lowest(S) <= j
<1>1. S \subseteq Nat
  BY SandcastleAssumption
<1>2. \E i \in S : \A j \in S : i <= j
  <2> DEFINE R == {ss \in Nat \X Nat : ss[1] < ss[2]}
  <2>1. IsWellFoundedOn(R, Nat)
    BY NatLessThanWellFounded DEF OpToRel
  <2> HIDE DEF R
  <2>2. PICK i \in S : \A j \in S : <<j, i>> \notin R
    BY <1>1, <2>1, WFMin
  <2>3. \A j \in S : ~(j < i)
    BY <1>1, <2>2 DEF R
  <2> QED BY <1>1, <2>3
<1> QED BY <1>2 DEF Lowest

(* Each kind of step, by what it does to phases, stages, labels, lists and *)
(* pull requests.                                                          *)
Quiet == /\ UNCHANGED <<label, phase, stage, prs>>
         /\ \A r \in Runs : listed'[r] \subseteq listed[r]

Lists(r) ==
  /\ phase[r] = "new" /\ PhaseSet(r, "picking")
  /\ Overlap \/ \A s \in Runs : ~Active(s)
  /\ UNCHANGED <<label, stage, prs>>
  /\ \A i \in listed'[r] : label[i] = "ready"
  /\ \A q \in Runs \ {r} : listed'[q] = listed[q]

Picks(r, i) ==
  /\ phase[r] = "picking"
  /\ i \in listed[r] /\ \A j \in listed[r] : i <= j
  /\ Blockers[i] \cap Picked(r) = {}
  /\ StageSet(r, i, "picked")
  /\ UNCHANGED <<label, phase, prs>>
  /\ listed'[r] = listed[r] \ {i}
  /\ \A q \in Runs \ {r} : listed'[q] = listed[q]

Turns(r, p) ==
  /\ \/ phase[r] = "picking" /\ p = "done" /\ Picked(r) = {}
     \/ phase[r] = "picking" /\ p = "claiming"
     \/ phase[r] = "claiming" /\ p = "processing" /\ In(r, "picked") = {}
     \/ phase[r] = "processing" /\ p = "reporting" /\ AllSettled(r)
     \/ phase[r] = "reporting" /\ p = "done" /\ In(r, "failed") = {}
  /\ PhaseSet(r, p)
  /\ UNCHANGED <<label, stage, prs, listed>>

Claims(r, i) ==
  /\ phase[r] = "claiming" /\ stage[r][i] = "picked"
  /\ LabelSet(i, "in_progress") /\ StageSet(r, i, "implementing")
  /\ UNCHANGED <<phase, prs, listed>>

Works(r, i, s) ==
  /\ phase[r] = "processing" /\ stage[r][i] \in Working
  /\ \/ s \in {"reviewing", "verifying", "publishing", "releasing", "failed"}
     \/ s = "labelling" /\ stage[r][i] = "publishing"
  /\ stage[r][i] = "publishing" => s \in {"labelling", "failed"}
  /\ StageSet(r, i, s)
  /\ UNCHANGED <<label, phase, prs, listed>>

Opens(r, i) ==
  /\ phase[r] = "processing" /\ stage[r][i] = "publishing"
  /\ prs'[i] = prs[i] \cup {r}
  /\ \A j \in Issues \ {i} : prs'[j] = prs[j]
  /\ UNCHANGED <<label, phase, stage, listed>>

Releases(r, i) ==
  /\ phase[r] = "processing" /\ stage[r][i] = "releasing"
  /\ \E n \in Issues : n = releasing[r][i] /\ LabelSet(n, "ready")
  /\ StageSet(r, i, "disposing")
  /\ UNCHANGED <<phase, prs, listed>>

Marks(r, i) ==
  /\ phase[r] = "processing" /\ stage[r][i] = "labelling"
  /\ LabelSet(i, "pr_open") /\ StageSet(r, i, "disposing")
  /\ UNCHANGED <<phase, prs, listed>>

Disposes(r, i) ==
  /\ phase[r] = "processing" /\ stage[r][i] = "disposing"
  /\ \E s \in {"settled", "failed"} : StageSet(r, i, s)
  /\ UNCHANGED <<label, phase, prs, listed>>

ReleasesFailed(r, i) ==
  /\ phase[r] = "reporting" /\ stage[r][i] = "failed"
  /\ LabelSet(i, "ready") /\ StageSet(r, i, "reported")
  /\ UNCHANGED <<phase, prs, listed>>

Dies(r, i) ==
  /\ GhFails
  /\ \/ phase[r] = "claiming" /\ stage[r][i] = "picked"
     \/ phase[r] = "reporting" /\ stage[r][i] = "failed"
  /\ \A j \in Issues \ {i} : label'[j] = label[j]
  /\ PhaseSet(r, "died")
  /\ UNCHANGED <<stage, prs, listed>>

FailsToLabel(r, i) ==
  /\ GhFails
  /\ phase[r] = "processing"
  /\ stage[r][i] \in {"releasing", "labelling"}
  /\ \E n \in Issues : /\ n \in {i, releasing[r][i]}
                       /\ \A j \in Issues \ {n} : label'[j] = label[j]
  /\ StageSet(r, i, "failed")
  /\ UNCHANGED <<phase, prs, listed>>

Effect(r) == \/ Lists(r)
             \/ \E p \in Phases : Turns(r, p)
             \/ \E i \in Issues :
                  \/ Picks(r, i) \/ Claims(r, i)
                  \/ \E s \in Stages : Works(r, i, s)
                  \/ Opens(r, i) \/ Releases(r, i) \/ Marks(r, i) \/ Disposes(r, i)
                  \/ ReleasesFailed(r, i) \/ Dies(r, i) \/ FailsToLabel(r, i)

LEMMA ScriptEffect ==
  ASSUME TypeOK, NEW r \in Runs, Script(r)
  PROVE  TypeOK' /\ (Quiet \/ Effect(r)) /\ UNCHANGED releasing
<1>1. CASE ListReadyIssues(r)
  <2>1. PhaseSet(r, "picking") /\ phase' \in [Runs -> Phases]
    BY <1>1, EnterSets DEF ListReadyIssues, Phases
  <2>2. TypeOK' /\ UNCHANGED releasing
    BY <1>1, <2>1 DEF ListReadyIssues, TypeOK
  <2>3. Lists(r)
    BY <1>1, <2>1 DEF ListReadyIssues, Lists, TypeOK
  <2> QED BY <2>2, <2>3 DEF Effect
<1>2. CASE Consider(r)
  <2> DEFINE i == Lowest(listed[r])
  <2>1. i \in listed[r] /\ i \in Issues /\ \A j \in listed[r] : i <= j
    BY <1>2, LowestIs DEF Consider, TypeOK
  <2>2. /\ listed' = [listed EXCEPT ![r] = @ \ {i}]
        /\ UNCHANGED <<label, open, phase, releasing, prs>>
        /\ \/ RunsWithoutBlockers(r, i) /\ To(r, i, "picked")
           \/ UNCHANGED stage
    BY <1>2 DEF Consider
  <2> HIDE DEF i
  <2>3. /\ listed'[r] = listed[r] \ {i}
        /\ \A q \in Runs \ {r} : listed'[q] = listed[q]
        /\ listed' \in [Runs -> SUBSET Issues]
    BY <2>2 DEF TypeOK
  <2>4. CASE RunsWithoutBlockers(r, i) /\ To(r, i, "picked")
    <3>1. StageSet(r, i, "picked") /\ stage' \in [Runs -> [Issues -> Stages]]
      BY <2>1, <2>4, ToSets DEF Stages
    <3>2. TypeOK'
      BY <2>2, <2>3, <3>1 DEF TypeOK
    <3>3. Picks(r, i)
      BY <1>2, <2>1, <2>2, <2>3, <2>4, <3>1 DEF Consider, Picks, RunsWithoutBlockers
    <3> QED BY <2>1, <2>2, <3>2, <3>3 DEF Effect
  <2>5. CASE UNCHANGED stage
    BY <2>2, <2>3, <2>5 DEF TypeOK, Quiet
  <2> QED BY <2>2, <2>4, <2>5
<1>3. CASE PickingDone(r)
  <2>1. PICK p \in {"done", "claiming"} :
          Enter(r, p) /\ (p = "done" => Picked(r) = {})
    BY <1>3 DEF PickingDone
  <2>2. PhaseSet(r, p) /\ phase' \in [Runs -> Phases] /\ p \in Phases
    BY <2>1, EnterSets DEF Phases
  <2>3. TypeOK' /\ UNCHANGED releasing
    BY <1>3, <2>2 DEF PickingDone, TypeOK
  <2>4. Turns(r, p)
    BY <1>3, <2>1, <2>2 DEF PickingDone, Turns
  <2> QED BY <2>2, <2>3, <2>4 DEF Effect
<1>4. CASE Claim(r)
  <2> DEFINE i == Lowest(In(r, "picked"))
  <2>1. i \in Issues /\ stage[r][i] = "picked"
    BY <1>4, LowestIs DEF Claim, In
  <2>2. EditThenComment(i, "in_progress",
          To(r, i, "implementing") /\ UNCHANGED phase,
          Enter(r, "died") /\ UNCHANGED stage)
    BY <1>4 DEF Claim
  <2>3. phase[r] = "claiming" /\ UNCHANGED <<open, listed, releasing, prs>>
    BY <1>4 DEF Claim
  <2> HIDE DEF i
  <2>4. CASE /\ label' = [label EXCEPT ![i] = "in_progress"]
             /\ To(r, i, "implementing") /\ UNCHANGED phase
    <3>1. /\ StageSet(r, i, "implementing")
          /\ stage' \in [Runs -> [Issues -> Stages]]
      BY <2>1, <2>4, ToSets DEF Stages
    <3>2. LabelSet(i, "in_progress") /\ label' \in [Issues -> Labels]
      BY <2>1, <2>4, EditSets DEF Labels
    <3>3. TypeOK'
      BY <2>3, <2>4, <3>1, <3>2 DEF TypeOK
    <3>4. Claims(r, i)
      BY <2>1, <2>3, <2>4, <3>1, <3>2 DEF Claims
    <3> QED BY <2>1, <2>3, <3>3, <3>4 DEF Effect
  <2>5. CASE /\ GhFails
             /\ UNCHANGED label \/ label' = [label EXCEPT ![i] = "in_progress"]
             /\ Enter(r, "died") /\ UNCHANGED stage
    <3>1. PhaseSet(r, "died") /\ phase' \in [Runs -> Phases]
      BY <2>5, EnterSets DEF Phases
    <3>2. /\ label' \in [Issues -> Labels]
          /\ \A j \in Issues \ {i} : label'[j] = label[j]
      BY <2>1, <2>5, EditSets DEF Labels, LabelSet, TypeOK
    <3>3. TypeOK'
      BY <2>3, <2>5, <3>1, <3>2 DEF TypeOK
    <3>4. Dies(r, i)
      BY <2>1, <2>3, <2>5, <3>1, <3>2 DEF Dies
    <3> QED BY <2>1, <2>3, <3>3, <3>4 DEF Effect
  <2> QED BY <2>2, <2>4, <2>5 DEF EditThenComment
<1>5. CASE StartPipelines(r)
  <2>1. PhaseSet(r, "processing") /\ phase' \in [Runs -> Phases]
    BY <1>5, EnterSets DEF StartPipelines, Phases
  <2>2. TypeOK' /\ UNCHANGED releasing
    BY <1>5, <2>1 DEF StartPipelines, TypeOK
  <2>3. Turns(r, "processing")
    BY <1>5, <2>1 DEF StartPipelines, Turns
  <2> QED BY <2>2, <2>3 DEF Effect, Phases
<1>6. CASE Settle(r)
  <2>1. PhaseSet(r, "reporting") /\ phase' \in [Runs -> Phases]
    BY <1>6, EnterSets DEF Settle, Phases
  <2>2. TypeOK' /\ UNCHANGED releasing
    BY <1>6, <2>1 DEF Settle, TypeOK
  <2>3. Turns(r, "reporting")
    BY <1>6, <2>1 DEF Settle, Turns
  <2> QED BY <2>2, <2>3 DEF Effect, Phases
<1>7. CASE ReleaseFailed(r)
  <2> DEFINE i == Lowest(In(r, "failed"))
  <2>1. i \in Issues /\ stage[r][i] = "failed"
    BY <1>7, LowestIs DEF ReleaseFailed, In
  <2>2. EditThenComment(i, "ready",
          To(r, i, "reported") /\ UNCHANGED phase,
          Enter(r, "died") /\ UNCHANGED stage)
    BY <1>7 DEF ReleaseFailed
  <2>3. phase[r] = "reporting" /\ UNCHANGED <<open, listed, releasing, prs>>
    BY <1>7 DEF ReleaseFailed
  <2> HIDE DEF i
  <2>4. CASE /\ label' = [label EXCEPT ![i] = "ready"]
             /\ To(r, i, "reported") /\ UNCHANGED phase
    <3>1. StageSet(r, i, "reported") /\ stage' \in [Runs -> [Issues -> Stages]]
      BY <2>1, <2>4, ToSets DEF Stages
    <3>2. LabelSet(i, "ready") /\ label' \in [Issues -> Labels]
      BY <2>1, <2>4, EditSets DEF Labels
    <3>3. TypeOK'
      BY <2>3, <2>4, <3>1, <3>2 DEF TypeOK
    <3>4. ReleasesFailed(r, i)
      BY <2>1, <2>3, <2>4, <3>1, <3>2 DEF ReleasesFailed
    <3> QED BY <2>1, <2>3, <3>3, <3>4 DEF Effect
  <2>5. CASE /\ GhFails
             /\ UNCHANGED label \/ label' = [label EXCEPT ![i] = "ready"]
             /\ Enter(r, "died") /\ UNCHANGED stage
    <3>1. PhaseSet(r, "died") /\ phase' \in [Runs -> Phases]
      BY <2>5, EnterSets DEF Phases
    <3>2. /\ label' \in [Issues -> Labels]
          /\ \A j \in Issues \ {i} : label'[j] = label[j]
      BY <2>1, <2>5, EditSets DEF Labels, LabelSet, TypeOK
    <3>3. TypeOK'
      BY <2>3, <2>5, <3>1, <3>2 DEF TypeOK
    <3>4. Dies(r, i)
      BY <2>1, <2>3, <2>5, <3>1, <3>2 DEF Dies
    <3> QED BY <2>1, <2>3, <3>3, <3>4 DEF Effect
  <2> QED BY <2>2, <2>4, <2>5 DEF EditThenComment
<1>8. CASE Finish(r)
  <2>1. PhaseSet(r, "done") /\ phase' \in [Runs -> Phases]
    BY <1>8, EnterSets DEF Finish, Phases
  <2>2. TypeOK' /\ UNCHANGED releasing
    BY <1>8, <2>1 DEF Finish, TypeOK
  <2>3. Turns(r, "done")
    BY <1>8, <2>1 DEF Finish, Turns
  <2> QED BY <2>2, <2>3 DEF Effect, Phases
<1> QED BY <1>1, <1>2, <1>3, <1>4, <1>5, <1>6, <1>7, <1>8 DEF Script

LEMMA WorksEffect ==
  ASSUME TypeOK, NEW r \in Runs, NEW i \in Issues, NEW from \in Working,
         NEW s \in {"reviewing", "verifying", "publishing", "releasing",
                    "labelling", "failed"},
         s = "labelling" => from = "publishing",
         from = "publishing" => s \in {"labelling", "failed"},
         Step(r, i, from, s),
         UNCHANGED <<label, open, phase, listed, prs>>
  PROVE  /\ Works(r, i, s) /\ s \in Stages
         /\ stage' \in [Runs -> [Issues -> Stages]]
<1>1. To(r, i, s) /\ s \in Stages
  BY DEF Step, To, Stages
<1>2. StageSet(r, i, s) /\ stage' \in [Runs -> [Issues -> Stages]]
  BY <1>1, ToSets
<1> QED BY <1>1, <1>2 DEF Works, Step

LEMMA PipelineEffect ==
  ASSUME TypeOK, NEW r \in Runs, NEW i \in Issues, Pipeline(r, i)
  PROVE  /\ TypeOK' /\ Effect(r)
         /\ \A q \in Runs, j \in Issues :
              ~Misnumbered /\ releasing[q][j] = j => releasing'[q][j] = j
<1>1. CASE Throws(r, i)
  <2>1. PICK from \in Working : Step(r, i, from, "failed")
    BY <1>1 DEF Throws
  <2>2. UNCHANGED <<label, open, phase, listed, releasing, prs>>
    BY <1>1 DEF Throws
  <2>3. /\ Works(r, i, "failed") /\ "failed" \in Stages
        /\ stage' \in [Runs -> [Issues -> Stages]]
    BY <2>1, <2>2, WorksEffect
  <2> QED BY <2>2, <2>3 DEF TypeOK, Effect
<1>2. CASE Implement(r, i)
  <2>1. PICK s \in {"reviewing", "releasing"} : Step(r, i, "implementing", s)
    BY <1>2 DEF Implement
  <2>2. UNCHANGED <<label, open, phase, listed, releasing, prs>>
    BY <1>2 DEF Implement
  <2>3. /\ Works(r, i, s) /\ s \in Stages
        /\ stage' \in [Runs -> [Issues -> Stages]]
    BY <2>1, <2>2, WorksEffect DEF Working
  <2> QED BY <2>2, <2>3 DEF TypeOK, Effect
<1>3. CASE Review(r, i)
  <2>1. /\ Works(r, i, "verifying") /\ "verifying" \in Stages
        /\ stage' \in [Runs -> [Issues -> Stages]]
    BY <1>3, WorksEffect DEF Review, Working
  <2>2. UNCHANGED <<label, open, phase, listed, releasing, prs>>
    BY <1>3 DEF Review
  <2> QED BY <2>1, <2>2 DEF TypeOK, Effect
<1>4. CASE Verify(r, i)
  <2>1. PICK s \in {"publishing", "releasing"} : Step(r, i, "verifying", s)
    BY <1>4 DEF Verify
  <2>2. UNCHANGED <<label, open, phase, listed, prs>>
    BY <1>4 DEF Verify
  <2>3. /\ Works(r, i, s) /\ s \in Stages
        /\ stage' \in [Runs -> [Issues -> Stages]]
    BY <2>1, <2>2, WorksEffect DEF Working
  <2>4. \/ UNCHANGED releasing
        \/ \E n \in Issues : /\ ~Misnumbered => n = i
                             /\ releasing' = [releasing EXCEPT ![r][i] = n]
    BY <1>4 DEF Verify
  <2>5. /\ releasing' \in [Runs -> [Issues -> Issues]]
        /\ \A q \in Runs, j \in Issues :
             ~Misnumbered /\ releasing[q][j] = j => releasing'[q][j] = j
    <3>1. ASSUME NEW n \in Issues, ~Misnumbered => n = i,
                 releasing' = [releasing EXCEPT ![r][i] = n]
          PROVE  /\ releasing' \in [Runs -> [Issues -> Issues]]
                 /\ releasing'[r][i] = n
                 /\ \A q \in Runs, j \in Issues :
                      q # r \/ j # i => releasing'[q][j] = releasing[q][j]
      BY <3>1 DEF TypeOK
    <3>2. CASE UNCHANGED releasing
      BY <3>2 DEF TypeOK
    <3> QED BY <2>4, <3>1, <3>2
  <2> QED BY <2>2, <2>3, <2>5 DEF TypeOK, Effect
<1>5. CASE Publish(r, i)
  <2>1. /\ Works(r, i, "labelling") /\ "labelling" \in Stages
        /\ stage' \in [Runs -> [Issues -> Stages]]
    BY <1>5, WorksEffect DEF Publish, Working, Step
  <2>2. UNCHANGED <<label, open, phase, listed, releasing, prs>>
    BY <1>5 DEF Publish
  <2> QED BY <2>1, <2>2 DEF TypeOK, Effect
<1>8. CASE OpenPullRequest(r, i)
  <2>1. /\ UNCHANGED <<label, open, phase, listed, stage, releasing>>
        /\ prs' = [prs EXCEPT ![i] = @ \cup {r}]
    BY <1>8 DEF OpenPullRequest
  <2>2. /\ prs' \in [Issues -> SUBSET Runs]
        /\ prs'[i] = prs[i] \cup {r}
        /\ \A j \in Issues \ {i} : prs'[j] = prs[j]
    BY <2>1 DEF TypeOK
  <2>3. Opens(r, i)
    BY <1>8, <2>1, <2>2 DEF OpenPullRequest, Opens
  <2> QED BY <2>1, <2>2, <2>3 DEF TypeOK, Effect
<1>9. CASE Dispose(r, i)
  <2>1. PICK s \in {"settled", "failed"} : Step(r, i, "disposing", s)
    BY <1>9 DEF Dispose
  <2>2. StageSet(r, i, s) /\ stage' \in [Runs -> [Issues -> Stages]]
    BY <2>1, ToSets DEF Step, To, Stages
  <2>3. UNCHANGED <<label, open, phase, listed, releasing, prs>>
    BY <1>9 DEF Dispose
  <2>4. Disposes(r, i)
    BY <2>1, <2>2, <2>3 DEF Disposes, Step
  <2> QED BY <2>2, <2>3, <2>4 DEF TypeOK, Effect
<1>6. CASE Release(r, i)
  <2>1. PICK n \in Issues : n = releasing[r][i]
    BY DEF TypeOK
  <2>2. /\ phase[r] = "processing" /\ stage[r][i] = "releasing"
        /\ UNCHANGED <<open, phase, listed, releasing, prs>>
        /\ EditThenComment(n, "ready", To(r, i, "disposing"), To(r, i, "failed"))
    BY <1>6, <2>1 DEF Release
  <2>3. CASE label' = [label EXCEPT ![n] = "ready"] /\ To(r, i, "disposing")
    <3>1. StageSet(r, i, "disposing") /\ stage' \in [Runs -> [Issues -> Stages]]
      BY <2>3, ToSets DEF Stages
    <3>2. LabelSet(n, "ready") /\ label' \in [Issues -> Labels]
      BY <2>3, EditSets DEF Labels
    <3>3. Releases(r, i)
      BY <2>1, <2>2, <3>1, <3>2 DEF Releases
    <3> QED BY <2>2, <3>1, <3>2, <3>3 DEF TypeOK, Effect
  <2>4. CASE /\ GhFails
             /\ UNCHANGED label \/ label' = [label EXCEPT ![n] = "ready"]
             /\ To(r, i, "failed")
    <3>1. StageSet(r, i, "failed") /\ stage' \in [Runs -> [Issues -> Stages]]
      BY <2>4, ToSets DEF Stages
    <3>2. /\ label' \in [Issues -> Labels]
          /\ \A j \in Issues \ {n} : label'[j] = label[j]
      BY <2>4, EditSets DEF Labels, LabelSet, TypeOK
    <3>3. FailsToLabel(r, i)
      BY <2>1, <2>2, <2>4, <3>1, <3>2 DEF FailsToLabel
    <3> QED BY <2>2, <3>1, <3>2, <3>3 DEF TypeOK, Effect
  <2> QED BY <2>2, <2>3, <2>4 DEF EditThenComment
<1>7. CASE MarkIssuePrOpen(r, i)
  <2>1. /\ phase[r] = "processing" /\ stage[r][i] = "labelling"
        /\ UNCHANGED <<open, phase, listed, releasing, prs>>
    BY <1>7 DEF MarkIssuePrOpen
  <2>2. CASE label' = [label EXCEPT ![i] = "pr_open"] /\ To(r, i, "disposing")
    <3>1. StageSet(r, i, "disposing") /\ stage' \in [Runs -> [Issues -> Stages]]
      BY <2>2, ToSets DEF Stages
    <3>2. LabelSet(i, "pr_open") /\ label' \in [Issues -> Labels]
      BY <2>2, EditSets DEF Labels
    <3>3. Marks(r, i)
      BY <2>1, <3>1, <3>2 DEF Marks
    <3> QED BY <2>1, <3>1, <3>2, <3>3 DEF TypeOK, Effect
  <2>3. CASE GhFails /\ UNCHANGED label /\ To(r, i, "failed")
    <3>1. StageSet(r, i, "failed") /\ stage' \in [Runs -> [Issues -> Stages]]
      BY <2>3, ToSets DEF Stages
    <3>2. FailsToLabel(r, i)
      BY <2>1, <2>3, <3>1 DEF FailsToLabel
    <3> QED BY <2>1, <2>3, <3>1, <3>2 DEF TypeOK, Effect
  <2> QED BY <1>7, <2>2, <2>3 DEF MarkIssuePrOpen
<1> QED BY <1>1, <1>2, <1>3, <1>4, <1>5, <1>6, <1>7, <1>8, <1>9 DEF Pipeline

LEMMA NextEffect ==
  ASSUME TypeOK, [Next]_vars
  PROVE  /\ TypeOK'
         /\ Quiet \/ \E r \in Runs : Effect(r)
         /\ \A q \in Runs, j \in Issues :
              ~Misnumbered /\ releasing[q][j] = j => releasing'[q][j] = j
<1>1. ASSUME NEW i \in Issues, Merge(i)
      PROVE  TypeOK' /\ Quiet /\ UNCHANGED releasing
  BY <1>1 DEF Merge, TypeOK, Quiet
<1>2. CASE UNCHANGED vars
  BY <1>2 DEF vars, TypeOK, Quiet
<1> QED BY <1>1, <1>2, ScriptEffect, PipelineEffect DEF Next

-----------------------------------------------------------------------------
(* The order of a batch, and who is active *)

LEMMA BasicPreserved ==
  ASSUME Basic, [Next]_vars
  PROVE  Basic'
<1>1. TypeOK /\ TypeOK' /\ OwnNumber'
  BY NextEffect DEF Basic, OwnNumber
<1>2. CASE Quiet
  <2>1. PhasesFit' /\ OneActive'
    BY <1>2 DEF Basic, Quiet, PhasesFit, OneActive, Active
  <2>2. PickedInOrder' /\ PickedUnblocked'
    BY <1>2 DEF Basic, Quiet, PickedInOrder, PickedUnblocked, Picked, In
  <2> QED BY <1>1, <2>1, <2>2 DEF Basic
<1>3. ASSUME NEW r \in Runs, Lists(r) PROVE Basic'
  <2>1. /\ phase' [r] = "picking" /\ stage' = stage
        /\ \A q \in Runs \ {r} : phase'[q] = phase[q] /\ listed'[q] = listed[q]
        /\ \A i \in Issues : stage[r][i] = "none"
    BY <1>3 DEF Lists, PhaseSet, Basic, PhasesFit, StagesOf
  <2>2. PhasesFit'
    <3> SUFFICES ASSUME NEW q \in Runs, NEW i \in Issues
                 PROVE  stage[q][i] \in StagesOf(phase'[q])
      BY <2>1 DEF PhasesFit
    <3>1. "none" \in StagesOf("picking")
      BY DEF StagesOf
    <3>2. stage[q][i] \in StagesOf(phase[q])
      BY DEF Basic, PhasesFit
    <3> QED BY <2>1, <3>1, <3>2
  <2>3. OneActive'
    BY <1>3, <2>1 DEF Lists, Basic, OneActive, Active
  <2>4. Picked(r) = {} /\ \A q \in Runs : Picked(q)' = Picked(q)
    BY <2>1 DEF Picked, In
  <2>5. PickedInOrder' /\ PickedUnblocked'
    BY <2>1, <2>4 DEF Basic, PickedInOrder, PickedUnblocked
  <2> QED BY <1>1, <2>2, <2>3, <2>5 DEF Basic
<1>4. ASSUME NEW r \in Runs, NEW i \in Issues, Picks(r, i) PROVE Basic'
  <2>1. /\ phase' = phase /\ stage'[r][i] = "picked"
        /\ \A q \in Runs, j \in Issues :
             q # r \/ j # i => stage'[q][j] = stage[q][j]
    BY <1>4 DEF Picks, StageSet
  <2>2. PhasesFit'
    <3>1. "picked" \in StagesOf("picking") /\ phase[r] = "picking"
      BY <1>4 DEF Picks, StagesOf
    <3> QED BY <2>1, <3>1 DEF Basic, PhasesFit
  <2>3. OneActive'
    BY <2>1 DEF Basic, OneActive, Active
  <2>4. /\ Picked(r)' = Picked(r) \cup {i}
        /\ \A q \in Runs \ {r} : Picked(q)' = Picked(q)
    BY <2>1 DEF Picked, In
  <2>5. PickedInOrder'
    <3>1. ASSUME NEW j \in listed[r] \ {i} PROVE i < j
      <4>1. i <= j /\ i # j
        BY <1>4 DEF Picks
      <4>2. i \in Nat /\ j \in Nat
        BY SandcastleAssumption DEF Basic, TypeOK
      <4> QED BY <4>1, <4>2
    <3> QED BY <1>4, <2>4, <3>1 DEF Basic, Picks, PickedInOrder
  <2>6. PickedUnblocked'
    <3> SUFFICES ASSUME BlockersFiledFirst, NEW q \in Runs,
                        NEW j \in Picked(q)', NEW b \in Picked(q)'
                 PROVE  b \notin Blockers[j]
      BY DEF PickedUnblocked
    <3>1. CASE q # r
      BY <2>4, <3>1 DEF Basic, PickedUnblocked
    <3>2. CASE q = r /\ j \in Picked(r) /\ b \in Picked(r)
      BY <3>2 DEF Basic, PickedUnblocked
    <3>3. CASE q = r /\ j = i /\ b \in Picked(r)
      BY <1>4, <3>3 DEF Picks
    <3>4. CASE q = r /\ b = i
      <4>1. j \in Issues /\ i \in Nat /\ j \in Nat /\ i \in listed[r]
        BY <1>4, SandcastleAssumption DEF Picked, Picks
      <4>2. j = i \/ j < i
        BY <1>4, <2>4, <3>4, <4>1 DEF Basic, PickedInOrder
      <4> QED BY <3>4, <4>1, <4>2 DEF BlockersFiledFirst
    <3> QED BY <2>4, <3>1, <3>2, <3>3, <3>4
  <2> QED BY <1>1, <2>2, <2>3, <2>5, <2>6 DEF Basic
<1>5. ASSUME NEW r \in Runs, NEW p \in Phases, stage' = stage, listed' = listed,
             PhaseSet(r, p), p \notin {"new", "picking"}, Active(r),
             \A i \in Issues : stage[r][i] \in StagesOf(p)
      PROVE  Basic'
  <2>1. PhasesFit'
    BY <1>5 DEF Basic, PhasesFit, PhaseSet
  <2>2. OneActive'
    BY <1>5 DEF Basic, OneActive, Active, PhaseSet
  <2>3. PickedInOrder' /\ PickedUnblocked'
    BY <1>5 DEF Basic, PickedInOrder, PickedUnblocked, Picked, In
  <2> QED BY <1>1, <2>1, <2>2, <2>3 DEF Basic
<1>6. ASSUME NEW r \in Runs, NEW p \in Phases, Turns(r, p) PROVE Basic'
  <2>1. /\ stage' = stage /\ listed' = listed /\ PhaseSet(r, p)
        /\ p \notin {"new", "picking"} /\ Active(r)
    BY <1>6 DEF Turns, Active
  <2>2. ASSUME NEW i \in Issues PROVE stage[r][i] \in StagesOf(p)
    <3>1. stage[r][i] \in Stages /\ stage[r][i] \in StagesOf(phase[r])
      BY DEF Basic, TypeOK, PhasesFit
    <3>2. CASE phase[r] = "picking"
      BY <1>6, <3>1, <3>2 DEF Turns, StagesOf, Picked, In
    <3>3. CASE phase[r] = "claiming"
      BY <1>6, <3>1, <3>3 DEF Turns, StagesOf, In, Stages
    <3>4. CASE phase[r] = "processing"
      BY <1>6, <3>1, <3>4 DEF Turns, StagesOf, AllSettled, Picked, In
    <3>5. CASE phase[r] = "reporting"
      BY <1>6, <3>1, <3>5 DEF Turns, StagesOf, In
    <3> QED BY <1>6, <3>2, <3>3, <3>4, <3>5 DEF Turns
  <2> QED BY <1>5, <2>1, <2>2
<1>7. ASSUME NEW r \in Runs, NEW i \in Issues, NEW s \in Stages,
             stage[r][i] # "none", s # "none", s \in StagesOf(phase[r]),
             StageSet(r, i, s), phase' = phase, listed' = listed
      PROVE  Basic'
  <2>1. PhasesFit'
    BY <1>7 DEF Basic, PhasesFit, StageSet
  <2>2. OneActive'
    BY <1>7 DEF Basic, OneActive, Active
  <2>3. \A q \in Runs : Picked(q)' = Picked(q)
    BY <1>7 DEF StageSet, Picked, In
  <2>4. PickedInOrder' /\ PickedUnblocked'
    BY <1>7, <2>3 DEF Basic, PickedInOrder, PickedUnblocked
  <2> QED BY <1>1, <2>1, <2>2, <2>4 DEF Basic
<1>8. ASSUME NEW r \in Runs, NEW i \in Issues, Dies(r, i) PROVE Basic'
  <2>1. \A j \in Issues : stage[r][j] \in StagesOf("died")
    BY DEF Basic, TypeOK, StagesOf
  <2> QED BY <1>5, <1>8, <2>1 DEF Dies, Phases, Active
<1>9. ASSUME NEW r \in Runs, NEW i \in Issues,
             \/ Claims(r, i) \/ \E s \in Stages : Works(r, i, s)
             \/ Opens(r, i) \/ Releases(r, i) \/ Marks(r, i) \/ Disposes(r, i)
             \/ ReleasesFailed(r, i) \/ FailsToLabel(r, i)
      PROVE  Basic'
  <2>1. CASE Claims(r, i)
    BY <1>7, <2>1 DEF Claims, StagesOf, Stages
  <2>2. ASSUME NEW s \in Stages, Works(r, i, s) PROVE Basic'
    BY <1>7, <2>2 DEF Works, StagesOf, Working
  <2>3. CASE Opens(r, i)
    BY <1>1, <2>3 DEF Opens, Basic, PhasesFit, OneActive, Active, PickedInOrder,
       PickedUnblocked, Picked, In
  <2>8. CASE Disposes(r, i)
    BY <1>7, <2>8 DEF Disposes, StagesOf, Stages
  <2>4. CASE Releases(r, i)
    BY <1>7, <2>4 DEF Releases, StagesOf, Stages
  <2>5. CASE Marks(r, i)
    BY <1>7, <2>5 DEF Marks, StagesOf, Stages
  <2>6. CASE ReleasesFailed(r, i)
    BY <1>7, <2>6 DEF ReleasesFailed, StagesOf, Stages
  <2>7. CASE FailsToLabel(r, i)
    BY <1>7, <2>7 DEF FailsToLabel, StagesOf, Stages
  <2> QED BY <1>9, <2>1, <2>2, <2>3, <2>4, <2>5, <2>6, <2>7, <2>8
<1> QED BY <1>1, <1>2, <1>3, <1>4, <1>6, <1>8, <1>9, NextEffect DEF Effect

-----------------------------------------------------------------------------
(* Labels *)

LEMMA ClaimedPreserved ==
  ASSUME Basic, Claimed, [Next]_vars
  PROVE  Claimed'
<1> SUFFICES ASSUME ~Overlap, ~Misnumbered, NEW q \in Runs, NEW j \in Issues,
                    Active(q)', stage'[q][j] \in Busy
             PROVE  label'[j] = "in_progress"
  BY DEF Claimed
<1>1. Active(q) /\ stage[q][j] \in Busy => label[j] = "in_progress"
  BY DEF Claimed
<1>2. \A r \in Runs : Active(r) /\ Active(q) => r = q
  BY DEF Basic, OneActive
<1>3. \A r \in Runs, i \in Issues : releasing[r][i] = i
  BY DEF Basic, OwnNumber
<1>4. CASE Quiet
  BY <1>1, <1>4 DEF Quiet, Active
<1>5. ASSUME NEW r \in Runs, Lists(r) PROVE label'[j] = "in_progress"
  <2>1. stage[r][j] = "none" /\ stage' = stage
    BY <1>5 DEF Lists, Basic, PhasesFit, StagesOf
  <2>2. q = r
    BY <1>5 DEF Lists, Active, PhaseSet
  <2> QED BY <2>1, <2>2 DEF Busy, Working
<1>6. ASSUME NEW r \in Runs, NEW p \in Phases, Turns(r, p)
      PROVE  label'[j] = "in_progress"
  <2>1. Active(q)
    BY <1>6 DEF Turns, Active, PhaseSet
  <2> QED BY <1>1, <1>6, <2>1 DEF Turns
<1>7. ASSUME NEW r \in Runs, NEW i \in Issues,
             \/ Picks(r, i) \/ Claims(r, i) \/ \E s \in Stages : Works(r, i, s)
             \/ Opens(r, i) \/ Releases(r, i) \/ Marks(r, i) \/ Disposes(r, i)
             \/ ReleasesFailed(r, i) \/ FailsToLabel(r, i)
      PROVE  label'[j] = "in_progress"
  <2>1. phase' = phase /\ Active(r)
    BY <1>7 DEF Picks, Claims, Works, Opens, Releases, Marks, Disposes, ReleasesFailed,
                FailsToLabel, Active
  <2>2. q = r /\ Active(q)
    BY <1>2, <2>1 DEF Active
  <2>3. ASSUME j # i PROVE label'[j] = label[j] /\ stage'[q][j] = stage[q][j]
    BY <1>3, <1>7, <2>3 DEF Picks, Claims, Works, Opens, Releases, Marks, Disposes,
       ReleasesFailed, FailsToLabel, StageSet, LabelSet
  <2>4. CASE j = i /\ Claims(r, i)
    BY <2>4 DEF Claims, LabelSet
  <2>5. CASE j = i /\ \E s \in Stages : Works(r, i, s)
    BY <1>1, <2>2, <2>5 DEF Works, Busy
  <2>6. CASE j = i /\ Opens(r, i)
    BY <1>1, <2>2, <2>6 DEF Opens
  <2>7. CASE /\ j = i
             /\ \/ Picks(r, i) \/ Releases(r, i) \/ Marks(r, i)
                \/ Disposes(r, i) \/ ReleasesFailed(r, i) \/ FailsToLabel(r, i)
    <3>1. stage'[r][i] \in {"picked", "disposing", "settled", "failed", "reported"}
      BY <2>7 DEF Picks, Releases, Marks, Disposes, ReleasesFailed, FailsToLabel, StageSet
    <3> QED BY <2>2, <2>7, <3>1 DEF Busy, Working
  <2> QED BY <1>1, <1>7, <2>2, <2>3, <2>4, <2>5, <2>6, <2>7
<1>8. ASSUME NEW r \in Runs, NEW i \in Issues, Dies(r, i)
      PROVE  label'[j] = "in_progress"
  <2>1. Active(r) /\ ~Active(r)' /\ (q # r => Active(q))
    BY <1>8 DEF Dies, Active, PhaseSet
  <2> QED BY <1>2, <2>1
<1> QED BY <1>4, <1>5, <1>6, <1>7, <1>8, NextEffect DEF Basic, Effect

(* The run that put the label there answers for it until it replaces it. *)
LEMMA WorkedOnPreserved ==
  ASSUME Basic, WorkedOn, [Next]_vars
  PROVE  WorkedOn'
<1> SUFFICES ASSUME ~GhFails, ~Misnumbered, NEW j \in Issues,
                    label'[j] = "in_progress"
             PROVE  \E q \in Runs : Active(q)' /\ stage'[q][j] \in Busy \cup {"failed"}
  BY DEF WorkedOn
<1>1. ASSUME label[j] = "in_progress"
      PROVE  \E q \in Runs : Active(q) /\ stage[q][j] \in Busy \cup {"failed"}
  BY <1>1 DEF WorkedOn
<1>2. \A r \in Runs, i \in Issues : releasing[r][i] = i
  BY DEF Basic, OwnNumber
<1>3. CASE Quiet
  BY <1>1, <1>3 DEF Quiet, Active
<1>4. ASSUME NEW r \in Runs, Lists(r)
      PROVE  \E q \in Runs : Active(q)' /\ stage'[q][j] \in Busy \cup {"failed"}
  <2>1. PICK q \in Runs : Active(q) /\ stage[q][j] \in Busy \cup {"failed"}
    BY <1>1, <1>4 DEF Lists
  <2>2. q # r
    BY <1>4, <2>1 DEF Lists, Active
  <2> QED BY <1>4, <2>1, <2>2 DEF Lists, Active, PhaseSet
<1>5. ASSUME NEW r \in Runs, NEW p \in Phases, Turns(r, p)
      PROVE  \E q \in Runs : Active(q)' /\ stage'[q][j] \in Busy \cup {"failed"}
  <2>1. PICK q \in Runs : Active(q) /\ stage[q][j] \in Busy \cup {"failed"}
    BY <1>1, <1>5 DEF Turns
  <2>2. CASE q # r
    BY <1>5, <2>1, <2>2 DEF Turns, Active, PhaseSet
  <2>3. CASE q = r /\ p # "done"
    BY <1>5, <2>1, <2>3 DEF Turns, Active, PhaseSet
  <2>4. CASE q = r /\ p = "done"
    <3>1. stage[r][j] \in StagesOf(phase[r])
      BY DEF Basic, PhasesFit
    <3>2. CASE phase[r] = "picking"
      BY <2>1, <2>4, <3>1, <3>2 DEF StagesOf, Busy, Working
    <3>3. CASE phase[r] = "reporting" /\ In(r, "failed") = {}
      BY <2>1, <2>4, <3>1, <3>3 DEF StagesOf, Busy, Working, In
    <3> QED BY <1>5, <2>4, <3>2, <3>3 DEF Turns
  <2> QED BY <2>2, <2>3, <2>4
<1>6. ASSUME NEW r \in Runs, NEW i \in Issues,
             \/ Picks(r, i) \/ Claims(r, i) \/ \E s \in Stages : Works(r, i, s)
             \/ Opens(r, i) \/ Releases(r, i) \/ Marks(r, i) \/ Disposes(r, i)
             \/ ReleasesFailed(r, i)
      PROVE  \E q \in Runs : Active(q)' /\ stage'[q][j] \in Busy \cup {"failed"}
  <2>1. phase' = phase /\ Active(r)
    BY <1>6 DEF Picks, Claims, Works, Opens, Releases, Marks, Disposes, ReleasesFailed,
                Active
  <2>2. Active(r)' /\ \A q \in Runs : Active(q)' <=> Active(q)
    BY <2>1 DEF Active
  <2>3. CASE j # i
    <3>1. /\ label'[j] = label[j]
          /\ \A q \in Runs : stage'[q][j] = stage[q][j]
      BY <1>2, <1>6, <2>3 DEF Picks, Claims, Works, Opens, Releases, Marks, Disposes,
         ReleasesFailed, StageSet, LabelSet
    <3> QED BY <1>1, <2>2, <3>1
  <2>4. CASE j = i /\ (Releases(r, i) \/ Marks(r, i) \/ ReleasesFailed(r, i))
    <3>1. label'[i] \in {"ready", "pr_open"}
      BY <1>2, <2>4 DEF Releases, Marks, ReleasesFailed, LabelSet
    <3> QED BY <2>4, <3>1
  <2>5. CASE j = i /\ Picks(r, i)
    <3>1. PICK q \in Runs : Active(q) /\ stage[q][j] \in Busy \cup {"failed"}
      BY <1>1, <2>5 DEF Picks
    <3>2. stage[r][j] \in {"none", "picked"}
      BY <2>5 DEF Picks, Basic, PhasesFit, StagesOf
    <3>3. q # r
      BY <3>1, <3>2 DEF Busy, Working
    <3> QED BY <2>2, <2>5, <3>1, <3>3 DEF Picks, StageSet
  <2>6. CASE j = i /\ (Claims(r, i) \/ \E s \in Stages : Works(r, i, s))
    <3>1. stage'[r][i] \in Busy \cup {"failed"}
      BY <2>6 DEF Claims, Works, StageSet, Busy, Working
    <3> QED BY <2>2, <2>6, <3>1
  <2>7. CASE j = i /\ Opens(r, i)
    BY <1>1, <2>2, <2>7 DEF Opens
  <2>8. CASE j = i /\ Disposes(r, i)
    <3>1. PICK q \in Runs : Active(q) /\ stage[q][j] \in Busy \cup {"failed"}
      BY <1>1, <2>8 DEF Disposes
    <3>2. q # r
      BY <2>8, <3>1 DEF Disposes, Busy, Working
    <3> QED BY <2>2, <2>8, <3>1, <3>2 DEF Disposes, StageSet
  <2> QED BY <1>6, <2>3, <2>4, <2>5, <2>6, <2>7, <2>8
<1> QED BY <1>3, <1>4, <1>5, <1>6, NextEffect DEF Basic, Effect, Dies, FailsToLabel

(* The steps of a run on one issue that leave its phase alone. *)
ActsOn(r, i) == \/ Picks(r, i) \/ Claims(r, i) \/ \E s \in Stages : Works(r, i, s)
                \/ Opens(r, i) \/ Releases(r, i) \/ Marks(r, i) \/ Disposes(r, i)
                \/ ReleasesFailed(r, i)

LEMMA ActsOnIssue ==
  ASSUME Basic, ~Misnumbered, NEW r \in Runs, NEW i \in Issues, ActsOn(r, i)
  PROVE  /\ phase' = phase /\ Active(r)
         /\ \A q \in Runs : /\ Active(q)' <=> Active(q)
                            /\ listed'[q] \subseteq listed[q]
         /\ \A j \in Issues \ {i} : label'[j] = label[j] /\ prs'[j] = prs[j]
         /\ \A q \in Runs, j \in Issues :
              q # r \/ j # i => stage'[q][j] = stage[q][j]
<1>1. phase' = phase /\ Active(r)
  BY DEF ActsOn, Picks, Claims, Works, Opens, Releases, Marks, Disposes, ReleasesFailed,
         Active
<1>2. \A q \in Runs : listed'[q] \subseteq listed[q]
  BY DEF ActsOn, Picks, Claims, Works, Opens, Releases, Marks, Disposes, ReleasesFailed
<1>3. releasing[r][i] = i
  BY DEF Basic, OwnNumber
<1>4. \A j \in Issues \ {i} : label'[j] = label[j] /\ prs'[j] = prs[j]
  BY <1>3 DEF ActsOn, Picks, Claims, Works, Opens, Releases, Marks, Disposes,
     ReleasesFailed, LabelSet
<1>5. \A q \in Runs, j \in Issues : q # r \/ j # i => stage'[q][j] = stage[q][j]
  BY DEF ActsOn, Picks, Claims, Works, Opens, Releases, Marks, Disposes, ReleasesFailed,
         StageSet
<1> QED BY <1>1, <1>2, <1>4, <1>5 DEF Active

LEMMA PublishedFitsPreserved ==
  ASSUME Basic, Claimed, PublishedFits, [Next]_vars
  PROVE  PublishedFits'
<1> SUFFICES ASSUME ~Overlap, ~GhFails, ~Misnumbered
             PROVE  /\ \A r \in Runs, i \in Issues :
                         LabelKept(r, i)' /\ FailedBefore(r, i)'
                    /\ \A i \in Issues : \A q \in prs'[i] : PrFits(q, i)'
                    /\ PublishedOnce'
  BY DEF PublishedFits
<1>1. /\ \A r \in Runs, i \in Issues : LabelKept(r, i) /\ FailedBefore(r, i)
      /\ \A i \in Issues : \A q \in prs[i] : q \in Runs /\ PrFits(q, i)
      /\ \A r, s \in Runs : Active(r) /\ Active(s) => r = s
      /\ \A r \in Runs, i \in Issues :
           Active(r) /\ stage[r][i] \in Busy => label[i] = "in_progress"
      /\ \A r \in Runs, i \in Issues : releasing[r][i] = i
      /\ \A r \in Runs, i \in Issues : stage[r][i] \in StagesOf(phase[r])
  BY DEF PublishedFits, Basic, TypeOK, OneActive, Claimed, OwnNumber, PhasesFit
<1>2. PublishedOnce
  BY DEF PublishedFits
<1>3. CASE Quiet
  <2>1. /\ label' = label /\ phase' = phase /\ stage' = stage /\ prs' = prs
        /\ \A r \in Runs : listed'[r] \subseteq listed[r]
    BY <1>3 DEF Quiet
  <2>2. ASSUME NEW r \in Runs, NEW i \in Issues
        PROVE  LabelKept(r, i)' /\ FailedBefore(r, i)'
    <3>1. LabelKept(r, i) /\ FailedBefore(r, i)
      BY <1>1
    <3> QED BY <2>1, <3>1 DEF LabelKept, FailedBefore, Active
  <2> QED BY <1>1, <1>2, <2>1, <2>2 DEF PrFits, PublishedOnce, Succeeded, Active
<1>4. ASSUME NEW r \in Runs, Lists(r)
      PROVE  /\ \A q \in Runs, i \in Issues :
                  LabelKept(q, i)' /\ FailedBefore(q, i)'
             /\ \A i \in Issues : \A q \in prs'[i] : PrFits(q, i)'
             /\ PublishedOnce'
  <2>1. /\ \A s \in Runs : ~Active(s)
        /\ label' = label /\ stage' = stage /\ prs' = prs
        /\ \A q \in Runs : Active(q)' => q = r
        /\ \A i \in listed'[r] : label[i] = "ready"
        /\ \A i \in Issues : stage[r][i] = "none"
    BY <1>1, <1>4 DEF Lists, StagesOf, PhaseSet, Active
  <2>2. ASSUME NEW q \in Runs, NEW i \in Issues, Active(q)',
               i \in listed'[q] \/ stage'[q][i] # "none"
        PROVE  label'[i] = "ready" /\ \A p \in prs'[i] : stage'[p][i] \in Failures
    <3>1. q = r /\ label[i] = "ready"
      BY <2>1, <2>2
    <3>2. ASSUME NEW p \in prs[i] PROVE stage[p][i] \in Failures
      <4>1. PrFits(p, i) /\ ~Active(p)
        BY <1>1, <2>1
      <4> QED BY <3>1, <4>1 DEF PrFits
    <3> QED BY <2>1, <3>1, <3>2
  <2>3. \A q \in Runs, i \in Issues : LabelKept(q, i)' /\ FailedBefore(q, i)'
    BY <2>2 DEF LabelKept, FailedBefore
  <2>4. \A i \in Issues : \A q \in prs'[i] : PrFits(q, i)'
    BY <1>1, <2>1 DEF PrFits
  <2> QED BY <1>2, <2>1, <2>3, <2>4 DEF PublishedOnce, Succeeded
<1>5. ASSUME NEW r \in Runs, NEW p \in Phases, Turns(r, p)
      PROVE  /\ \A q \in Runs, i \in Issues :
                  LabelKept(q, i)' /\ FailedBefore(q, i)'
             /\ \A i \in Issues : \A q \in prs'[i] : PrFits(q, i)'
             /\ PublishedOnce'
  <2>1. /\ label' = label /\ stage' = stage /\ prs' = prs /\ listed' = listed
        /\ \A q \in Runs : Active(q)' => Active(q)
        /\ \A q \in Runs \ {r} : Active(q) => Active(q)'
    BY <1>5 DEF Turns, PhaseSet, Active
  <2>2. \A q \in Runs, i \in Issues : LabelKept(q, i)' /\ FailedBefore(q, i)'
    BY <1>1, <2>1 DEF LabelKept, FailedBefore
  <2>3. ASSUME NEW i \in Issues, stage[r][i] \in {"publishing", "labelling"}
        PROVE  Active(r)'
    <3>1. /\ stage[r][i] \in StagesOf(phase[r])
          /\ ~AllSettled(r)
      BY <1>1, <2>3 DEF AllSettled, Picked, In
    <3>2. phase[r] \notin {"picking", "claiming", "reporting"}
      BY <2>3, <3>1 DEF StagesOf
    <3> QED BY <1>5, <3>1, <3>2 DEF Turns
  <2>4. ASSUME NEW i \in Issues, NEW q \in prs'[i] PROVE PrFits(q, i)'
    <3>1. PrFits(q, i) /\ q \in Runs
      BY <1>1, <2>1
    <3> QED BY <2>1, <2>3, <3>1 DEF PrFits
  <2> QED BY <1>2, <2>1, <2>2, <2>4 DEF PublishedOnce, Succeeded
<1>6. ASSUME NEW r \in Runs, NEW i \in Issues, ActsOn(r, i)
      PROVE  /\ \A q \in Runs, j \in Issues :
                  LabelKept(q, j)' /\ FailedBefore(q, j)'
             /\ \A j \in Issues : \A q \in prs'[j] : PrFits(q, j)'
             /\ PublishedOnce'
  <2>1. /\ phase' = phase /\ Active(r)
        /\ \A q \in Runs : /\ Active(q)' <=> Active(q)
                           /\ listed'[q] \subseteq listed[q]
        /\ \A j \in Issues \ {i} : label'[j] = label[j] /\ prs'[j] = prs[j]
        /\ \A q \in Runs, j \in Issues :
             q # r \/ j # i => stage'[q][j] = stage[q][j]
        /\ \A q \in Runs : Active(q) => q = r
    BY <1>1, <1>6, ActsOnIssue
  <2>2. prs'[i] \subseteq prs[i] \cup {r} /\ prs[i] \subseteq prs'[i]
    BY <1>6 DEF ActsOn, Picks, Claims, Works, Opens, Releases, Marks, Disposes,
       ReleasesFailed
  <2>3. \A q \in prs[i] \ {r} : stage[q][i] \in Failures
    <3>1. i \in listed[r] \/ stage[r][i] # "none"
      BY <1>6 DEF ActsOn, Picks, Claims, Works, Opens, Releases, Marks, Disposes,
         ReleasesFailed, Working
    <3> QED BY <1>1, <2>1, <3>1 DEF FailedBefore
  <2>4. \A q \in prs'[i] \ {r} : stage'[q][i] \in Failures /\ q \in Runs
    BY <1>1, <2>1, <2>2, <2>3
  <2>5. ASSUME NEW j \in Issues \ {i}
        PROVE  /\ \A q \in Runs : LabelKept(q, j)' /\ FailedBefore(q, j)'
               /\ \A q \in prs'[j] : PrFits(q, j)'
               /\ Succeeded(j)' = Succeeded(j)
    <3>1. /\ label'[j] = label[j] /\ prs'[j] = prs[j]
          /\ \A q \in Runs : stage'[q][j] = stage[q][j]
      BY <2>1
    <3>2. \A q \in prs[j] : q \in Runs /\ stage'[q][j] = stage[q][j]
      BY <1>1, <3>1
    <3>3. ASSUME NEW q \in Runs PROVE LabelKept(q, j)' /\ FailedBefore(q, j)'
      <4>1. LabelKept(q, j) /\ FailedBefore(q, j)
        BY <1>1
      <4> QED BY <2>1, <3>1, <3>2, <4>1 DEF LabelKept, FailedBefore
    <3>4. ASSUME NEW q \in prs'[j] PROVE PrFits(q, j)'
      <4>1. q \in Runs /\ PrFits(q, j)
        BY <1>1, <3>1
      <4> QED BY <2>1, <3>1, <4>1 DEF PrFits
    <3> QED BY <3>1, <3>2, <3>3, <3>4 DEF Succeeded
  <2>6. ASSUME NEW q \in Runs PROVE LabelKept(q, i)' /\ FailedBefore(q, i)'
    <3> SUFFICES ASSUME q = r
                 PROVE  /\ i \in listed'[r] \/ stage'[r][i] = "picked"
                             => label'[i] = "ready"
                        /\ \A p \in prs'[i] \ {r} : stage'[p][i] \in Failures
      BY <2>1 DEF LabelKept, FailedBefore
    <3>1. CASE Picks(r, i)
      BY <1>1, <2>1, <2>4, <3>1 DEF Picks, LabelKept
    <3>2. CASE ~Picks(r, i)
      <4>1. stage[r][i] # "none"
        BY <1>6, <3>2 DEF ActsOn, Claims, Works, Opens, Releases, Marks, Disposes,
           ReleasesFailed, Working
      <4>2. i \notin listed[r]
        <5>1. i \in listed[r] => i < i
          BY <4>1 DEF Basic, PickedInOrder, Picked, In
        <5> QED BY <5>1, SandcastleAssumption
      <4>3. i \notin listed'[r]
        BY <2>1, <4>2
      <4>4. stage'[r][i] # "picked"
        BY <1>6, <3>2 DEF ActsOn, Claims, Works, Opens, Releases, Marks, Disposes,
           ReleasesFailed, StageSet
      <4> QED BY <2>4, <4>3, <4>4
    <3> QED BY <3>1, <3>2
  <2>7. ASSUME r \in prs'[i] PROVE PrFits(r, i)'
    <3>1. CASE Opens(r, i)
      BY <2>1, <3>1 DEF Opens, PrFits
    <3>2. CASE ~Opens(r, i)
      <4>1. r \in prs[i]
        BY <1>6, <2>7, <3>2 DEF ActsOn, Picks, Claims, Works, Releases, Marks,
           Disposes, ReleasesFailed
      <4>2. PrFits(r, i)
        BY <1>1, <4>1
      <4>3. CASE Picks(r, i)
        BY <1>1, <4>2, <4>3 DEF Picks, StagesOf, PrFits, Failures
      <4>4. CASE Claims(r, i)
        BY <4>2, <4>4 DEF Claims, PrFits, Failures
      <4>5. ASSUME NEW s \in Stages, Works(r, i, s) PROVE PrFits(r, i)'
        BY <2>1, <4>2, <4>5 DEF Works, PrFits, StageSet, Working, Failures
      <4>6. CASE Releases(r, i)
        BY <4>2, <4>6 DEF Releases, PrFits, Failures
      <4>7. CASE Marks(r, i)
        BY <4>7 DEF Marks, PrFits, StageSet, LabelSet
      <4>8. CASE Disposes(r, i)
        BY <4>2, <4>8 DEF Disposes, PrFits, StageSet, Failures
      <4>9. CASE ReleasesFailed(r, i)
        BY <4>9 DEF ReleasesFailed, PrFits, StageSet, Failures
      <4> QED BY <1>6, <3>2, <4>3, <4>4, <4>5, <4>6, <4>7, <4>8, <4>9 DEF ActsOn
    <3> QED BY <3>1, <3>2
  <2>8. \A q \in prs'[i] : PrFits(q, i)'
    BY <2>4, <2>7 DEF PrFits
  <2>9. \A p, q \in Succeeded(i)' : p = q
    BY <2>4 DEF Succeeded, Failures
  <2>10. PublishedOnce'
    BY <1>2, <2>5, <2>9 DEF PublishedOnce
  <2> QED BY <2>5, <2>6, <2>8, <2>10
<1> QED BY <1>3, <1>4, <1>5, <1>6, NextEffect
        DEF Basic, Effect, Dies, FailsToLabel, ActsOn

-----------------------------------------------------------------------------
(* Theorems *)

Inv == Basic /\ Claimed /\ WorkedOn /\ PublishedFits

LEMMA Initially == Init => Inv
<1> SUFFICES ASSUME Init PROVE Inv
  OBVIOUS
<1>1. TypeOK
  BY DEF Init, TypeOK, Labels, Phases, Stages
<1>2. PhasesFit
  BY DEF Init, PhasesFit, StagesOf
<1>3. PickedInOrder /\ PickedUnblocked /\ OneActive /\ OwnNumber
  BY DEF Init, PickedInOrder, PickedUnblocked, OneActive, OwnNumber, Picked, In,
         Active
<1>4. Claimed /\ WorkedOn
  BY DEF Init, Claimed, WorkedOn, Active
<1>5. PublishedFits
  BY DEF Init, PublishedFits, LabelKept, FailedBefore, PublishedOnce, Succeeded,
         Active
<1> QED BY <1>1, <1>2, <1>3, <1>4, <1>5 DEF Basic, Inv

LEMMA Always == Spec => []Inv
<1>1. Inv /\ [Next]_vars => Inv'
  BY BasicPreserved, ClaimedPreserved, WorkedOnPreserved, PublishedFitsPreserved
  DEF Inv
<1> QED BY <1>1, Initially, PTL DEF Spec

(* Whatever fails and overlaps, labels, phases and pipelines stay well     *)
(* formed.                                                                 *)
THEOREM TypeCorrect == Spec => []TypeOK
<1>1. Inv => TypeOK
  BY DEF Inv, Basic
<1> QED BY <1>1, Always, PTL

(* Even if lookups fail, an issue is not worked on together with one that  *)
(* blocks it: issues are picked by number, so where blockers were filed    *)
(* first they were considered first.                                       *)
THEOREM BlockersNotInParallel ==
  BlockersFiledFirst => (Spec => []NoBlockerInParallel)
<1> SUFFICES ASSUME BlockersFiledFirst PROVE Spec => []NoBlockerInParallel
  OBVIOUS
<1>1. Inv => NoBlockerInParallel
  <2> SUFFICES ASSUME Inv, NEW r \in Runs, NEW i \in Issues, NEW b \in Issues,
                      stage[r][i] \in Working, stage[r][b] \in Working
               PROVE  b \notin Blockers[i]
    BY DEF NoBlockerInParallel
  <2>1. i \in Picked(r) /\ b \in Picked(r)
    BY DEF Picked, In, Working
  <2> QED BY <2>1 DEF Inv, Basic, PickedUnblocked
<1> QED BY <1>1, Always, PTL

(* Even if gh calls fail, the issue a pipeline works on is labelled in     *)
(* progress, as long as runs do not overlap and no verifier releases the   *)
(* issue of another pipeline.                                              *)
THEOREM WorkLabelled ==
  ~Overlap /\ ~Misnumbered => (Spec => []WorkingIsLabelled)
<1> SUFFICES ASSUME ~Overlap, ~Misnumbered PROVE Spec => []WorkingIsLabelled
  OBVIOUS
<1>1. Inv => WorkingIsLabelled
  BY DEF Inv, Claimed, WorkingIsLabelled, Active, Busy
<1> QED BY <1>1, Always, PTL

(* Even if runs overlap, an issue labelled in progress is some active      *)
(* run's, as long as gh calls do not fail and verifiers name their issue.  *)
THEOREM ClaimsAnsweredFor ==
  ~GhFails /\ ~Misnumbered => (Spec => []InProgressMeansWorkedOn)
<1> SUFFICES ASSUME ~GhFails, ~Misnumbered
             PROVE  Spec => []InProgressMeansWorkedOn
  OBVIOUS
<1>1. Inv => InProgressMeansWorkedOn
  BY DEF Inv, WorkedOn, InProgressMeansWorkedOn, Busy, Working
<1> QED BY <1>1, Always, PTL

(* Of the pull requests for an issue, from whatever runs, at most one is   *)
(* of a pipeline that did not fail, and once its run has ended the issue   *)
(* is labelled so that no later run lists it.                              *)
THEOREM PullRequestsUnique ==
  ~Overlap /\ ~GhFails /\ ~Misnumbered =>
    (Spec => [](PublishedOnce /\ PublishedIsLabelled))
<1> SUFFICES ASSUME ~Overlap, ~GhFails, ~Misnumbered
             PROVE  Spec => [](PublishedOnce /\ PublishedIsLabelled)
  OBVIOUS
<1>1. Inv => PublishedOnce /\ PublishedIsLabelled
  BY DEF Inv, PublishedFits, PrFits, PublishedIsLabelled, Succeeded, Failures
<1> QED BY <1>1, Always, PTL

(* What the labels say of an issue is so, at every moment of runs that     *)
(* nothing but their agents and lookups disturbs.                          *)
THEOREM LabelsTrue ==
  BlockersFiledFirst /\ ~Overlap /\ ~GhFails /\ ~Misnumbered =>
    (Spec => []LabelsTellTheTruth)
<1> SUFFICES ASSUME BlockersFiledFirst, ~Overlap, ~GhFails, ~Misnumbered
             PROVE  Spec => []LabelsTellTheTruth
  OBVIOUS
<1>1. Spec => []NoBlockerInParallel
  BY BlockersNotInParallel
<1>2. Spec => []WorkingIsLabelled
  BY WorkLabelled
<1>3. Spec => []InProgressMeansWorkedOn
  BY ClaimsAnsweredFor
<1>4. Spec => [](PublishedOnce /\ PublishedIsLabelled)
  BY PullRequestsUnique
<1>5. TypeOK /\ NoBlockerInParallel /\ WorkingIsLabelled
      /\ InProgressMeansWorkedOn /\ PublishedOnce /\ PublishedIsLabelled
      => LabelsTellTheTruth
  BY DEF LabelsTellTheTruth
<1> QED BY <1>1, <1>2, <1>3, <1>4, <1>5, TypeCorrect, PTL
=============================================================================

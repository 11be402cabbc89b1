-------------------------- MODULE DocumentPagesProofs --------------------------
(***************************************************************************)
(* What the invariants of DocumentPages say of any documents, versions,    *)
(* forms, Policy Versions, tokens and bounds.  Every page has an inductive *)
(* invariant of its own (ExtractionPageInv, SwitchingPageInv, CatalogInv,  *)
(* DetailInv, WizardInv, PublicationInv, ShellInv), a lemma that each of   *)
(* its steps keeps it (...Step) and one that it gives what the page        *)
(* promises (...Means); PagesInv puts them together.                       *)
(***************************************************************************)
EXTENDS DocumentPages, FiniteSetTheorems, SequenceTheorems, WellFoundedInduction,
        TLAPS

-----------------------------------------------------------------------------
(* Numbers and positions.                                                  *)

(* Every set of natural numbers has a least element.                       *)
LEMMA Least ==
  ASSUME NEW S \in SUBSET Nat, S # {}
  PROVE  \E i \in S : \A j \in S : i <= j
<1> DEFINE R == {ss \in Nat \X Nat : ss[1] < ss[2]}
<1>1. IsWellFoundedOn(R, Nat)
  BY NatLessThanWellFounded DEF OpToRel
<1> HIDE DEF R
<1>2. PICK i \in S : \A j \in S : <<j, i>> \notin R
  BY <1>1, WFMin
<1>3. \A j \in S : ~(j < i)
  BY <1>2 DEF R
<1> QED BY <1>2, <1>3

LEMMA Greatest ==
  ASSUME NEW n \in Nat, NEW S \in SUBSET (1..n), S # {}
  PROVE  \E i \in S : \A j \in S : j <= i
<1> DEFINE D == {n - i : i \in S}
<1>1. \A i \in S : i \in Nat /\ n - i \in Nat
  OBVIOUS
<1>2. D \in SUBSET Nat /\ D # {}
  BY <1>1
<1>3. PICK d \in D : \A e \in D : d <= e
  <2> HIDE DEF D
  <2> QED BY <1>2, Least
<1>4. PICK i \in S : d = n - i
  BY <1>3
<1>5. \A j \in S : n - i <= n - j
  BY <1>3, <1>4
<1>6. \A j \in S : j <= i
  BY <1>1, <1>5
<1> QED BY <1>6

(* The rank of a position among some, the first having rank 1.             *)
UpTo(P, i) == {j \in P : j <= i}
Rank(P, i) == Cardinality(UpTo(P, i))

LEMMA Positions ==
  ASSUME NEW n \in Nat, NEW P \in SUBSET (1..n)
  PROVE  /\ IsFiniteSet(P) /\ Cardinality(P) \in Nat
         /\ \A i \in Nat : IsFiniteSet(UpTo(P, i)) /\ Rank(P, i) \in Nat
<1>1. IsFiniteSet(1..n)
  BY FS_Interval
<1>2. IsFiniteSet(P)
  BY <1>1, FS_Subset
<1>3. \A i \in Nat : IsFiniteSet(UpTo(P, i))
  <2>1. \A i \in Nat : UpTo(P, i) \subseteq P
    BY DEF UpTo
  <2> QED BY <1>2, <2>1, FS_Subset
<1> QED BY <1>2, <1>3, FS_CardinalityType DEF Rank

(* Different positions have different ranks.                               *)
LEMMA RankIsOne ==
  ASSUME NEW n \in Nat, NEW P \in SUBSET (1..n), NEW i \in P, NEW j \in P,
         Rank(P, i) = Rank(P, j)
  PROVE  i = j
<1>0. \A m \in P : m \in Nat
  OBVIOUS
<1>3. \A m \in P : IsFiniteSet(UpTo(P, m))
  BY <1>0, Positions
<1>1. ASSUME NEW a \in P, NEW b \in P, a < b
      PROVE  Rank(P, a) # Rank(P, b)
  <2>1. UpTo(P, a) \subseteq UpTo(P, b) /\ b \in UpTo(P, b) /\ b \notin UpTo(P, a)
    <3>1. a \in Nat /\ b \in Nat
      BY <1>0
    <3>2. b <= b /\ ~(b <= a)
      BY <1>1, <3>1
    <3>3. \A m \in P : m <= a => m <= b
      BY <1>0, <1>1, <3>1
    <3> QED BY <3>2, <3>3 DEF UpTo
  <2>2. IsFiniteSet(UpTo(P, b))
    BY <1>3
  <2>3. UpTo(P, a) # UpTo(P, b) /\ UpTo(P, a) \in SUBSET UpTo(P, b)
    BY <2>1
  <2> QED BY <2>2, <2>3, FS_Subset DEF Rank
<1>2. i < j \/ j < i \/ i = j
  BY <1>0
<1> QED BY <1>1, <1>2

(* Every rank up to the number of positions is that of one of them.        *)
LEMMA RankIsThere ==
  ASSUME NEW n \in Nat, NEW P \in SUBSET (1..n), NEW k \in 1..Cardinality(P)
  PROVE  \E i \in P : Rank(P, i) = k
<1> DEFINE Missing == {m \in 1..Cardinality(P) : \A i \in P : Rank(P, i) # m}
<1>0. Cardinality(P) \in Nat /\ IsFiniteSet(P)
  BY Positions
<1> SUFFICES ASSUME Missing # {} PROVE FALSE
  OBVIOUS
<1>5. \A j \in P : j \in Nat
  OBVIOUS
<1>1. PICK m \in Missing : \A j \in Missing : m <= j
  <2>1. Missing \in SUBSET Nat
    BY <1>0
  <2> HIDE DEF Missing
  <2> QED BY <2>1, Least
<1>2. m \in 1..Cardinality(P) /\ \A i \in P : Rank(P, i) # m
  BY <1>1
<1>3. CASE m = 1
  <2>1. P # {}
    BY <1>0, <1>2, FS_EmptySet
  <2>2. P \in SUBSET Nat
    OBVIOUS
  <2>3. PICK i \in P : \A j \in P : i <= j
    BY <2>1, <2>2, Least
  <2>4. UpTo(P, i) = {i}
    <3>1. \A j \in P : j <= i <=> j = i
      BY <1>5, <2>3
    <3> QED BY <3>1 DEF UpTo
  <2>5. Rank(P, i) = 1
    BY <2>4, FS_Singleton DEF Rank
  <2> QED BY <1>2, <1>3, <2>5
<1>4. CASE m # 1
  <2>1. m - 1 \in 1..Cardinality(P) /\ m - 1 \notin Missing
    BY <1>0, <1>1, <1>2, <1>4
  <2>2. PICK i \in P : Rank(P, i) = m - 1
    BY <2>1
  <2> DEFINE Later == {j \in P : ~(j <= i)}
  <2>3. Later # {}
    <3> SUFFICES ASSUME Later = {} PROVE FALSE
      OBVIOUS
    <3>1. UpTo(P, i) = P
      BY DEF UpTo
    <3> QED BY <1>0, <1>2, <2>2, <3>1 DEF Rank
  <2>4. PICK l \in Later : \A j \in Later : l <= j
    <3>1. Later \in SUBSET Nat
      BY <1>5
    <3> HIDE DEF Later
    <3> QED BY <2>3, <3>1, Least
  <2>5. UpTo(P, l) = UpTo(P, i) \cup {l} /\ l \notin UpTo(P, i) /\ l \in P
    <3>1. \A j \in P : j <= l <=> j <= i \/ j = l
      <4> TAKE j \in P
      <4>1. j \in Nat /\ i \in Nat /\ l \in Nat /\ ~(l <= i)
        BY <1>5, <2>4
      <4>2. ~(j <= i) => l <= j
        BY <2>4
      <4> QED BY <4>1, <4>2
    <3> QED BY <2>4, <3>1 DEF UpTo
  <2>6. Rank(P, l) = Rank(P, i) + 1
    <3>1. IsFiniteSet(UpTo(P, i))
      BY <1>5, Positions
    <3> QED BY <2>5, <3>1, FS_AddElement DEF Rank
  <2>7. Rank(P, l) = m
    BY <1>0, <1>2, <2>2, <2>6
  <2> QED BY <1>2, <2>5, <2>7
<1> QED BY <1>3, <1>4

(* The position of a rank.                                                 *)
PositionAt(P, k) == CHOOSE i \in P : Cardinality({j \in P : j <= i}) = k

LEMMA InOrder ==
  ASSUME NEW n \in Nat, NEW P \in SUBSET (1..n)
  PROVE  /\ Cardinality(P) \in Nat
         /\ P # {} => 1 \in 1..Cardinality(P)
         /\ \A k \in 1..Cardinality(P) : PositionAt(P, k) \in P
         /\ \A j, k \in 1..Cardinality(P) :
              PositionAt(P, j) = PositionAt(P, k) => j = k
<1>1. Cardinality(P) \in Nat /\ IsFiniteSet(P)
  BY Positions
<1>2. \A k : PositionAt(P, k) = CHOOSE i \in P : Rank(P, i) = k
  BY DEF PositionAt, Rank, UpTo
<1>3. \A k \in 1..Cardinality(P) : PositionAt(P, k) \in P /\ Rank(P, PositionAt(P, k)) = k
  <2>1. \A k \in 1..Cardinality(P) : \E i \in P : Rank(P, i) = k
    BY RankIsThere
  <2> QED BY <1>2, <2>1
<1>4. P # {} => Cardinality(P) # 0
  BY <1>1, FS_EmptySet
<1> QED BY <1>1, <1>3, <1>4

-----------------------------------------------------------------------------
(* The page that starts Extraction Runs.                                   *)

(* Each id is accepted once.                                               *)
IdsUnique == \A r, q \in runs : r.id = q.id => r = q

OneId ==
  /\ \A r \in runs : r.epoch # None =>
       /\ r.epoch = form.epoch => r.id = form.id
       /\ \A s \in submits : r.epoch = s.epoch => r.id = s.id
       /\ \A q \in runs : r.epoch = q.epoch => r.id = q.id
  /\ \A s \in submits :
       /\ s.epoch = form.epoch => s.id = form.id
       /\ \A t \in submits : s.epoch = t.epoch => s.id = t.id

Waits ==
  \A s \in submits : s.here =>
    /\ HasForm /\ form.submitting
    /\ s.id = form.id
    /\ \A t \in submits : t.here => t = s

Answered == \A s \in submits : s.got = "exists" => Taken(s.id)
Shapes ==
  /\ form = [id |-> form.id, epoch |-> form.epoch, submitting |-> form.submitting,
             told |-> form.told]
  /\ \A s \in submits :
       s = [number |-> s.number, id |-> s.id, of |-> s.of, epoch |-> s.epoch,
            got |-> s.got, here |-> s.here]
Epochs == IsFiniteSet(UsedEpochs) /\ form.epoch \in Nat

(* What is of its types whatever the bounds are.                           *)
ExtractionTypes ==
  /\ \A r \in runs : r.of \in Versions /\ r.done \in BOOLEAN
  /\ \A s \in submits : s.of \in Versions
  /\ sel \in Versions /\ archived \subseteq Versions
  /\ form.told \in {"none", "success", "exists", "error"}
  /\ form.submitting \in BOOLEAN
  /\ HasForm /\ form.submitting => \E s \in submits : s.here
HistoryTypes ==
  /\ registry \in {"loading", "ready", "empty", "error"}
  /\ history = [status |-> history.status, of |-> history.of, ids |-> history.ids]
  /\ history.status \in {"loading", "ready", "error"}
  /\ history.status = "loading" => loads # {}
ExtractionInv ==
  /\ Shapes /\ IdsUnique /\ OneId /\ Waits /\ Answered /\ Epochs
  /\ ExplainedByServer /\ ExtractionTypes
-----------------------------------------------------------------------------
(* There is an epoch that is not in use.                                   *)
LEMMA Fresh ==
  ASSUME Epochs
  PROVE  FreshEpoch \in Nat /\ FreshEpoch \notin UsedEpochs
<1> DEFINE n == Cardinality(UsedEpochs)
<1>1. n \in Nat
  BY FS_CardinalityType DEF Epochs
<1>2. \E k \in 0..n : k \notin UsedEpochs
  <2>1. SUFFICES ASSUME 0..n \subseteq UsedEpochs PROVE FALSE
    BY Zenon
  <2>2. Cardinality(0..n) <= n
    BY <2>1, FS_Subset DEF Epochs
  <2>3. Cardinality(0..n) = n + 1
    <3> HIDE DEF n
    <3>1. 0 \in Int /\ n \in Int /\ ~(0 > n)
      BY <1>1
    <3>2. Cardinality(0..n) = IF 0 > n THEN 0 ELSE n - 0 + 1
      BY <3>1, FS_Interval
    <3>. QED BY <3>1, <3>2
  <2> HIDE DEF n
  <2>. QED BY <1>1, <2>2, <2>3
<1>3. FreshEpoch \in 0..n /\ FreshEpoch \notin UsedEpochs
  BY <1>2, Zenon DEF FreshEpoch
<1> HIDE DEF n
<1>. QED BY <1>1, <1>3

LEMMA FreshForm ==
  ASSUME Epochs, NEW e, e = FreshEpoch
  PROVE  /\ e \in Nat /\ e # None
         /\ \A r \in runs : r.epoch # e
         /\ \A s \in submits : s.epoch # e
<1>1. e \in Nat /\ e \notin UsedEpochs
  BY Fresh
<1>2. e # None
  BY <1>1, ExtractionAssumption
<1>. QED BY <1>1, <1>2 DEF UsedEpochs

(* A step uses at most one new epoch.                                      *)
LEMMA EpochsFinite ==
  ASSUME Epochs, NEW e, UsedEpochs' \subseteq UsedEpochs \cup {e}
  PROVE  IsFiniteSet(UsedEpochs')
<1>1. IsFiniteSet(UsedEpochs \cup {e})
  BY FS_AddElement DEF Epochs
<1>. QED BY <1>1, FS_Subset

LEMMA InitInv == Init => ExtractionInv
<1> SUFFICES ASSUME Init PROVE ExtractionInv
  OBVIOUS
<1>1. runs = {} /\ submits = {} /\ form.epoch = 0 /\ form.told = "none"
  BY DEF Init
<1>2. UsedEpochs = {0}
  BY <1>1 DEF UsedEpochs
<1>3. Epochs
  BY <1>1, <1>2, FS_Singleton DEF Epochs
<1>5. Shapes
  BY <1>1 DEF Init, Shapes
<1>4. IdsUnique /\ OneId /\ Waits /\ Answered /\ ExplainedByServer
  BY <1>1 DEF IdsUnique, OneId, Waits, Answered, ExplainedByServer
<1>6. ExtractionTypes
  BY <1>1 DEF Init, ExtractionTypes
<1>. QED BY <1>3, <1>4, <1>5, <1>6 DEF ExtractionInv

(* A step that changes neither form, submissions, runs nor selection.      *)
LEMMA Quiet ==
  ASSUME ExtractionInv, UNCHANGED <<runs, form, submits, sel, archived>>
  PROVE  ExtractionInv'
BY DEF ExtractionInv, Shapes, IdsUnique, OneId, Waits, Answered, Epochs, UsedEpochs,
       ExplainedByServer, Taken, HasForm, ExtractionTypes

(* A form with another id starts a new epoch, and waits for nothing.       *)
LEMMA Renewed ==
  ASSUME ExtractionInv, runs' = runs, sel' \in Versions, archived' = archived,
         NEW i, NEW said \in {"none", "success", "error"},
         form' = [id |-> i, epoch |-> FreshEpoch, submitting |-> FALSE, told |-> said],
         submits' \subseteq submits, \A s \in submits' : ~s.here
  PROVE  ExtractionInv'
<1>1. /\ form'.id = i /\ form'.epoch = FreshEpoch /\ form'.submitting = FALSE
      /\ form'.told = said
  OBVIOUS
<1>2. /\ FreshEpoch \in Nat /\ FreshEpoch # None
      /\ \A r \in runs : r.epoch # FreshEpoch
      /\ \A s \in submits : s.epoch # FreshEpoch
  BY FreshForm DEF ExtractionInv
<1>3. Shapes'
  BY <1>1 DEF ExtractionInv, Shapes
<1>4. IdsUnique' /\ Answered'
  BY DEF ExtractionInv, IdsUnique, Answered, Taken
<1>5. OneId'
  BY <1>1, <1>2 DEF ExtractionInv, OneId
<1>6. Waits' /\ ExplainedByServer'
  BY <1>1 DEF Waits, ExplainedByServer
<1>7. UsedEpochs' \subseteq UsedEpochs \cup {FreshEpoch}
  BY <1>1 DEF UsedEpochs
<1>8. Epochs'
  BY <1>1, <1>2, <1>7, EpochsFinite DEF ExtractionInv, Epochs
<1>9. ExtractionTypes'
  BY <1>1 DEF ExtractionInv, ExtractionTypes
<1>. QED BY <1>3, <1>4, <1>5, <1>6, <1>8, <1>9 DEF ExtractionInv

(* A form that keeps its id, over no more runs and submissions.            *)
LEMMA KeptForm ==
  ASSUME ExtractionInv, runs' = runs, sel' = sel, archived' = archived,
         NEW said \in {"none", "success", "exists", "error"},
         form' = [id |-> form.id, epoch |-> form.epoch, submitting |-> FALSE,
                  told |-> said],
         HasForm /\ said = "exists" => Taken(form.id),
         submits' \subseteq submits, \A s \in submits' : ~s.here
  PROVE  ExtractionInv'
<1>1. /\ form'.id = form.id /\ form'.epoch = form.epoch /\ form'.submitting = FALSE
      /\ form'.told = said
  OBVIOUS
<1>2. Shapes'
  BY <1>1 DEF ExtractionInv, Shapes
<1>3. IdsUnique' /\ Answered'
  BY DEF ExtractionInv, IdsUnique, Answered, Taken
<1>4. OneId'
  BY <1>1 DEF ExtractionInv, OneId
<1>5. Waits'
  BY DEF Waits
<1>6. ExplainedByServer'
  BY <1>1 DEF ExplainedByServer, HasForm, Taken
<1>7. UsedEpochs' \subseteq UsedEpochs \cup {form.epoch}
  BY <1>1 DEF UsedEpochs
<1>8. Epochs'
  BY <1>1, <1>7, EpochsFinite DEF ExtractionInv, Epochs
<1>9. ExtractionTypes'
  BY <1>1 DEF ExtractionInv, ExtractionTypes
<1>. QED BY <1>2, <1>3, <1>4, <1>5, <1>6, <1>8, <1>9 DEF ExtractionInv

LEMMA OtherAdminInv ==
  ASSUME ExtractionInv, NEW v \in Versions, ~Taken(DefaultId(v, clock)),
         runs' = runs \cup {[id |-> DefaultId(v, clock), of |-> v, done |-> TRUE,
                             epoch |-> None]},
         UNCHANGED <<form, submits, sel, archived>>
  PROVE  ExtractionInv'
<1>1. PICK r : /\ ~Taken(r.id) /\ r.epoch = None /\ r.of = v /\ r.done = TRUE
               /\ runs' = runs \cup {r}
  <2> DEFINE x == [id |-> DefaultId(v, clock), of |-> v, done |-> TRUE,
                   epoch |-> None]
  <2>2. x.id = DefaultId(v, clock) /\ x.epoch = None /\ x.of = v /\ x.done = TRUE
    OBVIOUS
  <2>3. runs' = runs \cup {x}
    OBVIOUS
  <2> HIDE DEF x
  <2>. QED BY <2>2, <2>3
<1>2. UNCHANGED <<form, submits, sel, archived>>
  OBVIOUS
<1>3. Shapes' /\ Waits'
  BY <1>2 DEF ExtractionInv, Shapes, Waits, HasForm
<1>4. IdsUnique' /\ Answered' /\ ExplainedByServer'
  BY <1>1, <1>2 DEF ExtractionInv, IdsUnique, Answered, ExplainedByServer, HasForm, Taken
<1>5. OneId'
  BY <1>1, <1>2 DEF ExtractionInv, OneId
<1>6. UsedEpochs' \subseteq UsedEpochs \cup {None}
  BY <1>1, <1>2 DEF UsedEpochs
<1>7. Epochs'
  BY <1>2, <1>6, EpochsFinite DEF ExtractionInv, Epochs
<1>8. ExtractionTypes'
  BY <1>1, <1>2 DEF ExtractionInv, ExtractionTypes, HasForm
<1>. QED BY <1>3, <1>4, <1>5, <1>7, <1>8 DEF ExtractionInv

LEMMA SelectInv ==
  ASSUME ExtractionInv, NEW v \in Versions, sel' = v,
         UNCHANGED <<runs, archived>>,
         IF v \in archived
         THEN /\ submits' = {[s EXCEPT !.here = FALSE] : s \in submits}
              /\ UNCHANGED <<registry, form>>
         ELSE /\ IF HasForm THEN UNCHANGED <<registry, form>>
                 ELSE registry' = "loading" /\ form' = NewForm(v)
              /\ UNCHANGED submits
  PROVE  ExtractionInv'
<1>1. sel' = v /\ v \in Versions
  OBVIOUS
<1>2. runs' = runs /\ archived' = archived
  OBVIOUS
<1>3. CASE v \in archived
  <2>1. submits' = {[s EXCEPT !.here = FALSE] : s \in submits} /\ form' = form
    BY <1>3
  <2>2. \A t \in submits' : \E s \in submits :
          /\ t.id = s.id /\ t.epoch = s.epoch /\ t.got = s.got /\ t.here = FALSE
          /\ t.of = s.of
          /\ t = [number |-> t.number, id |-> t.id, of |-> t.of, epoch |-> t.epoch,
                  got |-> t.got, here |-> t.here]
    <3>1. SUFFICES ASSUME NEW s \in submits, NEW t, t = [s EXCEPT !.here = FALSE]
                   PROVE  /\ t.id = s.id /\ t.epoch = s.epoch /\ t.got = s.got /\ t.here = FALSE
                          /\ t.of = s.of
                          /\ t = [number |-> t.number, id |-> t.id, of |-> t.of,
                                  epoch |-> t.epoch, got |-> t.got, here |-> t.here]
      BY <2>1
    <3>2. s = [number |-> s.number, id |-> s.id, of |-> s.of, epoch |-> s.epoch,
               got |-> s.got, here |-> s.here]
      BY DEF ExtractionInv, Shapes
    <3>. QED BY <3>1, <3>2
  <2>3. Shapes'
    BY <2>1, <2>2 DEF ExtractionInv, Shapes
  <2>4. IdsUnique' /\ Answered' /\ Waits'
    BY <1>2, <2>2 DEF ExtractionInv, IdsUnique, Answered, Taken, Waits
  <2>5. OneId'
    BY <1>2, <2>1, <2>2 DEF ExtractionInv, OneId
  <2>6. ExplainedByServer'
    BY <1>1, <1>2, <1>3 DEF ExplainedByServer, HasForm
  <2>7. UsedEpochs' \subseteq UsedEpochs \cup {form.epoch}
    BY <1>2, <2>1, <2>2 DEF UsedEpochs
  <2>8. Epochs'
    BY <2>1, <2>7, EpochsFinite DEF ExtractionInv, Epochs
  <2>9. ExtractionTypes'
    BY <1>1, <1>2, <1>3, <2>1, <2>2 DEF ExtractionInv, ExtractionTypes, HasForm
  <2>. QED BY <2>3, <2>4, <2>5, <2>6, <2>8, <2>9 DEF ExtractionInv
<1>4. CASE v \notin archived /\ HasForm
  <2>1. UNCHANGED <<form, submits, runs, archived>> /\ HasForm'
    BY <1>1, <1>2, <1>4 DEF HasForm
  <2>. QED BY <1>1, <1>4, <2>1 DEF ExtractionInv, Shapes, IdsUnique, OneId, Waits,
              Answered, Epochs, UsedEpochs, ExplainedByServer, Taken, ExtractionTypes
<1>5. CASE v \notin archived /\ ~HasForm
  <2>1. form' = NewForm(v) /\ submits' = submits
    BY <1>5
  <2>2. \A s \in submits' : ~s.here
    BY <1>5, <2>1 DEF ExtractionInv, Waits
  <2>. QED BY <1>2, <2>1, <2>2, Renewed DEF NewForm
<1>. QED BY <1>3, <1>4, <1>5

LEMMA EditInv ==
  ASSUME ExtractionInv, ~form.submitting, NEW i, form' = Edited(i),
         UNCHANGED <<runs, sel, archived, submits>>
  PROVE  ExtractionInv'
<1>1. form' = [id |-> i, epoch |-> FreshEpoch, submitting |-> form.submitting,
               told |-> "none"]
  BY DEF Edited, ExtractionInv, Shapes
<1>2. \A s \in submits' : ~s.here
  BY DEF ExtractionInv, Waits
<1>3. form.submitting = FALSE /\ sel' \in Versions
  BY DEF ExtractionInv, ExtractionTypes
<1>. QED BY <1>1, <1>2, <1>3, Renewed

LEMMA PickPinInv == ExtractionInv /\ PickPin => ExtractionInv'
<1> SUFFICES ASSUME ExtractionInv, PickPin PROVE ExtractionInv'
  OBVIOUS
<1>1. form' = [id |-> form.id, epoch |-> form.epoch, submitting |-> form.submitting,
               told |-> "none"]
  BY DEF PickPin, ExtractionInv, Shapes
<1>2. UNCHANGED <<runs, sel, archived, submits>> /\ ~form.submitting
  BY DEF PickPin
<1>3. \A s \in submits' : ~s.here
  BY <1>2 DEF ExtractionInv, Waits
<1>4. form.submitting = FALSE
  BY <1>2 DEF ExtractionInv, ExtractionTypes
<1>. QED BY <1>1, <1>2, <1>3, <1>4, KeptForm

LEMMA SubmitInv ==
  ASSUME ExtractionInv, HasForm, ~form.submitting,
         UNCHANGED <<runs, sel, archived>>,
         IF form.id = Empty
         THEN form' = [form EXCEPT !.told = "error"] /\ UNCHANGED submits
         ELSE /\ form' = [form EXCEPT !.submitting = TRUE, !.told = "none"]
              /\ submits' = submits \cup
                   {[number |-> FreeNumber(submits), id |-> form.id, of |-> sel,
                     epoch |-> form.epoch, got |-> "pending", here |-> TRUE]}
  PROVE  ExtractionInv'
<1>1. UNCHANGED <<runs, sel, archived>> /\ HasForm /\ form.submitting = FALSE
  BY DEF ExtractionInv, ExtractionTypes
<1>2. \A s \in submits : ~s.here
  BY <1>1 DEF ExtractionInv, Waits
<1>3. CASE form.id = Empty
  <2>1. form' = [id |-> form.id, epoch |-> form.epoch, submitting |-> form.submitting,
                 told |-> "error"]
    BY <1>3 DEF ExtractionInv, Shapes
  <2>2. submits' = submits
    BY <1>3
  <2>3. sel' \in Versions
    BY DEF ExtractionInv, ExtractionTypes
  <2>. QED BY <1>1, <1>2, <2>1, <2>2, <2>3, KeptForm
<1>4. CASE form.id # Empty
  <2>1. form' = [id |-> form.id, epoch |-> form.epoch, submitting |-> TRUE, told |-> "none"]
    BY <1>4 DEF ExtractionInv, Shapes
  <2>2. /\ form'.id = form.id /\ form'.epoch = form.epoch /\ form'.submitting = TRUE
        /\ form'.told = "none"
    BY <2>1
  <2> DEFINE x == [number |-> FreeNumber(submits), id |-> form.id, of |-> sel,
                   epoch |-> form.epoch, got |-> "pending", here |-> TRUE]
  <2>3. submits' = submits \cup {x}
    BY <1>4
  <2>4. /\ x.id = form.id /\ x.epoch = form.epoch /\ x.got = "pending" /\ x.here = TRUE
        /\ x.of = sel
        /\ x = [number |-> x.number, id |-> x.id, of |-> x.of, epoch |-> x.epoch,
                got |-> x.got, here |-> x.here]
    OBVIOUS
  <2> HIDE DEF x
  <2>5. Shapes'
    BY <2>1, <2>2, <2>3, <2>4 DEF ExtractionInv, Shapes
  <2>6. IdsUnique' /\ Answered' /\ ExplainedByServer'
    BY <1>1, <2>2, <2>3, <2>4 DEF ExtractionInv, IdsUnique, Answered, Taken, ExplainedByServer
  <2>7. OneId'
    BY <1>1, <2>2, <2>3, <2>4 DEF ExtractionInv, OneId
  <2>8. Waits'
    BY <1>1, <1>2, <2>2, <2>3, <2>4 DEF Waits, HasForm
  <2>9. UsedEpochs' \subseteq UsedEpochs \cup {form.epoch}
    BY <1>1, <2>2, <2>3, <2>4 DEF UsedEpochs
  <2>10. Epochs'
    BY <2>2, <2>9, EpochsFinite DEF ExtractionInv, Epochs
  <2>11. ExtractionTypes'
    BY <1>1, <2>2, <2>3, <2>4 DEF ExtractionInv, ExtractionTypes, HasForm
  <2>. QED BY <2>5, <2>6, <2>7, <2>8, <2>10, <2>11 DEF ExtractionInv
<1>. QED BY <1>3, <1>4

LEMMA ServeInv == ExtractionInv /\ Serve => ExtractionInv'
<1> SUFFICES ASSUME ExtractionInv, Serve PROVE ExtractionInv'
  OBVIOUS
<1>1. PICK s \in submits :
        \/ /\ Taken(s.id)
           /\ submits' = (submits \ {s}) \cup {[s EXCEPT !.got = "exists"]}
           /\ UNCHANGED runs
        \/ /\ ~Taken(s.id)
           /\ \E done \in BOOLEAN :
                /\ runs' = runs \cup {[id |-> s.id, of |-> s.of, done |-> done,
                                       epoch |-> s.epoch]}
                /\ submits' = (submits \ {s}) \cup
                     {[s EXCEPT !.got = IF done THEN "success" ELSE "error"]}
  BY DEF Serve
<1>2. UNCHANGED <<form, sel, archived>>
  BY DEF Serve
<1>3. s = [number |-> s.number, id |-> s.id, of |-> s.of, epoch |-> s.epoch,
           got |-> s.got, here |-> s.here]
  BY DEF ExtractionInv, Shapes
<1>4. PICK t : /\ submits' = (submits \ {s}) \cup {t}
               /\ t.id = s.id /\ t.epoch = s.epoch /\ t.here = s.here /\ t.of = s.of
               /\ t.got = "exists" => Taken(s.id)
               /\ t = [number |-> t.number, id |-> t.id, of |-> t.of, epoch |-> t.epoch,
                       got |-> t.got, here |-> t.here]
  <2>1. \A g : LET t == [s EXCEPT !.got = g] IN
          /\ t.id = s.id /\ t.epoch = s.epoch /\ t.here = s.here /\ t.got = g
          /\ t.of = s.of
          /\ t = [number |-> t.number, id |-> t.id, of |-> t.of, epoch |-> t.epoch,
                  got |-> t.got, here |-> t.here]
    BY <1>3
  <2>2. PICK g : /\ submits' = (submits \ {s}) \cup {[s EXCEPT !.got = g]}
                 /\ g = "exists" => Taken(s.id)
    BY <1>1
  <2>. QED BY <2>1, <2>2
<1>5. \/ runs' = runs
      \/ /\ ~Taken(s.id)
         /\ \E r : /\ r.id = s.id /\ r.epoch = s.epoch /\ r.of = s.of
                   /\ r.done \in BOOLEAN /\ runs' = runs \cup {r}
  <2>1. \A done : LET r == [id |-> s.id, of |-> s.of, done |-> done, epoch |-> s.epoch] IN
          r.id = s.id /\ r.epoch = s.epoch /\ r.of = s.of /\ r.done = done
    OBVIOUS
  <2>. QED BY <1>1, <2>1
<1>6. Shapes'
  BY <1>2, <1>4 DEF ExtractionInv, Shapes
<1>7. IdsUnique'
  BY <1>5 DEF ExtractionInv, IdsUnique, Taken
<1>8. OneId'
  <2>1. CASE runs' = runs
    BY <1>2, <1>4, <2>1 DEF ExtractionInv, OneId
  <2>2. CASE runs' # runs
    <3>1. PICK r : r.id = s.id /\ r.epoch = s.epoch /\ runs' = runs \cup {r}
      BY <1>5, <2>2
    <3>. QED BY <1>2, <1>4, <3>1 DEF ExtractionInv, OneId
  <2>. QED BY <2>1, <2>2
<1>9. runs \subseteq runs'
  BY <1>5
<1>10. Waits'
  BY <1>2, <1>4 DEF ExtractionInv, Waits, HasForm
<1>11. Answered' /\ ExplainedByServer'
  BY <1>2, <1>4, <1>9 DEF ExtractionInv, Answered, ExplainedByServer, Taken, HasForm
<1>12. UsedEpochs' \subseteq UsedEpochs \cup {form.epoch}
  BY <1>2, <1>4, <1>5 DEF UsedEpochs
<1>13. Epochs'
  BY <1>2, <1>12, EpochsFinite DEF ExtractionInv, Epochs
<1>14. ExtractionTypes'
  BY <1>2, <1>4, <1>5 DEF ExtractionInv, ExtractionTypes, HasForm
<1>. QED BY <1>6, <1>7, <1>8, <1>10, <1>11, <1>13, <1>14 DEF ExtractionInv

(* The answer to a submission whose form is gone changes nothing it shows. *)
LEMMA AnswerGone ==
  ASSUME ExtractionInv, NEW s \in submits, submits' = submits \ {s},
         UNCHANGED <<runs, form, sel, archived>>, ~s.here
  PROVE  ExtractionInv'
<1>1. Shapes' /\ IdsUnique' /\ Answered' /\ ExplainedByServer'
  BY DEF ExtractionInv, Shapes, IdsUnique, Answered, ExplainedByServer, Taken, HasForm
<1>2. OneId' /\ Waits'
  BY DEF ExtractionInv, OneId, Waits, HasForm
<1>3. UsedEpochs' \subseteq UsedEpochs \cup {form.epoch}
  BY DEF UsedEpochs
<1>4. Epochs'
  BY <1>3, EpochsFinite DEF ExtractionInv, Epochs
<1>5. ExtractionTypes'
  BY DEF ExtractionInv, ExtractionTypes, HasForm
<1>. QED BY <1>1, <1>2, <1>4, <1>5 DEF ExtractionInv

LEMMA SucceedsInv == ExtractionInv /\ Succeeds => ExtractionInv'
<1> SUFFICES ASSUME ExtractionInv, Succeeds PROVE ExtractionInv'
  OBVIOUS
<1>1. PICK s \in submits :
        /\ submits' = submits \ {s}
        /\ form' = IF s.here
                   THEN [id |-> DefaultId(s.of, clock), epoch |-> FreshEpoch,
                         submitting |-> FALSE, told |-> "success"]
                   ELSE form
  BY DEF Succeeds
<1>2. UNCHANGED <<runs, sel, archived>>
  BY DEF Succeeds
<1>3. CASE s.here
  <2>1. \A t \in submits' : ~t.here
    BY <1>1, <1>3 DEF ExtractionInv, Waits
  <2>2. form' = [id |-> DefaultId(s.of, clock), epoch |-> FreshEpoch,
                 submitting |-> FALSE, told |-> "success"]
    BY <1>1, <1>3
  <2>3. sel' \in Versions
    BY <1>2 DEF ExtractionInv, ExtractionTypes
  <2>. QED BY <1>1, <1>2, <2>1, <2>2, <2>3, Renewed
<1>4. CASE ~s.here
  BY <1>1, <1>2, <1>4, AnswerGone
<1>. QED BY <1>3, <1>4

LEMMA FailsInv == ExtractionInv /\ Fails => ExtractionInv'
<1> SUFFICES ASSUME ExtractionInv, Fails PROVE ExtractionInv'
  OBVIOUS
<1>1. PICK s \in submits :
        /\ submits' = submits \ {s}
        /\ form' = IF s.here
                   THEN AfterFailure(form, IF s.got = "exists" THEN "exists" ELSE "error")
                   ELSE form
  BY DEF Fails
<1>2. UNCHANGED <<runs, sel, archived>>
  BY DEF Fails
<1>3. CASE s.here
  <2>1. \A t \in submits' : ~t.here
    BY <1>1, <1>3 DEF ExtractionInv, Waits
  <2>2. PICK said \in {"exists", "error"} :
          /\ said = "exists" => s.got = "exists"
          /\ form' = [id |-> form.id, epoch |-> form.epoch, submitting |-> FALSE,
                      told |-> said]
    BY <1>1, <1>3 DEF AfterFailure, ExtractionInv, Shapes
  <2>3. said = "exists" => Taken(form.id)
    BY <1>3, <2>2 DEF ExtractionInv, Waits, Answered
  <2>. QED BY <1>1, <1>2, <2>1, <2>2, <2>3, KeptForm
<1>4. CASE ~s.here
  BY <1>1, <1>2, <1>4, AnswerGone
<1>. QED BY <1>3, <1>4

-----------------------------------------------------------------------------
(* The history: a load is under way while it says so.                      *)
LEMMA HistoryStep ==
  ASSUME HistoryTypes, Next \/ VX!Next \/ UNCHANGED vars
  PROVE  HistoryTypes'
<1> USE DEF HistoryTypes
<1>1. ASSUME history' = history, registry' = registry, loads' = loads
      PROVE  HistoryTypes'
  BY <1>1
<1>2. ASSUME NEW v, loadRuns(v) \/ VX!loadRuns(v), registry' \in {registry, "loading"}
      PROVE  HistoryTypes'
  BY <1>2 DEF loadRuns, VX!loadRuns
<1>3. CASE Select \/ VX!Select
  <2>1. PICK v \in Versions : loadRuns(v) \/ VX!loadRuns(v)
    BY <1>3 DEF Select, VX!Select
  <2>2. registry' \in {registry, "loading"}
    BY <1>3 DEF Select, VX!Select
  <2> QED BY <1>2, <2>1, <2>2
<1>4. CASE Succeeds \/ VX!Succeeds \/ Fails \/ VX!Fails
  <2>1. PICK v : loadRuns(v) \/ VX!loadRuns(v)
    BY <1>4 DEF Succeeds, VX!Succeeds, Fails, VX!Fails
  <2>2. registry' = registry
    BY <1>4 DEF Succeeds, VX!Succeeds, Fails, VX!Fails
  <2> QED BY <1>2, <2>1, <2>2
<1>5. CASE Registry \/ VX!Registry
  <2>1. registry' \in {"ready", "empty", "error"} /\ UNCHANGED <<history, loads>>
    BY <1>5 DEF Registry, VX!Registry
  <2> QED BY <2>1
<1>6. CASE ReadHistory \/ VX!ReadHistory
  <2>1. \E l, k : loads' = (loads \ {l}) \cup {k}
    BY <1>6 DEF ReadHistory, VX!ReadHistory
  <2>2. UNCHANGED <<history, registry>>
    BY <1>6 DEF ReadHistory, VX!ReadHistory
  <2> QED BY <2>1, <2>2
<1>7. CASE HistoryArrives \/ VX!HistoryArrives
  <2>1. PICK l : history' = [status |-> "ready", of |-> l.of, ids |-> l.got]
    BY <1>7 DEF HistoryArrives, VX!HistoryArrives, Loaded, VX!Loaded
  <2>2. registry' = registry
    BY <1>7 DEF HistoryArrives, VX!HistoryArrives
  <2> QED BY <2>1, <2>2
<1>8. CASE HistoryFails \/ VX!HistoryFails
  <2>1. history' = [status |-> "error", of |-> history.of, ids |-> history.ids]
    BY <1>8 DEF HistoryFails, VX!HistoryFails
  <2>2. registry' = registry
    BY <1>8 DEF HistoryFails, VX!HistoryFails
  <2> QED BY <2>1, <2>2
<1>9. CASE \/ Tick \/ OtherAdmin \/ Edit \/ PickPin \/ handleSubmit \/ Serve
           \/ UNCHANGED vars
  BY <1>1, <1>9 DEF Tick, OtherAdmin, Edit, PickPin, handleSubmit, Serve, vars
<1>10. CASE \/ VX!Tick \/ VX!OtherAdmin \/ VX!Edit \/ VX!PickPin
            \/ VX!handleSubmit \/ VX!Serve
  BY <1>1, <1>10 DEF VX!Tick, VX!OtherAdmin, VX!Edit, VX!PickPin, VX!handleSubmit,
                     VX!Serve
<1> QED BY <1>3, <1>4, <1>5, <1>6, <1>7, <1>8, <1>9, <1>10 DEF Next, VX!Next

LEMMA ExtractionStep ==
  ASSUME ExtractionInv, Next \/ UNCHANGED vars
  PROVE  ExtractionInv'
<1>1. CASE Tick \/ Registry \/ ReadHistory \/ HistoryArrives \/ HistoryFails
           \/ UNCHANGED vars
  BY <1>1, Quiet DEF Tick, Registry, ReadHistory, HistoryArrives, HistoryFails, vars
<1>2. CASE OtherAdmin
  BY <1>2, OtherAdminInv DEF OtherAdmin
<1>3. CASE Select
  BY <1>3, SelectInv DEF Select
<1>4. CASE Edit
  BY <1>4, EditInv DEF Edit
<1>5. CASE handleSubmit
  BY <1>5, SubmitInv DEF handleSubmit
<1>. QED BY <1>1, <1>2, <1>3, <1>4, <1>5, PickPinInv, ServeInv, SucceedsInv,
            FailsInv DEF Next

(* The same under the other bounds: where an action has none it is the     *)
(* same one.                                                               *)
LEMMA SameOperators ==
  /\ \A v : VX!DefaultId(v, clock) = DefaultId(v, clock) /\ VX!NewForm(v) = NewForm(v)
  /\ VX!FreshEpoch = FreshEpoch
  /\ \A i : VX!Taken(i) <=> Taken(i)
  /\ VX!HasForm <=> HasForm
  /\ VX!FreeNumber(submits) = FreeNumber(submits)
  /\ \A v : VX!loadRuns(v) <=> loadRuns(v)
  /\ \A f, said : VX!AfterFailure(f, said) = AfterFailure(f, said)
<1>1. VX!UsedEpochs = UsedEpochs
  BY DEF VX!UsedEpochs, UsedEpochs
<1>2. \A S : VX!Cardinality(S) = Cardinality(S)
  BY DEF VX!Cardinality, Cardinality
<1>3. VX!FreshEpoch = FreshEpoch
  BY <1>1, <1>2 DEF VX!FreshEpoch, FreshEpoch
<1>4. VX!FreeNumber(submits) = FreeNumber(submits)
  BY <1>2 DEF VX!FreeNumber, FreeNumber
<1>5. VX!FreeNumber(loads) = FreeNumber(loads)
  BY <1>2 DEF VX!FreeNumber, FreeNumber
<1>6. \A v : VX!NewForm(v) = NewForm(v)
  BY <1>3 DEF VX!NewForm, NewForm, VX!DefaultId, DefaultId
<1>7. \A v : VX!loadRuns(v) <=> loadRuns(v)
  BY <1>5 DEF VX!loadRuns, loadRuns, VX!NewLoad, NewLoad
<1> QED BY <1>3, <1>4, <1>6, <1>7 DEF VX!DefaultId, DefaultId, VX!Taken, Taken,
       VX!HasForm, HasForm, VX!AfterFailure, AfterFailure

LEMMA SwitchingStep ==
  ASSUME ExtractionInv, VX!Next
  PROVE  ExtractionInv'
<1>1. CASE \/ VX!Tick \/ VX!Registry \/ VX!ReadHistory \/ VX!HistoryArrives
           \/ VX!HistoryFails
  BY <1>1, Quiet DEF VX!Tick, VX!Registry, VX!ReadHistory, VX!HistoryArrives,
                     VX!HistoryFails
<1>2. CASE VX!OtherAdmin
  BY <1>2, OtherAdminInv, SameOperators DEF VX!OtherAdmin
<1>3. CASE VX!Select
  BY <1>3, SelectInv, SameOperators DEF VX!Select
<1>4. CASE VX!Edit
  <2>1. PICK i : form' = VX!Edited(i)
    BY <1>4 DEF VX!Edit
  <2>2. VX!Edited(i) = Edited(i)
    BY SameOperators DEF VX!Edited, Edited
  <2> QED BY <1>4, <2>1, <2>2, EditInv DEF VX!Edit
<1>5. CASE VX!handleSubmit
  <2>1. VX!Empty = Empty
    BY DEF VX!Empty, Empty
  <2> QED BY <1>5, <2>1, SubmitInv, SameOperators DEF VX!handleSubmit
<1>6. CASE VX!PickPin
  BY <1>6, PickPinInv, SameOperators DEF VX!PickPin, PickPin, VX!user, user
<1>7. CASE VX!Serve
  BY <1>7, ServeInv, SameOperators DEF VX!Serve, Serve, VX!user, user
<1>8. CASE VX!Succeeds
  <2>1. Succeeds
    BY <1>8, SameOperators DEF VX!Succeeds, Succeeds, VX!user, user
  <2> QED BY <2>1, SucceedsInv
<1>9. CASE VX!Fails
  <2>1. Fails
    BY <1>9, SameOperators DEF VX!Fails, Fails, VX!user, user
  <2> QED BY <2>1, FailsInv
<1>. QED BY <1>1, <1>2, <1>3, <1>4, <1>5, <1>6, <1>7, <1>8, <1>9 DEF VX!Next

(* The page under either bounds.                                           *)
ExtractionPageInv == ExtractionInv /\ HistoryTypes /\ clock \in 0..MaxClock
SwitchingPageInv == ExtractionInv /\ HistoryTypes /\ clock \in 0..SwitchClock

LEMMA ExtractionPageInit ==
  (Init => ExtractionPageInv) /\ (VX!Init => SwitchingPageInv)
<1>1. Init => HistoryTypes /\ clock = 0
  BY DEF Init, HistoryTypes
<1>2. VX!Init => Init
  BY SameOperators DEF VX!Init, Init, VX!DefaultId, DefaultId
<1>3. MaxClock \in Nat /\ SwitchClock \in Nat
  BY ExtractionAssumption, PagesAssumption
<1> QED BY <1>1, <1>2, <1>3, InitInv DEF ExtractionPageInv, SwitchingPageInv

LEMMA ExtractionPageStep ==
  /\ ExtractionPageInv /\ (Next \/ UNCHANGED vars) => ExtractionPageInv'
  /\ SwitchingPageInv /\ (VX!Next \/ UNCHANGED vars) => SwitchingPageInv'
<1>1. ASSUME ExtractionPageInv, Next \/ UNCHANGED vars PROVE ExtractionPageInv'
  <2>1. clock' = clock \/ (clock < MaxClock /\ clock' = clock + 1)
    BY <1>1 DEF Next, Tick, OtherAdmin, Select, Registry, Edit, PickPin, handleSubmit,
       Serve, Succeeds, Fails, ReadHistory, HistoryArrives, HistoryFails, vars
  <2>2. clock' \in 0..MaxClock
    BY <1>1, <2>1, ExtractionAssumption DEF ExtractionPageInv
  <2> QED BY <1>1, <2>2, ExtractionStep, HistoryStep DEF ExtractionPageInv
<1>2. ASSUME SwitchingPageInv, VX!Next \/ UNCHANGED vars PROVE SwitchingPageInv'
  <2>1. clock' = clock \/ (clock < SwitchClock /\ clock' = clock + 1)
    BY <1>2 DEF VX!Next, VX!Tick, VX!OtherAdmin, VX!Select, VX!Registry, VX!Edit,
       VX!PickPin, VX!handleSubmit, VX!Serve, VX!Succeeds, VX!Fails, VX!ReadHistory,
       VX!HistoryArrives, VX!HistoryFails, vars
  <2>2. clock' \in 0..SwitchClock
    BY <1>2, <2>1, PagesAssumption DEF SwitchingPageInv
  <2> QED BY <1>2, <2>2, ExtractionStep, SwitchingStep, HistoryStep
          DEF SwitchingPageInv
<1> QED BY <1>1, <1>2

LEMMA ExtractionMeans ==
  /\ ExtractionPageInv => TypeOK /\ RetryCreatesOne /\ ExplainedByServer
  /\ SwitchingPageInv => VX!TypeOK /\ VX!RetryCreatesOne /\ VX!ExplainedByServer
<1>1. ExtractionInv => RetryCreatesOne /\ ExplainedByServer
  BY DEF ExtractionInv, OneId, IdsUnique, RetryCreatesOne
<1>2. ExtractionPageInv => TypeOK
  BY DEF ExtractionPageInv, ExtractionInv, ExtractionTypes, HistoryTypes, TypeOK
<1>3. SwitchingPageInv => VX!TypeOK
  BY SameOperators
  DEF SwitchingPageInv, ExtractionInv, ExtractionTypes, HistoryTypes, VX!TypeOK
<1>4. RetryCreatesOne /\ ExplainedByServer =>
        VX!RetryCreatesOne /\ VX!ExplainedByServer
  BY SameOperators DEF RetryCreatesOne, VX!RetryCreatesOne, ExplainedByServer,
     VX!ExplainedByServer
<1> QED BY <1>1, <1>2, <1>3, <1>4 DEF ExtractionPageInv, SwitchingPageInv

-----------------------------------------------------------------------------
(* The register of documents.                                              *)

(* The record: there is one exactly while a document is selected.          *)
RecordInv ==
  /\ selected \in Docs \cup {None}
  /\ record = [status |-> record.status, of |-> record.of]
  /\ record.status \in {"none", "loading", "ready", "error"}
  /\ record.of \in Docs \cup {None}
  /\ \A r \in records : r.doc \in Docs
  /\ selected = None <=> record.status = "none"
  /\ records # {} => selected # None

ListsAre(some) ==
  \A r \in some : /\ r = [number |-> r.number, value |-> r.value,
                          registered |-> r.registered]
                  /\ r.registered \in Docs \cup {None}
                  /\ r.value = None \/ r.value \subseteq DC!Existing
DepositsAre(some) ==
  \A c \in some : /\ c = [number |-> c.number, doc |-> c.doc, here |-> c.here,
                          noted |-> c.noted, got |-> c.got]
                  /\ c.doc \in Docs /\ c.here \in BOOLEAN
Forms == [id : Docs \cup {None}, file : BOOLEAN, error : BOOLEAN, uploading : BOOLEAN]
Blank(f) == f.id = None /\ ~f.file /\ ~f.uploading

(* The drawer: unmounted it holds nothing, closed nothing that is typed,   *)
(* and it is uploading only if a deposit will call it back.                *)
RegisterInv ==
  /\ versions \in [Docs -> Nat]
  /\ canUpload \in BOOLEAN /\ open \in BOOLEAN
  /\ status \in {"loading", "ready", "error"}
  /\ documents \subseteq DC!Existing
  /\ ListsAre(lists) /\ DepositsAre(deposits)
  /\ form \in Forms
  /\ ~DC!DrawerMounted(status, selected) => form = DC!NewForm
  /\ \A c \in deposits : c.here => DC!DrawerMounted(status, selected)
  /\ ~open => Blank(form)
  /\ form.uploading => \E c \in deposits : c.here
CatalogInv == RecordInv /\ RegisterInv

LEMMA NewFormIs == DC!NewForm \in Forms /\ Blank(DC!NewForm) /\ ~DC!NewForm.uploading
BY DEF DC!NewForm, Forms, Blank

LEMMA CatalogInit == DC!Init => CatalogInv
<1> SUFFICES ASSUME DC!Init PROVE CatalogInv
  OBVIOUS
<1>1. RecordInv
  BY DEF DC!Init, RecordInv, DC!Blank
<1>2. versions \in [Docs -> Nat]
  BY DEF DC!Init
<1>3. ListsAre(lists) /\ DepositsAre(deposits)
  BY DEF DC!Init, ListsAre, DepositsAre
<1>4. form = DC!NewForm /\ canUpload \in BOOLEAN /\ open = FALSE /\ status = "loading"
      /\ documents = {} /\ deposits = {}
  BY DEF DC!Init
<1> QED BY <1>1, <1>2, <1>3, <1>4, NewFormIs DEF CatalogInv, RegisterInv

(* Showing a document, or the list again.                                  *)
LEMMA RecordShown ==
  ASSUME RecordInv, NEW d \in Docs \cup {None}, DC!Show(d)
  PROVE  RecordInv' /\ selected' = d
<1>1. selected' = d
  BY DEF DC!Show
<1>2. CASE d = None
  BY <1>2 DEF DC!Show, RecordInv, DC!Blank
<1>3. CASE d # None /\ d = selected
  BY <1>3 DEF DC!Show, RecordInv, DC!detail
<1>4. CASE d # None /\ d # selected
  <2>1. /\ record' = [record EXCEPT !.status = "loading"]
        /\ records' = records \cup {[number |-> DC!FreeNumber(records), doc |-> d]}
    BY <1>4 DEF DC!Show
  <2>2. record' = [status |-> "loading", of |-> record.of]
    BY <2>1 DEF RecordInv
  <2>3. \A r \in records' : r.doc \in Docs
    BY <1>4, <2>1 DEF RecordInv
  <2> QED BY <1>1, <1>4, <2>2, <2>3 DEF RecordInv
<1> QED BY <1>1, <1>2, <1>3, <1>4

LEMMA RecordStep ==
  ASSUME CatalogInv, DC!Next \/ UNCHANGED DC!vars
  PROVE  RecordInv'
<1> USE DEF CatalogInv
<1>1. CASE DC!RecordArrives
  <2>1. PICK r \in records : /\ records' = records \ {r}
                             /\ record' = [status |-> "ready", of |-> r.doc]
    BY <1>1 DEF DC!RecordArrives
  <2>2. selected' = selected
    BY <1>1 DEF DC!RecordArrives, DC!page
  <2> QED BY <2>1, <2>2 DEF RecordInv
<1>2. CASE DC!RecordFails
  <2>1. PICK r \in records : records' = records \ {r}
    BY <1>2 DEF DC!RecordFails
  <2>2. selected' = selected /\ record' = [status |-> "error", of |-> record.of]
    BY <1>2 DEF DC!RecordFails, DC!page, RecordInv
  <2> QED BY <2>1, <2>2 DEF RecordInv
<1>3. CASE DC!onBack
  BY <1>3, RecordShown DEF DC!onBack
<1>4. CASE DC!OpenRow
  <2>1. PICK d \in documents : DC!Show(d)
    BY <1>4 DEF DC!OpenRow
  <2>2. d \in Docs
    BY DEF RegisterInv, DC!Existing
  <2> QED BY <2>1, <2>2, RecordShown
<1>5. CASE DC!ListArrives \/ DC!ListFails
  <2>1. PICK r \in lists : DC!handleDocumentRegistered(r.registered)
    BY <1>5 DEF DC!ListArrives, DC!ListFails
  <2>2. r.registered \in Docs \cup {None}
    BY DEF RegisterInv, ListsAre
  <2>3. CASE r.registered = None
    BY <2>1, <2>3 DEF DC!handleDocumentRegistered, DC!detail, RecordInv
  <2>4. CASE r.registered # None
    BY <2>1, <2>2, <2>4, RecordShown DEF DC!handleDocumentRegistered
  <2> QED BY <2>3, <2>4
<1>6. CASE \/ DC!OtherUser \/ DC!ReadList \/ DC!Toggle \/ DC!onClose \/ DC!Fill
           \/ DC!handleSubmit \/ DC!Serve \/ DC!DepositArrives \/ DC!DepositFails
           \/ UNCHANGED DC!vars
  <2>1. UNCHANGED <<selected, record, records>>
    BY <1>6 DEF DC!OtherUser, DC!ReadList, DC!Toggle, DC!onClose, DC!Fill,
       DC!handleSubmit, DC!Serve, DC!DepositArrives, DC!DepositFails, DC!vars,
       DC!page, DC!detail
  <2> QED BY <2>1 DEF RecordInv
<1> QED BY <1>1, <1>2, <1>3, <1>4, <1>5, <1>6 DEF DC!Next

(* Versions are only added: what existed exists.                           *)
LEMMA VersionsGrow ==
  ASSUME RegisterInv, NEW d \in Docs, versions' = [versions EXCEPT ![d] = @ + 1]
  PROVE  versions' \in [Docs -> Nat] /\ DC!Existing \subseteq DC!Existing'
<1>1. versions' \in [Docs -> Nat] /\ \A x \in Docs : versions'[x] >= versions[x]
  BY DEF RegisterInv
<1>2. \A x \in Docs : versions[x] \in Nat /\ versions'[x] \in Nat
  BY <1>1 DEF RegisterInv
<1> QED BY <1>1, <1>2 DEF DC!Existing

LEMMA StillLists ==
  ASSUME NEW some, ListsAre(some), DC!Existing \subseteq DC!Existing'
  PROVE  \A r \in some : /\ r = [number |-> r.number, value |-> r.value,
                                 registered |-> r.registered]
                         /\ r.registered \in Docs \cup {None}
                         /\ r.value = None \/ r.value \subseteq DC!Existing'
BY DEF ListsAre

LEMMA LeftDeposits ==
  ASSUME NEW some, DepositsAre(some)
  PROVE  DepositsAre(DC!Left(some)) /\ \A c \in DC!Left(some) : ~c.here
<1> SUFFICES ASSUME NEW c \in some, NEW t, t = [c EXCEPT !.here = FALSE]
             PROVE  /\ t = [number |-> t.number, doc |-> t.doc, here |-> t.here,
                            noted |-> t.noted, got |-> t.got]
                    /\ t.doc \in Docs /\ t.here \in BOOLEAN /\ ~t.here
  BY DEF DepositsAre, DC!Left
<1>1. c = [number |-> c.number, doc |-> c.doc, here |-> c.here,
           noted |-> c.noted, got |-> c.got] /\ c.doc \in Docs
  BY DEF DepositsAre
<1>2. t = [number |-> c.number, doc |-> c.doc, here |-> FALSE,
           noted |-> c.noted, got |-> c.got]
  BY <1>1
<1> QED BY <1>1, <1>2

(* The drawer is emptied, or was not mounted and stays so.                 *)
LEMMA Emptied ==
  ASSUME RegisterInv, form' = DC!NewForm, open' \in BOOLEAN,
         status' \in {"loading", "ready", "error"}, canUpload' = canUpload,
         UNCHANGED versions, documents' \subseteq DC!Existing,
         ListsAre(lists'), DepositsAre(deposits'),
         \A c \in deposits' : c.here => DC!DrawerMounted(status', selected')
  PROVE  RegisterInv'
<1>1. DC!Existing' = DC!Existing
  BY DEF DC!Existing
<1>2. ListsAre(lists)' /\ DepositsAre(deposits)'
  BY <1>1 DEF ListsAre, DepositsAre
<1>3. form' \in Forms /\ Blank(form') /\ ~form'.uploading
  BY NewFormIs
<1>4. (DC!DrawerMounted(status, selected) \/ form = DC!NewForm)'
  BY DEF DC!NewForm
<1>5. Blank(form)'
  BY <1>3 DEF Blank
<1>6. (\A c \in deposits : c.here => DC!DrawerMounted(status, selected))'
  BY DEF DC!DrawerMounted
<1> QED BY <1>1, <1>2, <1>3, <1>4, <1>5, <1>6 DEF RegisterInv

LEMMA RegisterListArrives == CatalogInv /\ DC!ListArrives => RegisterInv'
<1> SUFFICES ASSUME CatalogInv, DC!ListArrives PROVE RegisterInv'
  OBVIOUS
<1> USE DEF CatalogInv
<1>1. PICK r \in lists :
        /\ r.value # None
        /\ lists' = lists \ {r}
        /\ status' = "ready" /\ documents' = r.value
        /\ open' = IF r.registered # None THEN FALSE
                   ELSE open \/ DC!OpensItself(status, r.value)
        /\ DC!handleDocumentRegistered(r.registered)
  BY DEF DC!ListArrives
<1>2. /\ IF DC!DrawerMounted(status', selected')
         THEN UNCHANGED <<form, deposits>>
         ELSE form' = DC!NewForm /\ deposits' = DC!Left(deposits)
      /\ UNCHANGED <<versions, canUpload>>
  BY DEF DC!ListArrives, DC!server
<1>3. documents' \subseteq DC!Existing /\ ListsAre(lists')
  BY <1>1 DEF RegisterInv, ListsAre
<1>4. open' \in BOOLEAN
  BY <1>1 DEF RegisterInv
<1>5. CASE ~DC!DrawerMounted(status', selected')
  <2>1. form' = DC!NewForm /\ DepositsAre(deposits') /\ \A c \in deposits' : ~c.here
    BY <1>2, <1>5, LeftDeposits DEF RegisterInv
  <2> QED BY <1>1, <1>2, <1>3, <1>4, <2>1, Emptied
<1>6. CASE DC!DrawerMounted(status', selected')
  <2>1. UNCHANGED <<form, deposits>>
    BY <1>2, <1>6
  <2>2. selected' = None
    BY <1>6 DEF DC!DrawerMounted
  <2>3. r.registered = None
    <3>1. r.registered \in Docs \cup {None}
      BY DEF RegisterInv, ListsAre
    <3> QED BY <1>1, <2>2, <3>1 DEF DC!handleDocumentRegistered, DC!Show
  <2>4. open => open'
    BY <1>1, <2>3
  <2>5. ListsAre(lists)' /\ DepositsAre(deposits)' /\ DC!Existing' = DC!Existing
    BY <1>2, <1>3, <2>1 DEF ListsAre, DepositsAre, DC!Existing, RegisterInv
  <2>6. DC!DrawerMounted(status, selected)'
    BY <1>2, <1>6 DEF DC!DrawerMounted
  <2> QED BY <1>1, <1>2, <1>3, <1>4, <2>1, <2>4, <2>5, <2>6 DEF RegisterInv, Blank
<1> QED BY <1>5, <1>6

LEMMA RegisterStep ==
  ASSUME CatalogInv, DC!Next \/ UNCHANGED DC!vars
  PROVE  RegisterInv'
<1> USE DEF CatalogInv
<1>1. CASE DC!OtherUser
  <2>1. PICK d \in Docs : versions' = [versions EXCEPT ![d] = @ + 1]
    BY <1>1 DEF DC!OtherUser
  <2>2. UNCHANGED <<canUpload, status, documents, selected, open, form, lists, deposits>>
    BY <1>1 DEF DC!OtherUser, DC!page
  <2>3. versions' \in [Docs -> Nat] /\ DC!Existing \subseteq DC!Existing'
    BY <2>1, VersionsGrow
  <2>4. ListsAre(lists)' /\ DepositsAre(deposits)'
    BY <2>2, <2>3 DEF ListsAre, DepositsAre, RegisterInv
  <2> QED BY <2>2, <2>3, <2>4 DEF RegisterInv, DC!DrawerMounted, DC!NewForm, Blank
<1>2. CASE DC!RecordArrives \/ DC!RecordFails \/ UNCHANGED DC!vars
  <2>1. UNCHANGED <<versions, canUpload, status, documents, selected, open, form, lists,
                    deposits>>
    BY <1>2 DEF DC!RecordArrives, DC!RecordFails, DC!vars, DC!page, DC!server
  <2> QED BY <2>1 DEF RegisterInv, DC!DrawerMounted, DC!NewForm, Blank, ListsAre,
          DepositsAre, DC!Existing
<1>3. CASE DC!onBack
  <2>1. UNCHANGED <<versions, canUpload, status, documents, open, form, lists, deposits>>
        /\ selected # None
    BY <1>3 DEF DC!onBack, DC!server
  <2>2. form' = DC!NewForm
    BY <2>1 DEF RegisterInv, DC!DrawerMounted
  <2>3. \A c \in deposits' : ~c.here
    BY <2>1 DEF RegisterInv, DC!DrawerMounted
  <2> QED BY <2>1, <2>2, <2>3, Emptied DEF RegisterInv
<1>4. CASE DC!OpenRow
  <2>1. UNCHANGED <<versions, canUpload, status, documents, open, lists>>
        /\ form' = DC!NewForm /\ deposits' = DC!Left(deposits)
    BY <1>4 DEF DC!OpenRow, DC!server
  <2>2. DepositsAre(deposits') /\ \A c \in deposits' : ~c.here
    BY <2>1, LeftDeposits DEF RegisterInv
  <2> QED BY <2>1, <2>2, Emptied DEF RegisterInv
<1>5. CASE DC!ReadList
  <2>1. PICK r \in lists : lists' = (lists \ {r}) \cup {[r EXCEPT !.value = DC!Existing]}
    BY <1>5 DEF DC!ReadList
  <2>2. UNCHANGED <<versions, canUpload, status, documents, selected, open, form,
                    deposits>>
    BY <1>5 DEF DC!ReadList, DC!server
  <2>3. r = [number |-> r.number, value |-> r.value, registered |-> r.registered]
        /\ r.registered \in Docs \cup {None}
    BY DEF RegisterInv, ListsAre
  <2> DEFINE t == [r EXCEPT !.value = DC!Existing]
  <2>4. t = [number |-> t.number, value |-> t.value, registered |-> t.registered]
        /\ t.registered \in Docs \cup {None} /\ t.value = DC!Existing
    BY <2>3
  <2>5. lists' = (lists \ {r}) \cup {t}
    BY <2>1
  <2> HIDE DEF t
  <2>6. ListsAre(lists')
    BY <2>4, <2>5 DEF ListsAre, RegisterInv
  <2>7. DC!Existing' = DC!Existing
    BY <2>2 DEF DC!Existing
  <2>8. ListsAre(lists)' /\ DepositsAre(deposits)'
    BY <2>2, <2>6, <2>7 DEF ListsAre, DepositsAre, RegisterInv
  <2> QED BY <2>2, <2>7, <2>8 DEF RegisterInv, DC!DrawerMounted, DC!NewForm, Blank
<1>6. CASE DC!ListFails
  <2>1. PICK r \in lists : lists' = lists \ {r} /\ open' = (open /\ r.registered = None)
    BY <1>6 DEF DC!ListFails
  <2>2. /\ status' = "error" /\ form' = DC!NewForm /\ deposits' = DC!Left(deposits)
        /\ UNCHANGED <<versions, canUpload, documents>>
    BY <1>6 DEF DC!ListFails, DC!AfterFailure, DC!server
  <2>3. DepositsAre(deposits') /\ ListsAre(lists') /\ \A c \in deposits' : ~c.here
    BY <2>1, <2>2, LeftDeposits DEF RegisterInv, ListsAre
  <2> QED BY <2>1, <2>2, <2>3, Emptied DEF RegisterInv
<1>7. CASE DC!Toggle
  <2>1. /\ open' = ~open
        /\ form' = IF open THEN DC!NewForm ELSE form
        /\ UNCHANGED <<versions, canUpload, status, documents, selected, lists,
                       deposits>>
    BY <1>7 DEF DC!Toggle, DC!Reset, DC!server
  <2>2. CASE open
    BY <2>1, <2>2, Emptied DEF RegisterInv
  <2>3. CASE ~open
    BY <2>1, <2>3 DEF RegisterInv, DC!DrawerMounted, DC!NewForm, Blank, ListsAre,
       DepositsAre, DC!Existing
  <2> QED BY <2>2, <2>3
<1>8. CASE DC!onClose
  BY <1>8, Emptied DEF DC!onClose, DC!Reset, DC!server, RegisterInv
<1>9. CASE DC!Fill
  <2>1. /\ DC!DrawerMounted(status, selected) /\ open /\ form.uploading = FALSE
        /\ UNCHANGED <<versions, canUpload, status, documents, selected, open, lists,
                       deposits>>
    BY <1>9 DEF DC!Fill, DC!DrawerShown, DC!server, RegisterInv, Forms
  <2>2. form' \in Forms /\ form'.uploading = FALSE
    BY <1>9, <2>1, NewFormIs DEF DC!Fill, RegisterInv, Forms, DC!NewForm
  <2> QED BY <2>1, <2>2 DEF RegisterInv, DC!DrawerMounted, ListsAre, DepositsAre,
          DC!Existing
<1>10. CASE DC!handleSubmit
  <2>1. /\ DC!DrawerMounted(status, selected) /\ open /\ form.id # None
        /\ form' = [form EXCEPT !.uploading = TRUE, !.error = FALSE]
        /\ UNCHANGED <<versions, canUpload, status, documents, selected, open, lists>>
    BY <1>10 DEF DC!handleSubmit, DC!DrawerShown, DC!server
  <2> DEFINE c == [number |-> DC!FreeNumber(deposits), doc |-> form.id, here |-> TRUE,
                   noted |-> form.id \in documents, got |-> "pending"]
  <2>2. deposits' = deposits \cup {c}
    BY <1>10 DEF DC!handleSubmit
  <2>3. form.id \in Docs /\ form' \in Forms
    BY <2>1 DEF RegisterInv, Forms
  <2>4. c = [number |-> c.number, doc |-> c.doc, here |-> c.here,
             noted |-> c.noted, got |-> c.got] /\ c.doc = form.id /\ c.here = TRUE
    OBVIOUS
  <2> HIDE DEF c
  <2>5. DepositsAre(deposits)' /\ ListsAre(lists)'
    BY <2>1, <2>2, <2>3, <2>4 DEF RegisterInv, DepositsAre, ListsAre, DC!Existing
  <2> QED BY <2>1, <2>2, <2>3, <2>4, <2>5 DEF RegisterInv, DC!DrawerMounted, DC!Existing
<1>11. CASE DC!Serve
  <2>1. PICK c \in deposits :
          /\ versions' = [versions EXCEPT ![c.doc] = @ + 1]
          /\ deposits' = (deposits \ {c}) \cup {[c EXCEPT !.got = "done"]}
    BY <1>11 DEF DC!Serve
  <2>2. UNCHANGED <<canUpload, status, documents, selected, open, form, lists>>
    BY <1>11 DEF DC!Serve, DC!page
  <2>3. c = [number |-> c.number, doc |-> c.doc, here |-> c.here,
             noted |-> c.noted, got |-> c.got] /\ c.doc \in Docs /\ c.here \in BOOLEAN
    BY DEF RegisterInv, DepositsAre
  <2> DEFINE t == [c EXCEPT !.got = "done"]
  <2>4. t = [number |-> t.number, doc |-> t.doc, here |-> t.here,
             noted |-> t.noted, got |-> t.got] /\ t.doc = c.doc /\ t.here = c.here
    BY <2>3
  <2>5. deposits' = (deposits \ {c}) \cup {t}
    BY <2>1
  <2> HIDE DEF t
  <2>6. versions' \in [Docs -> Nat] /\ DC!Existing \subseteq DC!Existing'
    BY <2>1, <2>3, VersionsGrow
  <2>7. ListsAre(lists)' /\ DepositsAre(deposits)'
    BY <2>2, <2>3, <2>4, <2>5, <2>6 DEF ListsAre, DepositsAre, RegisterInv
  <2>8. (\E x \in deposits : x.here) => \E x \in deposits' : x.here
    BY <2>4, <2>5
  <2>9. \A x \in deposits' : x.here => DC!DrawerMounted(status, selected)
    BY <2>4, <2>5 DEF RegisterInv
  <2> QED BY <2>2, <2>6, <2>7, <2>8, <2>9 DEF RegisterInv, DC!DrawerMounted,
          DC!NewForm, Blank
<1>12. CASE DC!DepositArrives
  <2>1. PICK c \in deposits :
          /\ deposits' = DC!Left(deposits \ {c})
          /\ lists' = lists \cup {DC!NewList(c.doc)}
    BY <1>12 DEF DC!DepositArrives
  <2>2. /\ status' = "loading" /\ form' = DC!NewForm
        /\ UNCHANGED <<versions, canUpload, documents, selected, open>>
    BY <1>12 DEF DC!DepositArrives, DC!server
  <2>3. DepositsAre(deposits \ {c}) /\ c.doc \in Docs
    BY DEF RegisterInv, DepositsAre
  <2>4. DepositsAre(deposits') /\ \A x \in deposits' : ~x.here
    BY <2>1, <2>3, LeftDeposits
  <2>5. ListsAre(lists')
    BY <2>1, <2>3 DEF RegisterInv, ListsAre, DC!NewList
  <2> QED BY <2>2, <2>4, <2>5, Emptied DEF RegisterInv
<1>13. CASE DC!DepositFails
  <2>1. PICK c \in deposits :
          /\ deposits' = deposits \ {c}
          /\ form' = IF c.here THEN [form EXCEPT !.uploading = FALSE, !.error = TRUE]
                     ELSE form
    BY <1>13 DEF DC!DepositFails
  <2>2. UNCHANGED <<versions, canUpload, status, documents, selected, open, lists>>
    BY <1>13 DEF DC!DepositFails, DC!server
  <2>3. form' \in Forms /\ form'.id = form.id /\ form'.file = form.file
        /\ (form'.uploading => form.uploading /\ ~c.here)
    BY <2>1 DEF RegisterInv, Forms
  <2>4. form.uploading \in BOOLEAN /\ (form'.uploading => form.uploading)
    BY <2>3 DEF RegisterInv, Forms
  <2>5. ~DC!DrawerMounted(status, selected) => form' = DC!NewForm
    BY <2>1 DEF RegisterInv
  <2>6. form'.uploading => \E x \in deposits' : x.here
    BY <2>1, <2>3 DEF RegisterInv
  <2>7. ~open => Blank(form')
    BY <2>3, <2>4 DEF RegisterInv, Blank
  <2>8. ListsAre(lists)' /\ DepositsAre(deposits)' /\ DC!Existing' = DC!Existing
    BY <2>1, <2>2 DEF ListsAre, DepositsAre, DC!Existing, RegisterInv
  <2> QED BY <2>1, <2>2, <2>3, <2>5, <2>6, <2>7, <2>8
          DEF RegisterInv, DC!DrawerMounted, DC!NewForm, Blank
<1> QED BY <1>1, <1>2, <1>3, <1>4, <1>5, <1>6, <1>7, <1>8, <1>9, <1>10, <1>11, <1>12,
           <1>13, RegisterListArrives DEF DC!Next

LEMMA CatalogStep == CatalogInv /\ (DC!Next \/ UNCHANGED DC!vars) => CatalogInv'
BY RecordStep, RegisterStep DEF CatalogInv

LEMMA CatalogMeans == CatalogInv => DC!TypeOK
<1> SUFFICES ASSUME CatalogInv PROVE DC!TypeOK
  OBVIOUS
<1>1. form.uploading => open
  BY DEF CatalogInv, RegisterInv, Blank
<1>2. form.id \in Docs \cup {None}
  BY DEF CatalogInv, RegisterInv, Forms
<1> QED BY <1>1, <1>2 DEF CatalogInv, RegisterInv, RecordInv, DC!TypeOK

(* What is typed into a drawer is typed while it is shown.                 *)
LEMMA DrawerAppears ==
  ASSUME CatalogInv, DC!Next, ~DC!DrawerShown, DC!DrawerShown'
  PROVE  form'.id = None /\ ~form'.file /\ ~form'.uploading
<1>1. Blank(form)
  BY NewFormIs DEF CatalogInv, RegisterInv, DC!DrawerShown
<1>2. SUFFICES \/ form' \in {form, DC!NewForm}
               \/ /\ ~form'.uploading /\ form'.id = form.id
                  /\ form'.file = form.file
  BY <1>1, NewFormIs DEF Blank
<1>3. CASE DC!DepositFails
  <2>1. form \in Forms
    BY DEF CatalogInv, RegisterInv
  <2>2. form' = form \/ form' = [form EXCEPT !.uploading = FALSE, !.error = TRUE]
    BY <1>3 DEF DC!DepositFails
  <2> QED BY <2>1, <2>2 DEF Forms
<1>4. CASE DC!Fill \/ DC!handleSubmit \/ DC!onClose
  BY <1>4 DEF DC!Fill, DC!handleSubmit, DC!onClose
<1>5. CASE DC!Toggle \/ DC!ListFails \/ DC!OpenRow \/ DC!DepositArrives
  BY <1>5 DEF DC!Toggle, DC!Reset, DC!ListFails, DC!OpenRow, DC!DepositArrives
<1>6. CASE DC!ListArrives
  BY <1>6 DEF DC!ListArrives
<1>7. CASE \/ DC!OtherUser \/ DC!RecordArrives \/ DC!RecordFails \/ DC!onBack
           \/ DC!ReadList \/ DC!Serve
  BY <1>7 DEF DC!OtherUser, DC!RecordArrives, DC!RecordFails, DC!onBack, DC!ReadList,
     DC!Serve, DC!page
<1> QED BY <1>3, <1>4, <1>5, <1>6, <1>7 DEF DC!Next

-----------------------------------------------------------------------------
(* The re-ingestion wizard.                                                *)

AnyRun == [id : RW!RunIds, version : Nat, file : Files]
RunsInv ==
  /\ second \in 0..MaxSecond /\ number \in Nat
  /\ IsFiniteSet(runs) /\ runs \subseteq AnyRun
  /\ \A r, q \in runs : r.id = q.id => r = q

(* A run was committed for what is answered so.                            *)
CallIs(c) ==
  /\ c = [by |-> c.by, id |-> c.id, file |-> c.file, got |-> c.got]
  /\ c.by \in Nat /\ c.by <= number
  /\ c.id \in RW!RunIds /\ c.file \in Files
  /\ c.got = "done" => \E r \in runs : r.id = c.id /\ r.file = c.file
(* A wizard has one request at a time, and shows what it is for.           *)
OwnCall(c) ==
  open /\ c.by = number =>
    /\ phase = "running" /\ c.id = form.id /\ c.file = form.file
    /\ \A x \in calls : x.by = number => x = c
CallsInv == \A c \in calls : CallIs(c) /\ OwnCall(c)

AnyForm == [file : Files \cup {None}, id : RW!RunIds \cup {None},
            prompt : registry.prompts \cup {None}, model : registry.models \cup {None}]
ShownInv ==
  /\ open \in BOOLEAN
  /\ phase \in {"configure", "running", "complete", "error"}
  /\ stage \in 0..3
  /\ registry = [status |-> registry.status, prompts |-> registry.prompts,
                 models |-> registry.models]
  /\ form \in AnyForm
  /\ result \in runs \cup {None}
  /\ phase = "complete" <=> result # None
  /\ RW!ResultIsOfThisWizard
RunsShown == RunsInv /\ CallsInv /\ ShownInv
(* The lock may lag behind the run, and a listener there is when open.     *)
LockInv == {locked, heard} \subseteq BOOLEAN /\ (heard => open)
WizardInv == RunsShown /\ LockInv

LEMMA WizardFacts ==
  /\ MaxSecond \in Nat /\ None \notin AnyRun /\ None \notin Files
  /\ 0..MaxSecond \subseteq RW!RunIds /\ Typed \in RW!RunIds
BY PagesAssumption DEF RW!BoundAssumption, RW!RunAssumption, AnyRun, RW!RunIds

LEMMA WizardInit == RW!Init => WizardInv
<1> SUFFICES ASSUME RW!Init PROVE WizardInv
  OBVIOUS
<1>1. /\ runs = {} /\ second = 0 /\ open = FALSE /\ locked = FALSE /\ heard = FALSE
      /\ number = 0
      /\ phase = "configure" /\ stage = 0 /\ result = None /\ calls = {}
      /\ registry = [status |-> "loading", prompts |-> {}, models |-> {}]
      /\ form = [file |-> None, id |-> second, prompt |-> None, model |-> None]
  BY DEF RW!Init, RW!Loading, RW!NewForm, RW!defaultReingestionRunId
<1>2. RunsInv
  BY <1>1, WizardFacts, FS_EmptySet DEF RunsInv
<1>3. form \in AnyForm
  BY <1>1, WizardFacts DEF AnyForm
<1>4. registry = [status |-> registry.status, prompts |-> registry.prompts,
                  models |-> registry.models]
  BY <1>1
<1>6. /\ open \in BOOLEAN /\ LockInv
      /\ phase = "complete" <=> result # None
  BY <1>1 DEF LockInv
<1>7. stage \in 0..3 /\ result \in runs \cup {None}
      /\ phase \in {"configure", "running", "complete", "error"}
  BY <1>1
<1>8. RW!ResultIsOfThisWizard
  BY <1>1 DEF RW!ResultIsOfThisWizard
<1>5. ShownInv
  BY <1>3, <1>4, <1>6, <1>7, <1>8, Zenon DEF ShownInv
<1> QED BY <1>1, <1>2, <1>5, <1>6 DEF WizardInv, RunsShown, CallsInv

(* What is shown of a run that is over stays.                              *)
LEMMA SameResult ==
  ASSUME RunsShown, UNCHANGED <<phase, result>>, runs \subseteq runs',
         form'.id = form.id \/ phase # "complete",
         form'.file = form.file \/ phase # "complete"
  PROVE  /\ result' \in runs' \cup {None}
         /\ phase' = "complete" <=> result' # None
         /\ RW!ResultIsOfThisWizard'
BY DEF RunsShown, ShownInv, RW!ResultIsOfThisWizard

(* Only what is typed or what the registry offers changes, in a form.      *)
LEMMA FormChanges ==
  ASSUME RunsShown, form' \in AnyForm',
         UNCHANGED <<runs, second, open, number, phase, stage, result, calls>>,
         registry' = [status |-> registry'.status, prompts |-> registry'.prompts,
                      models |-> registry'.models],
         phase = "configure" \/ (form'.id = form.id /\ form'.file = form.file)
  PROVE  RunsShown'
<1>1. RunsInv'
  BY DEF RunsShown, RunsInv
<1>2. CallsInv'
  BY DEF RunsShown, CallsInv, CallIs, OwnCall
<1>3. ShownInv'
  BY SameResult DEF RunsShown, ShownInv
<1> QED BY <1>1, <1>2, <1>3 DEF RunsShown

LEMMA WizardOpens ==
  ASSUME RunsShown, RW!SecondPasses \/ RW!OpenDrawer \/ RW!StageTicks
                    \/ RW!onClose \/ RW!onBack \/ RW!handleRetry
                    \/ RW!LockEffect \/ RW!ListenerEffect \/ UNCHANGED RW!vars
  PROVE  RunsShown'
<1> USE DEF RunsShown
<1>1. CASE RW!SecondPasses
  <2>1. second < MaxSecond /\ second' = second + 1
        /\ UNCHANGED <<runs, open, number, phase, stage, registry, form, result, calls>>
    BY <1>1 DEF RW!SecondPasses, RW!wizard
  <2>2. RunsInv'
    BY <2>1, WizardFacts DEF RunsInv
  <2> QED BY <2>1, <2>2 DEF CallsInv, CallIs, OwnCall, ShownInv, AnyForm,
          RW!ResultIsOfThisWizard
<1>2. CASE RW!OpenDrawer
  <2>1. /\ ~open /\ open' = TRUE /\ number' = number + 1
        /\ phase' = "configure" /\ stage' = 0 /\ result' = None
        /\ registry' = [status |-> "loading", prompts |-> {}, models |-> {}]
        /\ form' = [file |-> None, id |-> second, prompt |-> None, model |-> None]
        /\ UNCHANGED <<runs, second, calls>>
    BY <1>2 DEF RW!OpenDrawer, RW!Loading, RW!NewForm, RW!defaultReingestionRunId
  <2>2. RunsInv'
    BY <2>1 DEF RunsInv
  <2>3. CallsInv'
    BY <2>1 DEF CallsInv, CallIs, OwnCall, RunsInv
  <2>4. form' \in AnyForm'
    BY <2>1, WizardFacts DEF AnyForm, RunsInv
  <2>6. ShownInv'
    BY <2>1, <2>4 DEF ShownInv, RW!ResultIsOfThisWizard
  <2> QED BY <2>2, <2>3, <2>6
<1>3. CASE RW!StageTicks
  <2>1. /\ stage' = RW!NextStage(stage)
        /\ UNCHANGED <<runs, second, open, number, phase, registry, form, result, calls>>
    BY <1>3 DEF RW!StageTicks
  <2>2. stage' \in 0..3
    BY <2>1 DEF ShownInv, RW!NextStage, RW!LastStage
  <2> QED BY <2>1, <2>2 DEF RunsInv, CallsInv, CallIs, OwnCall, ShownInv, AnyForm,
          RW!ResultIsOfThisWizard
<1>4. CASE RW!onClose
  <2>1. /\ open' = FALSE
        /\ UNCHANGED <<runs, second, number, phase, stage, registry, form, result, calls>>
    BY <1>4 DEF RW!onClose, RW!wizard
  <2> QED BY <2>1 DEF RunsInv, CallsInv, CallIs, OwnCall, ShownInv, AnyForm,
          RW!ResultIsOfThisWizard
<1>5. CASE RW!onBack
  <2>1. /\ open' = FALSE /\ number' = number + 1
        /\ UNCHANGED <<runs, second, phase, stage, registry, form, result, calls>>
    BY <1>5 DEF RW!onBack, RW!wizard
  <2>2. RunsInv' /\ CallsInv'
    BY <2>1 DEF RunsInv, CallsInv, CallIs, OwnCall
  <2> QED BY <2>1, <2>2 DEF ShownInv, AnyForm, RW!ResultIsOfThisWizard
<1>6. CASE RW!handleRetry
  <2>1. /\ open /\ phase = "error" /\ phase' = "configure" /\ result' = None
        /\ form' = [form EXCEPT !.id = second]
        /\ UNCHANGED <<runs, second, open, number, stage, registry, calls>>
    BY <1>6 DEF RW!handleRetry, RW!defaultReingestionRunId
  <2>2. form' \in AnyForm'
    BY <2>1, WizardFacts DEF AnyForm, RunsInv, ShownInv
  <2>3. RunsInv' /\ CallsInv'
    BY <2>1 DEF RunsInv, CallsInv, CallIs, OwnCall
  <2> QED BY <2>1, <2>2, <2>3 DEF ShownInv, RW!ResultIsOfThisWizard
<1>7. CASE RW!LockEffect \/ RW!ListenerEffect \/ UNCHANGED RW!vars
  <2>1. UNCHANGED <<runs, second, open, number, phase, stage, registry, form, result,
                    calls>>
    BY <1>7 DEF RW!LockEffect, RW!ListenerEffect, RW!vars, RW!wizard
  <2> QED BY <2>1 DEF RunsInv, CallsInv, CallIs, OwnCall, ShownInv, AnyForm,
          RW!ResultIsOfThisWizard
<1> QED BY <1>1, <1>2, <1>3, <1>4, <1>5, <1>6, <1>7

LEMMA WizardFills ==
  ASSUME RunsShown, RW!RegistryArrives \/ RW!RegistryFails \/ RW!handleFileChange
                    \/ RW!FillIn
  PROVE  RunsShown'
<1>0. form \in AnyForm /\ form.prompt \in registry.prompts \cup {None}
      /\ form.model \in registry.models \cup {None}
  BY DEF RunsShown, ShownInv, AnyForm
<1>1. CASE RW!RegistryArrives
  <2>1. PICK ps \in SUBSET Prompts, ms \in SUBSET Models :
          /\ registry' = [status |-> "ready", prompts |-> ps, models |-> ms]
          /\ \E p \in (IF ps = {} THEN {None} ELSE ps),
                m \in (IF ms = {} THEN {None} ELSE ms) :
               form' = [form EXCEPT !.prompt = p, !.model = m]
    BY <1>1 DEF RW!RegistryArrives
  <2>2. PICK p \in ps \cup {None}, m \in ms \cup {None} :
          form' = [form EXCEPT !.prompt = p, !.model = m]
    BY <2>1
  <2>3. form' \in AnyForm' /\ form'.id = form.id /\ form'.file = form.file
    BY <1>0, <2>1, <2>2 DEF AnyForm
  <2> QED BY <1>1, <2>1, <2>3, FormChanges DEF RW!RegistryArrives
<1>2. CASE RW!RegistryFails
  <2>1. registry' = [status |-> "error", prompts |-> registry.prompts,
                     models |-> registry.models] /\ form' = form
    BY <1>2 DEF RW!RegistryFails, RunsShown, ShownInv
  <2>2. form' \in AnyForm'
    BY <1>0, <2>1 DEF AnyForm
  <2> QED BY <1>2, <2>1, <2>2, FormChanges DEF RW!RegistryFails
<1>3. CASE RW!handleFileChange \/ RW!FillIn
  <2>1. phase = "configure" /\ registry' = registry
    BY <1>3 DEF RW!handleFileChange, RW!FillIn, RW!FormShown
  <2>2. form' \in AnyForm
    <3>1. CASE RW!handleFileChange
      BY <1>0, <3>1 DEF RW!handleFileChange, AnyForm
    <3>2. CASE RW!FillIn
      BY <1>0, <3>2, WizardFacts DEF RW!FillIn, AnyForm
    <3> QED BY <1>3, <3>1, <3>2
  <2>3. form' \in AnyForm'
    BY <2>1, <2>2 DEF AnyForm
  <2>4. registry' = [status |-> registry'.status, prompts |-> registry'.prompts,
                     models |-> registry'.models]
    BY <2>1 DEF RunsShown, ShownInv
  <2>5. UNCHANGED <<runs, second, open, number, phase, stage, result, calls>>
    BY <1>3 DEF RW!handleFileChange, RW!FillIn
  <2> QED BY <2>1, <2>3, <2>4, <2>5, FormChanges
<1> QED BY <1>1, <1>2, <1>3

LEMMA WizardSubmits == RunsShown /\ RW!handleSubmit => RunsShown'
<1> SUFFICES ASSUME RunsShown, RW!handleSubmit PROVE RunsShown'
  OBVIOUS
<1> USE DEF RunsShown
<1>1. /\ open /\ phase = "configure" /\ form.file # None /\ form.id # None
      /\ phase' = "running" /\ stage' = 0
      /\ UNCHANGED <<runs, second, open, number, registry, form, result>>
  BY DEF RW!handleSubmit, RW!FormShown
<1> DEFINE c == [by |-> number, id |-> form.id, file |-> form.file, got |-> "pending"]
<1>2. calls' = calls \cup {c}
  BY DEF RW!handleSubmit
<1>3. /\ c = [by |-> c.by, id |-> c.id, file |-> c.file, got |-> c.got]
      /\ c.by = number /\ c.id = form.id /\ c.file = form.file /\ c.got = "pending"
  OBVIOUS
<1>4. form.id \in RW!RunIds /\ form.file \in Files
  BY <1>1 DEF ShownInv, AnyForm
<1> HIDE DEF c
<1>5. \A x \in calls : x.by # number
  BY <1>1 DEF CallsInv, OwnCall
<1>6. RunsInv'
  BY <1>1 DEF RunsInv
<1>7. CallsInv'
  BY <1>1, <1>2, <1>3, <1>4, <1>5 DEF CallsInv, CallIs, OwnCall, RunsInv
<1>8. ShownInv'
  BY <1>1 DEF ShownInv, AnyForm, RW!ResultIsOfThisWizard
<1> QED BY <1>6, <1>7, <1>8

LEMMA WizardServed == RunsShown /\ RW!Serve => RunsShown'
<1> SUFFICES ASSUME RunsShown, RW!Serve PROVE RunsShown'
  OBVIOUS
<1> USE DEF RunsShown
<1>1. PICK c \in calls :
        \/ /\ \A r \in runs : r.id # c.id
           /\ runs' = runs \cup {[id |-> c.id, version |-> Cardinality(runs) + 1,
                                  file |-> c.file]}
           /\ calls' = (calls \ {c}) \cup {[c EXCEPT !.got = "done"]}
        \/ /\ calls' = (calls \ {c}) \cup {[c EXCEPT !.got = "refused"]}
           /\ UNCHANGED runs
  BY DEF RW!Serve, RW!Cardinality, Cardinality
<1>2. UNCHANGED <<second, open, number, phase, stage, registry, form, result>>
  BY DEF RW!Serve, RW!wizard
<1>3. CallIs(c) /\ OwnCall(c)
  BY DEF CallsInv
<1>4. PICK t : /\ t = [by |-> c.by, id |-> c.id, file |-> c.file, got |-> t.got]
               /\ calls' = (calls \ {c}) \cup {t}
               /\ t.got = "done" => \E r \in runs' : r.id = c.id /\ r.file = c.file
  <2>1. \A g : [c EXCEPT !.got = g] =
               [by |-> c.by, id |-> c.id, file |-> c.file, got |-> g]
    BY <1>3 DEF CallIs
  <2> DEFINE x == [id |-> c.id, version |-> Cardinality(runs) + 1, file |-> c.file]
  <2>2. x.id = c.id /\ x.file = c.file
    OBVIOUS
  <2> HIDE DEF x
  <2>3. PICK g : /\ calls' = (calls \ {c}) \cup {[c EXCEPT !.got = g]}
                 /\ g = "done" => runs' = runs \cup {x}
    BY <1>1 DEF x
  <2>4. g = "done" => \E r \in runs' : r.id = c.id /\ r.file = c.file
    BY <2>2, <2>3
  <2> DEFINE y == [by |-> c.by, id |-> c.id, file |-> c.file, got |-> g]
  <2>5. calls' = (calls \ {c}) \cup {y} /\ y.got = g
    BY <2>1, <2>3
  <2>6. y = [by |-> c.by, id |-> c.id, file |-> c.file, got |-> y.got]
    OBVIOUS
  <2> HIDE DEF y
  <2> QED BY <2>4, <2>5, <2>6
<1>5. runs \subseteq runs' /\ RunsInv'
  <2>1. CASE runs' = runs
    BY <1>2, <2>1 DEF RunsInv
  <2>2. CASE runs' # runs
    <3> DEFINE x == [id |-> c.id, version |-> Cardinality(runs) + 1, file |-> c.file]
    <3>1. runs' = runs \cup {x} /\ \A r \in runs : r.id # c.id
      BY <1>1, <2>2
    <3>2. Cardinality(runs) \in Nat
      BY FS_CardinalityType DEF RunsInv
    <3>3. x \in AnyRun /\ x.id = c.id
      BY <1>3, <3>2 DEF AnyRun, CallIs
    <3> HIDE DEF x
    <3>4. IsFiniteSet(runs')
      BY <3>1, FS_AddElement DEF RunsInv
    <3> QED BY <1>2, <3>1, <3>3, <3>4 DEF RunsInv
  <2> QED BY <2>1, <2>2
<1>6. t.by = c.by /\ t.id = c.id /\ t.file = c.file
  BY <1>4
<1>7. CallsInv'
  <2>1. ASSUME NEW x \in calls PROVE CallIs(x)'
    BY <1>2, <1>5 DEF CallsInv, CallIs
  <2>2. CallIs(t)'
    BY <1>2, <1>3, <1>4, <1>6 DEF CallIs
  <2>3. ASSUME NEW x \in calls', open, x.by = number
        PROVE  OwnCall(x)'
    BY <1>2, <1>3, <1>4, <1>6, <2>3 DEF CallsInv, OwnCall
  <2>4. \A x \in calls' : OwnCall(x)'
    BY <1>2, <2>3 DEF OwnCall
  <2> QED BY <1>4, <2>1, <2>2, <2>4 DEF CallsInv
<1>8. ShownInv'
  BY <1>2, <1>5, SameResult DEF ShownInv, AnyForm
<1> QED BY <1>5, <1>7, <1>8

LEMMA WizardAnswered == RunsShown /\ (RW!Completes \/ RW!Fails) => RunsShown'
<1> SUFFICES ASSUME RunsShown, RW!Completes \/ RW!Fails PROVE RunsShown'
  OBVIOUS
<1> USE DEF RunsShown
<1>1. PICK c \in calls :
        /\ calls' = calls \ {c}
        /\ \/ /\ c.got = "done"
              /\ IF open /\ c.by = number
                 THEN result' = RW!RunOf(c) /\ phase' = "complete"
                 ELSE UNCHANGED <<result, phase>>
           \/ /\ result' = result
              /\ IF open /\ c.by = number
                 THEN phase' = "error"
                 ELSE UNCHANGED phase
  BY DEF RW!Completes, RW!Fails, RW!Mine, RW!AfterFailure
<1>2. UNCHANGED <<runs, second, open, number, stage, registry, form>>
  BY DEF RW!Completes, RW!Fails
<1>3. RunsInv'
  BY <1>2 DEF RunsInv
<1>4. CallIs(c) /\ OwnCall(c)
  BY DEF CallsInv
<1>5. \A x \in calls' : CallIs(x)'
  BY <1>1, <1>2 DEF CallsInv, CallIs
<1>6. CASE ~(open /\ c.by = number)
  <2>1. UNCHANGED <<result, phase>>
    BY <1>1, <1>6
  <2>2. CallsInv'
    BY <1>1, <1>2, <1>5, <2>1 DEF CallsInv, OwnCall
  <2>3. ShownInv'
    BY <1>2, <2>1 DEF ShownInv, AnyForm, RW!ResultIsOfThisWizard
  <2> QED BY <1>3, <2>2, <2>3
<1>7. CASE open /\ c.by = number
  <2>1. \A x \in calls' : x.by # number
    BY <1>1, <1>4, <1>7 DEF OwnCall
  <2>2. CallsInv'
    BY <1>2, <1>5, <2>1 DEF CallsInv, OwnCall
  <2>3. phase = "running" /\ result = None /\ c.id = form.id /\ c.file = form.file
    BY <1>4, <1>7 DEF OwnCall, ShownInv
  <2>4. CASE phase' = "error" /\ result' = result
    BY <1>2, <2>2, <1>3, <2>3, <2>4 DEF ShownInv, AnyForm, RW!ResultIsOfThisWizard
  <2>5. CASE /\ c.got = "done" /\ result' = RW!RunOf(c) /\ phase' = "complete"
    <3>1. PICK r \in runs : r.id = c.id /\ r.file = c.file
      BY <1>4, <2>5 DEF CallIs
    <3>2. result' \in runs /\ result'.id = c.id
      BY <2>5, <3>1 DEF RW!RunOf
    <3>3. result' = r
      BY <3>1, <3>2 DEF RunsInv
    <3>4. result' # None
      BY <3>2, WizardFacts DEF RunsInv
    <3>5. RW!ResultIsOfThisWizard'
      BY <1>2, <2>3, <3>1, <3>3 DEF RW!ResultIsOfThisWizard
    <3>6. ShownInv'
      BY <1>2, <2>5, <3>2, <3>4, <3>5 DEF ShownInv, AnyForm
    <3> QED BY <1>3, <2>2, <3>6
  <2> QED BY <1>1, <1>7, <2>4, <2>5
<1> QED BY <1>6, <1>7

(* The lock and the listener are what an effect, an opening or a closing   *)
(* made of them.                                                           *)
LEMMA LockStep == WizardInv /\ (RW!Next \/ UNCHANGED RW!vars) => LockInv'
<1> SUFFICES ASSUME WizardInv, RW!Next \/ UNCHANGED RW!vars PROVE LockInv'
  OBVIOUS
<1>0. {locked, heard} \subseteq BOOLEAN /\ (heard => open) /\ RW!LockDue \in BOOLEAN
  BY DEF WizardInv, LockInv, RunsShown, ShownInv, RW!LockDue, RW!Lock
<1>1. CASE RW!OpenDrawer
  BY <1>0, <1>1 DEF RW!OpenDrawer, LockInv
<1>3. CASE RW!LockEffect
  <2>1. locked' = RW!LockDue /\ heard' = heard /\ open' = open
    BY <1>3 DEF RW!LockEffect
  <2> QED BY <1>0, <2>1 DEF LockInv
<1>4. CASE RW!ListenerEffect
  BY <1>0, <1>4 DEF RW!ListenerEffect, LockInv
<1>5. CASE RW!onClose \/ RW!onBack
  <2>1. locked' \in {locked, FALSE} /\ heard' = FALSE
    BY <1>5 DEF RW!onClose, RW!onBack
  <2> QED BY <1>0, <2>1 DEF LockInv
<1>2. CASE \/ RW!SecondPasses \/ RW!RegistryArrives \/ RW!RegistryFails
           \/ RW!handleFileChange \/ RW!FillIn \/ RW!handleSubmit \/ RW!StageTicks
           \/ RW!Serve \/ RW!Completes \/ RW!Fails \/ RW!handleRetry \/ UNCHANGED RW!vars
  <2>1. UNCHANGED <<open, locked, heard>>
    BY <1>2 DEF RW!SecondPasses, RW!RegistryArrives, RW!RegistryFails,
       RW!handleFileChange, RW!FillIn, RW!handleSubmit, RW!StageTicks, RW!Serve,
       RW!Completes, RW!Fails, RW!handleRetry, RW!vars
  <2> QED BY <1>0, <2>1 DEF LockInv
<1> QED BY <1>1, <1>2, <1>3, <1>4, <1>5 DEF RW!Next

LEMMA WizardStep == WizardInv /\ (RW!Next \/ UNCHANGED RW!vars) => WizardInv'
BY LockStep, WizardOpens, WizardFills, WizardSubmits, WizardServed, WizardAnswered
DEF RW!Next, WizardInv

LEMMA WizardMeans == WizardInv => RW!TypeOK /\ RW!ResultIsOfThisWizard
BY DEF WizardInv, RunsShown, LockInv, ShownInv, AnyForm, RW!TypeOK, RW!LastStage

(* A run that has its lock keeps it, until it ends or the page is left: no *)
(* effect takes the lock away and no key, button or backdrop closes.       *)
LEMMA LockedRunStays ==
  ASSUME WizardInv, RW!Next, RW!LockedRun
  PROVE  RW!LockedRun' \/ phase' # "running" \/ number' = number + 1
<1>0. open /\ phase = "running" /\ locked = TRUE /\ heard = TRUE
      /\ RW!LockDue = TRUE
  BY DEF RW!LockedRun, RW!LockDue, RW!Lock, WizardInv, LockInv, RunsShown, ShownInv
<1>1. ~RW!onClose /\ ~RW!LockEffect /\ ~RW!ListenerEffect /\ ~RW!OpenDrawer
  BY <1>0 DEF RW!onClose, RW!Escapes, RW!LockEffect, RW!ListenerEffect, RW!OpenDrawer
<1>2. CASE RW!onBack
  BY <1>2 DEF RW!onBack
<1>3. CASE \/ RW!SecondPasses \/ RW!RegistryArrives \/ RW!RegistryFails
           \/ RW!handleFileChange \/ RW!FillIn \/ RW!handleSubmit \/ RW!StageTicks
           \/ RW!Serve \/ RW!Completes \/ RW!Fails \/ RW!handleRetry
  <2>1. UNCHANGED <<open, locked, heard>>
    BY <1>3 DEF RW!SecondPasses, RW!RegistryArrives, RW!RegistryFails,
       RW!handleFileChange, RW!FillIn, RW!handleSubmit, RW!StageTicks, RW!Serve,
       RW!Completes, RW!Fails, RW!handleRetry
  <2> QED BY <1>0, <2>1 DEF RW!LockedRun
<1> QED BY <1>1, <1>2, <1>3 DEF RW!Next

-----------------------------------------------------------------------------
(* The shell.                                                              *)

VisibleStep(k) == AS!guidedTourSteps[PositionAt(AS!visiblePositions, k)]
VisibleCount == Cardinality(AS!visiblePositions)

(* The steps that are shown are steps of the tour in open sections.        *)
LEMMA VisibleSteps ==
  /\ VisibleCount \in Nat
  /\ AS!getVisibleGuidedTourSteps = [k \in 1..VisibleCount |-> VisibleStep(k)]
  /\ \A k \in 1..VisibleCount : VisibleStep(k) \in Sections
  /\ AS!getVisibleGuidedTourSteps # <<>> => 1 \in 1..VisibleCount
  /\ VisibleCount <= 9
<1> DEFINE P == AS!visiblePositions
<1>1. DOMAIN AS!guidedTourSteps = 1..9
  BY DEF AS!guidedTourSteps
<1>2. P \in SUBSET (1..9) /\ \A i \in P : AS!guidedTourSteps[i] \in Sections
  BY <1>1 DEF AS!visiblePositions
<1>3. AS!Cardinality(P) = Cardinality(P) /\
      \A i \in P : AS!Cardinality({j \in P : j <= i}) = Cardinality({j \in P : j <= i})
  BY DEF AS!Cardinality, Cardinality
<1> DEFINE At(k) == CHOOSE i \in P : AS!Cardinality({j \in P : j <= i}) = k
<1>4. \A k : PositionAt(P, k) = At(k)
  BY <1>3 DEF PositionAt
<1>5. AS!getVisibleGuidedTourSteps = [k \in 1..VisibleCount |-> VisibleStep(k)]
  <2>1. AS!getVisibleGuidedTourSteps =
          [k \in 1..AS!Cardinality(P) |-> AS!guidedTourSteps[At(k)]]
    BY DEF AS!getVisibleGuidedTourSteps
  <2> HIDE DEF At
  <2>2. \A k : VisibleStep(k) = AS!guidedTourSteps[At(k)]
    BY <1>4 DEF VisibleStep
  <2>3. VisibleCount = AS!Cardinality(P)
    BY <1>3 DEF VisibleCount
  <2> QED BY <2>1, <2>2, <2>3
<1> HIDE DEF P, At
<1>6. /\ Cardinality(P) \in Nat
      /\ \A k \in 1..Cardinality(P) : PositionAt(P, k) \in P
      /\ P # {} => 1 \in 1..Cardinality(P)
  BY <1>2, InOrder
<1>7. VisibleCount = Cardinality(P) /\ \A k : VisibleStep(k) = AS!guidedTourSteps[PositionAt(P, k)]
  BY DEF VisibleCount, VisibleStep, P
<1>8. P = {} => AS!getVisibleGuidedTourSteps = <<>>
  <2>1. P = {} => Cardinality(P) = 0
    BY FS_EmptySet
  <2>2. VisibleCount = 0 => [k \in 1..VisibleCount |-> VisibleStep(k)] = <<>>
    OBVIOUS
  <2> QED BY <1>5, <1>7, <2>1, <2>2
<1>9. Cardinality(P) <= 9
  <2>1. IsFiniteSet(1..9) /\ Cardinality(1..9) = 9
    <3>1. 1 \in Int /\ 9 \in Int
      OBVIOUS
    <3>2. IsFiniteSet(1..9) /\ Cardinality(1..9) = IF 1 > 9 THEN 0 ELSE 9-1+1
      BY <3>1, FS_Interval
    <3> QED BY <3>2
  <2>2. P \in SUBSET (1..9)
    BY <1>2
  <2>3. Cardinality(P) <= Cardinality(1..9)
    BY <2>1, <2>2, FS_Subset
  <2> QED BY <2>1, <2>3
<1> QED BY <1>2, <1>5, <1>6, <1>7, <1>8, <1>9

(* The tour runs for somebody, at a step that is shown; the roles of the   *)
(* principal choose the steps and change with the tour only.               *)
TourInv ==
  /\ tour \in [on : BOOLEAN, step : 1..9]
  /\ tour.on => principal # None /\ tour.step \in 1..VisibleCount
AuthInv ==
  /\ status \in {"booting", "signed_out", "authenticating", "authenticated"}
  /\ principal = None \/
       principal \in [token : Tokens, roles : (SUBSET AS!Everyone) \ {{}}]
  /\ {token, asking} \subseteq Tokens \cup {None}
  /\ session \in 0..MaxSessions
  /\ AS!AuthAgrees
SectionInv ==
  /\ active \in Sections
  /\ scope = [review |-> scope.review, evaluation |-> scope.evaluation]
  /\ AS!ScopeIsOwn
ShellInv == AuthInv /\ TourInv /\ SectionInv

LEMMA ShellFacts ==
  /\ MaxSessions \in Nat /\ None \notin Tokens
  /\ None \notin [token : Tokens, roles : SUBSET AS!Everyone]
  /\ {"dashboard", "review"} \subseteq Sections
  /\ "expense-reports" \in Sections => "evaluation-runs" \in Sections
  /\ RolesOf \in [Tokens -> SUBSET AS!Everyone]
BY PagesAssumption DEF AS!SectionAssumption, AS!RoleAssumption, AS!TokenAssumption

LEMMA ShellInit == AS!Init => ShellInv
<1> SUFFICES ASSUME AS!Init PROVE ShellInv
  OBVIOUS
<1>1. /\ status = "booting" /\ principal = None /\ asking = None /\ session = 0
      /\ active = "dashboard" /\ token \in Tokens \cup {None}
      /\ scope = [review |-> None, evaluation |-> None]
      /\ tour = [on |-> FALSE, step |-> 1]
  BY DEF AS!Init, AS!NoRun, AS!NoTour
<1>2. AuthInv
  BY <1>1, ShellFacts DEF AuthInv, AS!AuthAgrees
<1>3. TourInv
  BY <1>1 DEF TourInv
<1>4. SectionInv
  BY <1>1, ShellFacts DEF SectionInv, AS!ScopeIsOwn, AS!ShellShown
<1> QED BY <1>2, <1>3, <1>4 DEF ShellInv

LEMMA SameVisible ==
  ASSUME principal' = principal
  PROVE  VisibleCount' = VisibleCount
BY DEF VisibleCount, AS!visiblePositions, AS!isSectionVisible

(* Signing in and out.                                                     *)
LEMMA AuthStep == ShellInv /\ (AS!Next \/ UNCHANGED AS!vars) => AuthInv'
<1> SUFFICES ASSUME ShellInv, AS!Next \/ UNCHANGED AS!vars PROVE AuthInv'
  OBVIOUS
<1> USE DEF ShellInv
<1>1. CASE AS!Boot
  BY <1>1 DEF AS!Boot, AuthInv, AS!AuthAgrees
<1>2. CASE AS!Reload
  BY <1>2, ShellFacts DEF AS!Reload, AuthInv, AS!AuthAgrees
<1>3. CASE AS!Accepted
  <2>1. asking \in Tokens /\ RolesOf[asking] \in SUBSET AS!Everyone /\ RolesOf[asking] # {}
    BY <1>3, ShellFacts DEF AS!Accepted, AS!Authenticates, AuthInv
  <2>2. /\ token' = asking /\ principal' = [token |-> asking, roles |-> RolesOf[asking]]
        /\ status' = "authenticated" /\ asking' = None /\ session' = session
    BY <1>3 DEF AS!Accepted
  <2>3. principal' \in [token : Tokens, roles : (SUBSET AS!Everyone) \ {{}}]
        /\ principal'.token = asking
    <3>1. RolesOf[asking] \in (SUBSET AS!Everyone) \ {{}}
      BY <2>1
    <3> QED BY <2>1, <2>2, <3>1
  <2>4. principal' # None
    BY <2>3, ShellFacts
  <2> QED BY <2>1, <2>2, <2>3, <2>4, ShellFacts DEF AuthInv, AS!AuthAgrees
<1>4. CASE AS!Rejected
  BY <1>4, ShellFacts DEF AS!Rejected, AS!TokenCleared, AS!AfterFailure, AuthInv,
     AS!AuthAgrees
<1>5. CASE AS!handleSignOut
  BY <1>5, ShellFacts DEF AS!handleSignOut, AS!ShellShown, AS!TokenCleared, AuthInv,
     AS!AuthAgrees
<1>6. CASE \E t \in Tokens : AS!authenticate(t)
  <2>1. PICK t \in Tokens : AS!authenticate(t)
    BY <1>6
  <2>2. principal = None
    BY <2>1 DEF AS!authenticate, AS!SignInShown, AuthInv, AS!AuthAgrees
  <2> QED BY <2>1, <2>2, ShellFacts DEF AS!authenticate, AuthInv, AS!AuthAgrees
<1>7. CASE \/ \E s \in Sections : AS!Navigate(s)
           \/ AS!startGuidedTour \/ AS!dismissGuidedTour \/ AS!onClearExtractionRunScope
           \/ \E i \in DOMAIN AS!guidedTourSteps : AS!goToTourStep(i)
           \/ \E r \in Runs : AS!onOpenRun(r) \/ AS!onOpenEvaluationRun(r)
           \/ UNCHANGED AS!vars
  <2>1. UNCHANGED <<status, principal, token, asking, session>>
    BY <1>7 DEF AS!Navigate, AS!startGuidedTour, AS!dismissGuidedTour, AS!auth,
       AS!onClearExtractionRunScope, AS!goToTourStep, AS!onOpenRun,
       AS!onOpenEvaluationRun, AS!vars
  <2> QED BY <2>1 DEF AuthInv, AS!AuthAgrees
<1> QED BY <1>1, <1>2, <1>3, <1>4, <1>5, <1>6, <1>7 DEF AS!Next

(* Going to a section with the tour as it is to be.                        *)
LEMMA Navigated ==
  ASSUME ShellInv, NEW s \in Sections, NEW t, AS!navigateToSection(s, t),
         UNCHANGED AS!auth,
         t \in [on : BOOLEAN, step : 1..9],
         t.on => principal # None /\ t.step \in 1..VisibleCount
  PROVE  TourInv' /\ SectionInv'
<1> USE DEF ShellInv
<1>0. UNCHANGED <<status, principal, session>> /\ VisibleCount' = VisibleCount
  BY SameVisible DEF AS!auth
<1>1. tour' = t \/ tour' = [on |-> FALSE, step |-> 1]
  BY DEF AS!navigateToSection, AS!TourReset, AS!NoTour
<1>2. TourInv'
  <2>1. CASE tour' = t
    BY <1>0, <2>1 DEF TourInv
  <2>2. CASE tour' = [on |-> FALSE, step |-> 1]
    BY <2>2 DEF TourInv
  <2> QED BY <1>1, <2>1, <2>2
<1>3. CASE active' = s /\ scope' = AS!ScopeReset(s)
  <2>1. /\ scope' = [review |-> scope'.review, evaluation |-> scope'.evaluation]
        /\ s = "review" => scope'.review = None
        /\ s = "evaluation-runs" => scope'.evaluation = None
    BY <1>3 DEF AS!ScopeReset, SectionInv
  <2> QED BY <1>0, <1>2, <1>3, <2>1 DEF SectionInv, AS!ScopeIsOwn
<1>4. CASE UNCHANGED <<active, scope>>
  BY <1>0, <1>2, <1>4 DEF SectionInv, AS!ScopeIsOwn, AS!ShellShown
<1> QED BY <1>3, <1>4 DEF AS!navigateToSection

LEMMA SectionStep ==
  ShellInv /\ (AS!Next \/ UNCHANGED AS!vars) => TourInv' /\ SectionInv'
<1> SUFFICES ASSUME ShellInv, AS!Next \/ UNCHANGED AS!vars PROVE TourInv' /\ SectionInv'
  OBVIOUS
<1> USE DEF ShellInv
<1>1. CASE AS!Boot \/ (\E t \in Tokens : AS!authenticate(t)) \/ AS!Rejected
  <2>1. UNCHANGED <<active, scope, tour>> /\ status' # "authenticated" /\ principal = None
        /\ principal' = None
    BY <1>1 DEF AS!Boot, AS!authenticate, AS!Rejected, AS!SignInShown, AS!AfterFailure,
       AuthInv, AS!AuthAgrees
  <2> QED BY <2>1 DEF TourInv, SectionInv, AS!ScopeIsOwn, AS!ShellShown
<1>2. CASE AS!Reload
  <2>1. /\ status' = "booting" /\ active' = "dashboard"
        /\ scope' = [review |-> None, evaluation |-> None]
        /\ tour' = [on |-> FALSE, step |-> 1]
    BY <1>2 DEF AS!Reload, AS!NoRun, AS!NoTour
  <2> QED BY <2>1, ShellFacts DEF TourInv, SectionInv, AS!ScopeIsOwn, AS!ShellShown
<1>3. CASE AS!Accepted
  <2>1. /\ active' = "dashboard" /\ scope' = scope
        /\ tour' = [on |-> FALSE, step |-> 1]
    BY <1>3 DEF AS!Accepted, AS!TourReset, AS!NoTour
  <2> QED BY <2>1, ShellFacts DEF TourInv, SectionInv, AS!ScopeIsOwn
<1>4. CASE AS!handleSignOut
  <2>1. /\ status' = "signed_out" /\ UNCHANGED <<active, scope>>
        /\ tour' = [on |-> FALSE, step |-> 1]
    BY <1>4 DEF AS!handleSignOut, AS!TourReset, AS!NoTour
  <2> QED BY <2>1 DEF TourInv, SectionInv, AS!ScopeIsOwn, AS!ShellShown
<1>5. CASE \E s \in Sections : AS!Navigate(s)
  <2>1. PICK s \in Sections : AS!navigateToSection(s, tour) /\ UNCHANGED AS!auth
    BY <1>5 DEF AS!Navigate
  <2> QED BY <2>1, Navigated DEF TourInv
<1>6. CASE AS!startGuidedTour
  <2>1. /\ AS!getVisibleGuidedTourSteps # <<>> /\ principal # None
        /\ AS!navigateToSection(AS!getVisibleGuidedTourSteps[1], [on |-> TRUE, step |-> 1])
        /\ UNCHANGED AS!auth
    BY <1>6 DEF AS!startGuidedTour, AS!ShellShown
  <2>2. 1 \in 1..VisibleCount /\ AS!getVisibleGuidedTourSteps[1] \in Sections
    BY <2>1, VisibleSteps
  <2> DEFINE t == [on |-> TRUE, step |-> 1]
  <2>3. t \in [on : BOOLEAN, step : 1..9] /\ t.step = 1
    OBVIOUS
  <2>4. AS!navigateToSection(AS!getVisibleGuidedTourSteps[1], t)
    BY <2>1
  <2> HIDE DEF t
  <2> QED BY <2>1, <2>2, <2>3, <2>4, Navigated
<1>7. CASE \E i \in DOMAIN AS!guidedTourSteps : AS!goToTourStep(i)
  <2>1. PICK i \in DOMAIN AS!guidedTourSteps : AS!goToTourStep(i)
    BY <1>7
  <2>2. /\ i \in DOMAIN AS!getVisibleGuidedTourSteps /\ principal # None
        /\ AS!navigateToSection(AS!getVisibleGuidedTourSteps[i], [tour EXCEPT !.step = i])
        /\ UNCHANGED AS!auth
    BY <2>1 DEF AS!goToTourStep, AS!RailShown, AS!ShellShown
  <2>3. i \in 1..VisibleCount /\ AS!getVisibleGuidedTourSteps[i] \in Sections /\ i \in 1..9
    BY <2>2, VisibleSteps
  <2> DEFINE t == [tour EXCEPT !.step = i]
  <2>4. t \in [on : BOOLEAN, step : 1..9] /\ t.step = i
    BY <2>3 DEF TourInv
  <2>5. AS!navigateToSection(AS!getVisibleGuidedTourSteps[i], t)
    BY <2>2
  <2> HIDE DEF t
  <2> QED BY <2>2, <2>3, <2>4, <2>5, Navigated
<1>8. CASE AS!dismissGuidedTour
  <2>1. /\ UNCHANGED <<status, principal, session, active, scope>>
        /\ tour' = [on |-> FALSE, step |-> 1]
    BY <1>8 DEF AS!dismissGuidedTour, AS!TourReset, AS!NoTour, AS!auth
  <2> QED BY <2>1 DEF TourInv, SectionInv, AS!ScopeIsOwn, AS!ShellShown
<1>9. CASE AS!onClearExtractionRunScope \/ UNCHANGED AS!vars
  <2>1. /\ UNCHANGED <<status, principal, session, active, tour>>
        /\ scope' \in {scope, [scope EXCEPT !.review = None]}
    BY <1>9 DEF AS!onClearExtractionRunScope, AS!vars, AS!auth
  <2>2. TourInv'
    BY <2>1, SameVisible DEF TourInv
  <2>3. /\ scope' = [review |-> scope'.review, evaluation |-> scope'.evaluation]
        /\ scope'.review \in {None, scope.review} /\ scope'.evaluation = scope.evaluation
    BY <2>1 DEF SectionInv
  <2> QED BY <2>1, <2>2, <2>3 DEF SectionInv, AS!ScopeIsOwn, AS!ShellShown
<1>10. CASE \E r \in Runs : AS!onOpenRun(r)
  <2>1. PICK r \in Runs : /\ scope' = [scope EXCEPT !.review = [run |-> r, by |-> session]]
                          /\ active' = "review" /\ UNCHANGED <<principal, session, tour>>
    BY <1>10 DEF AS!onOpenRun, AS!auth
  <2>2. scope' = [review |-> [run |-> r, by |-> session], evaluation |-> scope.evaluation]
    BY <2>1 DEF SectionInv
  <2>3. TourInv'
    BY <2>1, SameVisible DEF TourInv
  <2>4. scope'.review.by = session
    BY <2>2
  <2>5. scope' = [review |-> scope'.review, evaluation |-> scope'.evaluation]
    BY <2>2
  <2> QED BY <2>1, <2>3, <2>4, <2>5, ShellFacts DEF SectionInv, AS!ScopeIsOwn
<1>11. CASE \E r \in Runs : AS!onOpenEvaluationRun(r)
  <2>1. PICK r \in Runs :
          /\ scope' = [scope EXCEPT !.evaluation = [run |-> r, by |-> session]]
          /\ active = "expense-reports" /\ active' = "evaluation-runs"
          /\ UNCHANGED <<principal, session, tour>>
    BY <1>11 DEF AS!onOpenEvaluationRun, AS!auth
  <2>2. scope' = [review |-> scope.review, evaluation |-> [run |-> r, by |-> session]]
    BY <2>1 DEF SectionInv
  <2>3. TourInv'
    BY <2>1, SameVisible DEF TourInv
  <2>4. scope'.evaluation.by = session
    BY <2>2
  <2>5. scope' = [review |-> scope'.review, evaluation |-> scope'.evaluation]
    BY <2>2
  <2> QED BY <2>1, <2>3, <2>4, <2>5, ShellFacts DEF SectionInv, AS!ScopeIsOwn
<1>12. CASE \E r \in Runs : AS!onOpenRun(r) \/ AS!onOpenEvaluationRun(r)
  BY <1>10, <1>11, <1>12
<1> HIDE DEF ShellInv
<1> QED BY <1>1, <1>2, <1>3, <1>4, <1>5, <1>6, <1>7, <1>8, <1>9, <1>12 DEF AS!Next

LEMMA ShellStep == ShellInv /\ (AS!Next \/ UNCHANGED AS!vars) => ShellInv'
BY AuthStep, SectionStep DEF ShellInv

LEMMA ShellMeans ==
  ShellInv => AS!TypeOK /\ AS!AuthAgrees /\ AS!ScopeIsOwn /\ AS!RailStepExists
<1> SUFFICES ASSUME ShellInv
             PROVE  AS!TypeOK /\ AS!AuthAgrees /\ AS!ScopeIsOwn /\ AS!RailStepExists
  OBVIOUS
<1>1. DOMAIN AS!guidedTourSteps = 1..9
  BY DEF AS!guidedTourSteps
<1>2. AS!TypeOK
  BY <1>1 DEF ShellInv, AuthInv, TourInv, SectionInv, AS!TypeOK
<1>3. AS!RailStepExists
  <2>1. SUFFICES ASSUME AS!RailShown
                 PROVE  AS!RailStep \in DOMAIN AS!getVisibleGuidedTourSteps
    BY DEF AS!RailStepExists
  <2>2. tour.step \in DOMAIN AS!getVisibleGuidedTourSteps
    BY <2>1, VisibleSteps DEF AS!RailShown, ShellInv, TourInv
  <2> QED BY <2>2 DEF AS!RailStep
<1> QED BY <1>2, <1>3 DEF ShellInv, AuthInv, SectionInv

-----------------------------------------------------------------------------
(* The record of one document.                                             *)

(* What was loaded is a part of what the server has.                       *)
Had(vs) == vs.last \in Nat /\ vs.last <= last /\ vs.deleted \subseteq deleted
VersionsInv == last \in Nat /\ deleted \subseteq 1..last
LedgerInv ==
  /\ status \in {"loading", "ready", "error"} /\ tab \in DD!Tabs
  /\ Had(versions)
  /\ selected \in 1..last \cup {None}
  /\ \A r \in loads : /\ r = [number |-> r.number, value |-> r.value,
                              archive |-> r.archive]
                      /\ r.value = None \/ Had(r.value)
  /\ DD!SelectedIsDisplayed
(* The drawer is not reset while it is shown; a reason that is given was   *)
(* typed for the version that is being archived.                           *)
UploadInv ==
  /\ upload \in [open : BOOLEAN, file : BOOLEAN, uploading : BOOLEAN, error : BOOLEAN]
  /\ upload.uploading => status = "ready" /\ upload.open
DialogInv ==
  /\ dialog = [archiving |-> dialog.archiving, reason |-> dialog.reason,
               of |-> dialog.of, error |-> dialog.error, busy |-> dialog.busy]
  /\ dialog.archiving \in 1..last \cup {None}
  /\ dialog.reason \in BOOLEAN
  /\ dialog.reason = TRUE => dialog.of = dialog.archiving
RequestsInv ==
  \A c \in calls :
    /\ c = [kind |-> c.kind, of |-> c.of, by |-> c.by, reasonOf |-> c.reasonOf,
            got |-> c.got]
    /\ c.kind \in {"upload", "delete", "download"}
    /\ c.of \in 1..last \cup {None}
    /\ c.kind = "delete" => c.of \in 1..last /\ c.reasonOf = c.of
    /\ c.kind = "upload" /\ c.got = "done" => c.of \in 1..last
DetailInv == VersionsInv /\ LedgerInv /\ UploadInv /\ DialogInv /\ RequestsInv

(* The effect shows a version of the tab, or none if the tab is empty.     *)
LEMMA EffectShows ==
  ASSUME NEW vs, vs.last \in Nat, NEW t, NEW current
  PROVE  LET S == DD!displayedVersions(vs, t)
         IN  IF S = {} THEN DD!SelectEffect(vs, t, current) = None
             ELSE DD!SelectEffect(vs, t, current) \in S
<1> DEFINE S == DD!displayedVersions(vs, t)
<1>1. S \in SUBSET (1..vs.last)
  BY DEF DD!displayedVersions, DD!activeVersions, DD!archivedVersions, DD!All
<1>2. \E p : DD!SelectEffect(vs, t, current) = DD!pickDefaultVersionId(S, p)
  BY DEF DD!SelectEffect
<1> HIDE DEF S
<1>3. S # {} => DD!Newest(S) \in S
  <2>1. ASSUME S # {} PROVE DD!Newest(S) \in S
    <3>1. \E v \in S : \A w \in S : w <= v
      BY <1>1, <2>1, Greatest
    <3> QED BY <2>1, <3>1 DEF DD!Newest
  <2> QED BY <2>1
<1>4. IF S = {} THEN DD!SelectEffect(vs, t, current) = None
      ELSE DD!SelectEffect(vs, t, current) \in S
  BY <1>2, <1>3 DEF DD!pickDefaultVersionId, DD!Newest
<1> QED BY <1>4 DEF S

LEMMA DisplayedExist ==
  ASSUME NEW vs, VersionsInv, Had(vs), NEW t
  PROVE  DD!displayedVersions(vs, t) \subseteq 1..last
BY DEF VersionsInv, Had, DD!displayedVersions, DD!activeVersions,
   DD!archivedVersions, DD!All

LEMMA DetailInit == DD!Init => DetailInv
<1> SUFFICES ASSUME DD!Init PROVE DetailInv
  OBVIOUS
<1>0. InitVersions \in Nat /\ InitVersions > 0
  BY PagesAssumption DEF DD!VersionAssumption
<1>1. VersionsInv
  BY <1>0 DEF DD!Init, VersionsInv
<1>2. LedgerInv
  <2>1. /\ status = "loading" /\ tab = "active" /\ selected = None
        /\ versions = [last |-> 0, deleted |-> {}]
        /\ loads = {[number |-> 0, value |-> None, archive |-> FALSE]}
    BY DEF DD!Init
  <2>2. Had(versions)
    BY <1>1, <2>1 DEF Had, VersionsInv
  <2> QED BY <2>1, <2>2 DEF LedgerInv, DD!Tabs, DD!SelectedIsDisplayed
<1>3. UploadInv /\ DialogInv
  BY DEF DD!Init, UploadInv, DialogInv, DD!NewUpload, DD!Closed
<1>4. RequestsInv
  BY DEF DD!Init, RequestsInv
<1> QED BY <1>1, <1>2, <1>3, <1>4 DEF DetailInv

(* The server only adds versions and archives them.                        *)
LEMMA VersionsStep ==
  ASSUME DetailInv, DD!Next \/ UNCHANGED DD!vars
  PROVE  VersionsInv' /\ last <= last' /\ deleted \subseteq deleted'
<1> USE DEF DetailInv, VersionsInv
<1>1. CASE DD!OtherUser
  <2>1. \/ last' = last + 1 /\ deleted' = deleted
        \/ \E v \in 1..last : deleted' = deleted \cup {v} /\ last' = last
    BY <1>1 DEF DD!OtherUser
  <2>2. CASE last' = last + 1 /\ deleted' = deleted
    <3>1. last' \in Nat /\ last <= last' /\ 1..last \subseteq 1..last'
      BY <2>2
    <3> QED BY <2>2, <3>1
  <2>3. CASE \E v \in 1..last : deleted' = deleted \cup {v} /\ last' = last
    BY <2>3
  <2> QED BY <2>1, <2>2, <2>3
<1>2. CASE DD!Serve
  <2>1. PICK c \in calls :
          \/ last' = last + 1 /\ deleted' = deleted
          \/ c.kind = "delete" /\ deleted' = deleted \cup {c.of} /\ last' = last
          \/ UNCHANGED <<last, deleted>>
    BY <1>2 DEF DD!Serve, DD!server
  <2> QED BY <2>1 DEF RequestsInv
<1>3. CASE DD!onCompleted
  BY <1>3 DEF DD!onCompleted
<1>4. CASE \/ DD!ReadVersions \/ DD!VersionsArrive \/ DD!LoadFails
           \/ DD!handleVersionTabChange \/ DD!onSelectVersion
           \/ DD!NewVersion \/ DD!onCloseUpload \/ DD!handleFileChange \/ DD!handleSubmit
           \/ DD!openArchiveDrawer \/ DD!onCancel \/ DD!onReasonChange
           \/ DD!handleArchiveConfirm \/ DD!handleDownload \/ DD!UploadArrives
           \/ DD!DeleteArrives \/ DD!DownloadArrives \/ DD!CallFails
           \/ DD!OpenReingestion \/ DD!CloseReingestion \/ UNCHANGED DD!vars
  <2>1. UNCHANGED <<last, deleted>>
    BY <1>4 DEF DD!ReadVersions, DD!VersionsArrive, DD!LoadFails,
       DD!handleVersionTabChange, DD!onSelectVersion, DD!NewVersion, DD!onCloseUpload,
       DD!handleFileChange, DD!handleSubmit, DD!openArchiveDrawer, DD!onCancel,
       DD!onReasonChange, DD!handleArchiveConfirm, DD!handleDownload,
       DD!UploadArrives, DD!DeleteArrives, DD!DownloadArrives, DD!CallFails,
       DD!OpenReingestion, DD!CloseReingestion, DD!vars, DD!server
  <2> QED BY <2>1
<1> QED BY <1>1, <1>2, <1>3, <1>4 DEF DD!Next

(* What is loaded, selected, archived or called about stays so.            *)
LEMMA LoadedStays ==
  ASSUME VersionsInv, VersionsInv', last <= last', deleted \subseteq deleted'
  PROVE  /\ \A vs : Had(vs) => Had(vs)'
         /\ 1..last \subseteq 1..last'
<1>1. last \in Nat /\ last' \in Nat
  BY DEF VersionsInv
<1> QED BY <1>1 DEF Had

(* A load in flight is read, answered or added.                            *)
LEMMA LoadAdded ==
  ASSUME NEW archive, DD!loadVersions(archive), LedgerInv
  PROVE  /\ status' = "loading"
         /\ \A r \in loads' : r \in loads \/
              r = [number |-> r.number, value |-> None, archive |-> r.archive]
BY DEF DD!loadVersions

LEMMA LedgerStep ==
  ASSUME DetailInv, DD!Next \/ UNCHANGED DD!vars
  PROVE  LedgerInv'
<1> USE DEF DetailInv
<1>0. /\ VersionsInv' /\ 1..last \subseteq 1..last'
      /\ \A vs : Had(vs) => Had(vs)'
  BY VersionsStep, LoadedStays
<1> DEFINE Shown == IF DD!displayedVersions(versions', tab') = {} THEN selected' = None
                    ELSE selected' \in DD!displayedVersions(versions', tab')
<1>a. ASSUME NEW ls, ls = loads',
             \A r \in ls : r \in loads \/
               /\ r = [number |-> r.number, value |-> r.value, archive |-> r.archive]
               /\ r.value = None \/ Had(r.value)',
             status' \in {"loading", "ready", "error"}, tab' \in DD!Tabs,
             versions' = versions \/ Had(versions'),
             selected' \in 1..last' \cup {None},
             status' = "ready" => Shown
      PROVE  LedgerInv'
  <2>1. Had(versions)' /\ \A r \in loads' :
          /\ r = [number |-> r.number, value |-> r.value, archive |-> r.archive]
          /\ r.value = None \/ Had(r.value)'
    BY <1>0, <1>a DEF LedgerInv
  <2>2. DD!SelectedIsDisplayed'
    BY <1>a DEF DD!SelectedIsDisplayed
  <2> QED BY <1>a, <2>1, <2>2 DEF LedgerInv
<1>1. CASE \/ DD!OtherUser \/ DD!NewVersion \/ DD!onCloseUpload
           \/ DD!handleFileChange \/ DD!handleSubmit \/ DD!openArchiveDrawer
           \/ DD!onCancel \/ DD!onReasonChange \/ DD!handleArchiveConfirm
           \/ DD!handleDownload \/ DD!Serve \/ DD!DownloadArrives \/ DD!CallFails
           \/ DD!OpenReingestion \/ DD!CloseReingestion \/ UNCHANGED DD!vars
  <2>1. UNCHANGED <<status, versions, tab, selected, loads>>
    BY <1>1 DEF DD!OtherUser, DD!NewVersion, DD!onCloseUpload, DD!handleFileChange,
       DD!handleSubmit, DD!openArchiveDrawer, DD!onCancel, DD!onReasonChange,
       DD!handleArchiveConfirm, DD!handleDownload, DD!Serve, DD!DownloadArrives,
       DD!CallFails, DD!OpenReingestion, DD!CloseReingestion, DD!vars, DD!register
  <2>2. status' = "ready" => Shown
    BY <2>1 DEF LedgerInv, DD!SelectedIsDisplayed
  <2>3. selected' \in 1..last' \cup {None}
    BY <1>0, <2>1 DEF LedgerInv
  <2>4. \A r \in loads' : r \in loads
    BY <2>1
  <2>5. status' \in {"loading", "ready", "error"} /\ tab' \in DD!Tabs
    BY <2>1 DEF LedgerInv
  <2> HIDE DEF Shown
  <2> QED BY <1>a, <2>1, <2>2, <2>3, <2>4, <2>5
<1>2. CASE DD!ReadVersions
  <2>1. PICK r \in loads : loads' = (loads \ {r}) \cup
          {[r EXCEPT !.value = [last |-> last, deleted |-> deleted]]}
    BY <1>2 DEF DD!ReadVersions
  <2>2. UNCHANGED <<last, deleted, status, versions, tab, selected>>
    BY <1>2 DEF DD!ReadVersions, DD!server
  <2> DEFINE value == [last |-> last, deleted |-> deleted]
  <2>3. Had(value)'
    BY <2>2 DEF Had, VersionsInv
  <2>4. [r EXCEPT !.value = value] =
          [number |-> r.number, value |-> value, archive |-> r.archive]
    BY DEF LedgerInv
  <2> HIDE DEF value
  <2>5. \A q \in loads' : q \in loads \/
          q = [number |-> r.number, value |-> value, archive |-> r.archive]
    BY <2>1, <2>4 DEF value
  <2>6. \A q \in loads' : q \in loads \/
          /\ q = [number |-> q.number, value |-> q.value, archive |-> q.archive]
          /\ Had(q.value)'
    <3>1. value' = value
      BY <2>2 DEF value
    <3> QED BY <2>3, <2>5, <3>1
  <2>7. status' = "ready" => Shown
    BY <2>2 DEF LedgerInv, DD!SelectedIsDisplayed
  <2>8. selected' \in 1..last' \cup {None} /\ tab' \in DD!Tabs
        /\ status' \in {"loading", "ready", "error"}
    BY <2>2 DEF LedgerInv
  <2> HIDE DEF Shown
  <2> QED BY <1>a, <2>2, <2>6, <2>7, <2>8
<1>3. CASE DD!VersionsArrive
  <2>1. PICK r \in loads :
          /\ r.value # None /\ loads' = loads \ {r} /\ versions' = r.value
          /\ selected' = DD!SelectEffect(r.value, tab, selected)
    BY <1>3 DEF DD!VersionsArrive
  <2>2. UNCHANGED <<last, deleted, tab>> /\ status' = "ready"
    BY <1>3 DEF DD!VersionsArrive, DD!server
  <2>3. Had(versions') /\ versions'.last \in Nat
    BY <2>1 DEF LedgerInv, Had
  <2>4. Shown
    BY <2>1, <2>2, <2>3, EffectShows
  <2>5. selected' \in 1..last \cup {None}
    BY <2>3, <2>4, DisplayedExist
  <2>6. tab' \in DD!Tabs
    BY <2>2 DEF LedgerInv
  <2>7. Had(versions)' /\ selected' \in 1..last' \cup {None}
    BY <2>2, <2>3, <2>5 DEF Had
  <2>8. \A q \in loads' : q \in loads
    BY <2>1
  <2> HIDE DEF Shown
  <2> QED BY <1>a, <2>2, <2>3, <2>4, <2>6, <2>7, <2>8
<1>4. CASE DD!LoadFails
  <2>1. PICK r \in loads : loads' = loads \ {r}
    BY <1>4 DEF DD!LoadFails
  <2>2. UNCHANGED <<last, deleted, versions, tab, selected>> /\ status' = "error"
    BY <1>4 DEF DD!LoadFails, DD!server, DD!AfterFailure
  <2>3. selected' \in 1..last' \cup {None} /\ tab' \in DD!Tabs
    BY <2>2 DEF LedgerInv
  <2>4. \A q \in loads' : q \in loads
    BY <2>1
  <2> HIDE DEF Shown
  <2> QED BY <1>a, <2>2, <2>3, <2>4
<1>5. CASE DD!handleVersionTabChange \/ DD!onSelectVersion
  <2>1. UNCHANGED <<last, deleted, status, versions, loads>>
    BY <1>5 DEF DD!handleVersionTabChange, DD!onSelectVersion, DD!server
  <2>2. versions.last \in Nat /\ Had(versions)
    BY DEF LedgerInv, Had
  <2>3. Shown /\ tab' \in DD!Tabs
    <3>1. CASE DD!handleVersionTabChange
      <4>1. PICK t \in DD!Tabs : tab' = t /\ \E p : selected' = DD!SelectEffect(versions, t, p)
        BY <3>1 DEF DD!handleVersionTabChange
      <4> QED BY <2>1, <2>2, <4>1, EffectShows
    <3>2. CASE DD!onSelectVersion
      <4>1. tab' = tab /\ selected' \in DD!displayedVersions(versions, tab)
        BY <3>2 DEF DD!onSelectVersion
      <4> QED BY <2>1, <4>1 DEF LedgerInv
    <3> QED BY <1>5, <3>1, <3>2
  <2>4. selected' \in 1..last \cup {None}
    BY <2>1, <2>2, <2>3, DisplayedExist
  <2>5. status' \in {"loading", "ready", "error"}
    BY <2>1 DEF LedgerInv
  <2>6. \A q \in loads' : q \in loads
    BY <2>1
  <2> HIDE DEF Shown
  <2> QED BY <1>a, <2>1, <2>3, <2>4, <2>5, <2>6
<1>6. CASE DD!UploadArrives \/ DD!DeleteArrives \/ DD!onCompleted
  <2>1. /\ \E archive \in BOOLEAN : DD!loadVersions(archive)
        /\ versions' = versions
        /\ tab' \in {"active", "archived", tab}
        /\ selected' \in 1..last \cup {None}
    <3>1. CASE DD!UploadArrives
      <4>1. PICK c \in DD!Answered("upload") : DD!handleVersionUploaded(c.of)
        BY <3>1 DEF DD!UploadArrives
      <4>2. c.of \in 1..last
        BY DEF DD!Answered, RequestsInv
      <4> QED BY <3>1, <4>1, <4>2 DEF DD!UploadArrives, DD!handleVersionUploaded
    <3>2. CASE DD!DeleteArrives
      <4>1. PICK c \in DD!Answered("delete") : DD!Archived(c.of)
        BY <3>2 DEF DD!DeleteArrives
      <4>2. c.of \in 1..last
        BY DEF DD!Answered, RequestsInv
      <4> QED BY <3>2, <4>1, <4>2 DEF DD!DeleteArrives, DD!Archived
    <3>3. CASE DD!onCompleted
      BY <3>3 DEF DD!onCompleted, LedgerInv
    <3> QED BY <1>6, <3>1, <3>2, <3>3
  <2>2. /\ status' = "loading"
        /\ \A r \in loads' : r \in loads \/
             r = [number |-> r.number, value |-> None, archive |-> r.archive]
    BY <2>1, LoadAdded
  <2>3. \A r \in loads' : r \in loads \/
          /\ r = [number |-> r.number, value |-> r.value, archive |-> r.archive]
          /\ r.value = None
    BY <2>2
  <2>4. selected' \in 1..last' \cup {None} /\ tab' \in DD!Tabs
    BY <1>0, <2>1 DEF LedgerInv, DD!Tabs
  <2> HIDE DEF Shown
  <2> QED BY <1>a, <2>1, <2>2, <2>3, <2>4
<1> HIDE DEF Shown, DetailInv
<1> QED BY <1>1, <1>2, <1>3, <1>4, <1>5, <1>6 DEF DD!Next

(* The drawers and the requests of the page.                               *)
LEMMA UploadStep ==
  ASSUME DetailInv, DD!Next \/ UNCHANGED DD!vars
  PROVE  UploadInv'
<1> USE DEF DetailInv
<1> DEFINE U == [open : BOOLEAN, file : BOOLEAN, uploading : BOOLEAN, error : BOOLEAN]
<1>0. DD!NewUpload \in U /\ DD!NewUpload.uploading = FALSE
      /\ \A u \in U : /\ DD!Drawn("loading", u) \in U
                       /\ DD!Drawn("error", u) \in U
                       /\ DD!Drawn("loading", u).uploading = FALSE
                       /\ DD!Drawn("error", u).uploading = FALSE
  BY DEF DD!NewUpload, DD!Drawn, DD!showAdminActions
<1>1. CASE DD!LoadFails \/ DD!DeleteArrives \/ DD!onCompleted
  <2>1. upload' \in {DD!Drawn("loading", upload), DD!Drawn("error", upload)}
    BY <1>1 DEF DD!LoadFails, DD!DeleteArrives, DD!onCompleted, DD!AfterFailure
  <2> QED BY <1>0, <2>1 DEF UploadInv
<1>2. CASE DD!UploadArrives \/ DD!onCloseUpload
  <2>1. upload' = DD!NewUpload
    BY <1>2 DEF DD!UploadArrives, DD!handleVersionUploaded, DD!onCloseUpload
  <2> QED BY <1>0, <2>1 DEF UploadInv
<1>3. CASE DD!NewVersion \/ DD!handleFileChange \/ DD!handleSubmit
  <2>1. status = "ready" /\ status' = status
    BY <1>3 DEF DD!NewVersion, DD!handleFileChange, DD!handleSubmit, DD!UploadShown,
       DD!showAdminActions, DD!register
  <2>2. upload' \in U
    <3>1. CASE DD!NewVersion
      BY <3>1 DEF DD!NewVersion, UploadInv
    <3>2. CASE DD!handleFileChange
      <4>1. PICK b \in BOOLEAN : upload' = [upload EXCEPT !.file = b, !.error = ~b]
        BY <3>2 DEF DD!handleFileChange
      <4> QED BY <4>1 DEF UploadInv
    <3>3. CASE DD!handleSubmit
      BY <3>3 DEF DD!handleSubmit, UploadInv
    <3> QED BY <1>3, <3>1, <3>2, <3>3
  <2>3. upload'.open = TRUE
    <3>1. CASE DD!NewVersion
      BY <3>1 DEF DD!NewVersion, UploadInv
    <3>2. CASE DD!handleFileChange \/ DD!handleSubmit
      <4>1. upload.open = TRUE /\ upload'.open = upload.open
        BY <3>2 DEF DD!handleFileChange, DD!handleSubmit, DD!UploadShown, UploadInv
      <4> QED BY <4>1
    <3> QED BY <1>3, <3>1, <3>2
  <2> QED BY <2>1, <2>2, <2>3 DEF UploadInv
<1>4. CASE DD!CallFails
  <2>1. status' = status /\
        upload' \in {upload, [upload EXCEPT !.uploading = FALSE, !.error = TRUE]}
    BY <1>4 DEF DD!CallFails, DD!register
  <2> QED BY <2>1 DEF UploadInv
<1>5. CASE DD!VersionsArrive
  <2>1. upload' = upload /\ status' = "ready"
    BY <1>5 DEF DD!VersionsArrive
  <2> QED BY <2>1 DEF UploadInv
<1>6. CASE \/ DD!OtherUser \/ DD!ReadVersions \/ DD!handleVersionTabChange
           \/ DD!onSelectVersion \/ DD!openArchiveDrawer \/ DD!onCancel
           \/ DD!onReasonChange \/ DD!handleArchiveConfirm \/ DD!handleDownload
           \/ DD!Serve \/ DD!DownloadArrives \/ DD!OpenReingestion
           \/ DD!CloseReingestion \/ UNCHANGED DD!vars
  <2>1. UNCHANGED <<status, upload>>
    BY <1>6 DEF DD!OtherUser, DD!ReadVersions, DD!handleVersionTabChange,
       DD!onSelectVersion, DD!openArchiveDrawer, DD!onCancel, DD!onReasonChange,
       DD!handleArchiveConfirm, DD!handleDownload, DD!Serve, DD!DownloadArrives,
       DD!OpenReingestion, DD!CloseReingestion, DD!vars, DD!register
  <2> QED BY <2>1 DEF UploadInv
<1> HIDE DEF DetailInv
<1> QED BY <1>1, <1>2, <1>3, <1>4, <1>5, <1>6 DEF DD!Next

LEMMA DialogStep ==
  ASSUME DetailInv, DD!Next \/ UNCHANGED DD!vars
  PROVE  DialogInv'
<1> USE DEF DetailInv
<1>0. 1..last \subseteq 1..last'
  BY VersionsStep, LoadedStays
<1>a. ASSUME NEW a \in 1..last \cup {None}, NEW b \in BOOLEAN, NEW o, NEW e, NEW z,
             dialog' = [archiving |-> a, reason |-> b, of |-> o, error |-> e, busy |-> z],
             b = TRUE => o = a
      PROVE  DialogInv'
  BY <1>0, <1>a DEF DialogInv
<1>b. ASSUME NEW e, NEW z,
             dialog' = [archiving |-> dialog.archiving, reason |-> dialog.reason,
                        of |-> dialog.of, error |-> e, busy |-> z]
      PROVE  DialogInv'
  BY <1>a, <1>b DEF DialogInv
<1>c. ASSUME NEW a \in 1..last \cup {None}, NEW e,
             dialog' = [archiving |-> a, reason |-> FALSE, of |-> dialog.of,
                        error |-> e, busy |-> dialog.busy]
      PROVE  DialogInv'
  BY <1>a, <1>c
<1>1. CASE DD!openArchiveDrawer
  <2>1. selected \in 1..last \cup {None}
    BY DEF LedgerInv
  <2>2. dialog' = [dialog EXCEPT !.archiving = selected, !.reason = FALSE,
                                 !.error = @ \ {selected}]
    BY <1>1 DEF DD!openArchiveDrawer, DD!NoReason
  <2>3. dialog' = [archiving |-> selected, reason |-> FALSE, of |-> dialog.of,
                   error |-> dialog.error \ {selected}, busy |-> dialog.busy]
    BY <2>2 DEF DialogInv
  <2> QED BY <1>c, <2>1, <2>3
<1>2. CASE DD!onCancel \/ DD!DeleteArrives
  <2>1. dialog' = [dialog EXCEPT !.archiving = None, !.reason = FALSE]
    BY <1>2 DEF DD!onCancel, DD!DeleteArrives, DD!Archived
  <2>2. dialog' = [archiving |-> None, reason |-> FALSE, of |-> dialog.of,
                   error |-> dialog.error, busy |-> dialog.busy]
    BY <2>1 DEF DialogInv
  <2> QED BY <1>c, <2>2
<1>3. CASE DD!onReasonChange
  <2>1. PICK b \in BOOLEAN :
          dialog' = [dialog EXCEPT !.reason = b, !.of = dialog.archiving]
    BY <1>3 DEF DD!onReasonChange
  <2>2. dialog' = [archiving |-> dialog.archiving, reason |-> b,
                   of |-> dialog.archiving, error |-> dialog.error,
                   busy |-> dialog.busy]
    BY <2>1 DEF DialogInv
  <2>3. dialog.archiving \in 1..last \cup {None}
    BY DEF DialogInv
  <2> QED BY <1>a, <2>2, <2>3
<1>4. CASE DD!handleArchiveConfirm
  <2>1. \E e, z : dialog' = [dialog EXCEPT !.busy = z, !.error = e]
    <3>1. \/ dialog' = [dialog EXCEPT !.error = @ \cup {dialog.archiving}]
          \/ dialog' = [dialog EXCEPT !.busy = TRUE, !.error = @ \ {dialog.archiving}]
      BY <1>4 DEF DD!handleArchiveConfirm
    <3>2. CASE dialog' = [dialog EXCEPT !.error = @ \cup {dialog.archiving}]
      <4>1. dialog' = [dialog EXCEPT !.busy = dialog.busy,
                                     !.error = dialog.error \cup {dialog.archiving}]
        BY <3>2 DEF DialogInv
      <4> QED BY <4>1
    <3>3. CASE dialog' = [dialog EXCEPT !.busy = TRUE, !.error = @ \ {dialog.archiving}]
      <4>1. dialog' = [dialog EXCEPT !.busy = TRUE,
                                     !.error = dialog.error \ {dialog.archiving}]
        BY <3>3
      <4> QED BY <4>1
    <3> QED BY <3>1, <3>2, <3>3
  <2>2. PICK e, z : dialog' = [dialog EXCEPT !.busy = z, !.error = e]
    BY <2>1
  <2>3. dialog' = [archiving |-> dialog.archiving, reason |-> dialog.reason,
                   of |-> dialog.of, error |-> e, busy |-> z]
    BY <2>2 DEF DialogInv
  <2> QED BY <1>b, <2>3
<1>5. CASE DD!VersionsArrive \/ DD!LoadFails
  <2>1. dialog' = dialog \/ dialog' = [dialog EXCEPT !.busy = FALSE]
    BY <1>5 DEF DD!VersionsArrive, DD!LoadFails
  <2>2. \E z : dialog' = [archiving |-> dialog.archiving, reason |-> dialog.reason,
                          of |-> dialog.of, error |-> dialog.error, busy |-> z]
    BY <2>1 DEF DialogInv
  <2> QED BY <1>b, <2>2
<1>6. CASE DD!CallFails
  <2>1. PICK c \in calls : dialog' = dialog \/
          dialog' = [dialog EXCEPT !.busy = FALSE, !.error = @ \cup {c.of}]
    BY <1>6 DEF DD!CallFails
  <2>2. \E e, z : dialog' = [archiving |-> dialog.archiving, reason |-> dialog.reason,
                             of |-> dialog.of, error |-> e, busy |-> z]
    BY <2>1 DEF DialogInv
  <2> QED BY <1>b, <2>2
<1>7. CASE \/ DD!OtherUser \/ DD!ReadVersions \/ DD!handleVersionTabChange
           \/ DD!onSelectVersion \/ DD!NewVersion \/ DD!onCloseUpload
           \/ DD!handleFileChange \/ DD!handleSubmit \/ DD!handleDownload \/ DD!Serve
           \/ DD!UploadArrives \/ DD!DownloadArrives \/ DD!OpenReingestion
           \/ DD!CloseReingestion \/ DD!onCompleted \/ UNCHANGED DD!vars
  <2>1. dialog' = dialog
    BY <1>7 DEF DD!OtherUser, DD!ReadVersions, DD!handleVersionTabChange,
       DD!onSelectVersion, DD!NewVersion, DD!onCloseUpload, DD!handleFileChange,
       DD!handleSubmit, DD!handleDownload, DD!Serve, DD!UploadArrives,
       DD!DownloadArrives, DD!OpenReingestion, DD!CloseReingestion, DD!onCompleted,
       DD!vars
  <2> QED BY <1>0, <2>1 DEF DialogInv
<1> HIDE DEF DetailInv
<1> QED BY <1>1, <1>2, <1>3, <1>4, <1>5, <1>6, <1>7 DEF DD!Next

LEMMA RequestsStep ==
  ASSUME DetailInv, DD!Next \/ UNCHANGED DD!vars
  PROVE  RequestsInv'
<1> USE DEF DetailInv
<1>0. 1..last \subseteq 1..last' /\ VersionsInv'
  BY VersionsStep, LoadedStays
<1> DEFINE Fits(c) ==
      /\ c = [kind |-> c.kind, of |-> c.of, by |-> c.by, reasonOf |-> c.reasonOf,
              got |-> c.got]
      /\ c.kind \in {"upload", "delete", "download"}
      /\ c.of \in 1..last' \cup {None}
      /\ c.kind = "delete" => c.of \in 1..last' /\ c.reasonOf = c.of
      /\ c.kind = "upload" /\ c.got = "done" => c.of \in 1..last'
<1>a. \A c \in calls : Fits(c)
  BY <1>0 DEF RequestsInv
<1>b. ASSUME \A c \in calls' : Fits(c) PROVE RequestsInv'
  BY <1>b DEF RequestsInv
<1>c. ASSUME NEW kind \in {"upload", "delete", "download"}, NEW v,
             v \in 1..last \cup {None}, kind = "delete" => v \in 1..last,
             kind = "delete" => dialog.of = v, calls' = calls \cup {DD!Call(kind, v)}
      PROVE  RequestsInv'
  <2>1. DD!Call(kind, v) = [kind |-> kind, of |-> v, by |-> acts, reasonOf |-> dialog.of,
                            got |-> "pending"]
    BY DEF DD!Call
  <2>2. Fits(DD!Call(kind, v))
    BY <1>0, <1>c, <2>1
  <2> HIDE DEF Fits
  <2> QED BY <1>a, <1>b, <1>c, <2>2
<1>1. CASE DD!handleSubmit
  BY <1>1, <1>c DEF DD!handleSubmit
<1>2. CASE DD!handleDownload
  <2>1. selected \in 1..last \cup {None} /\ calls' = calls \cup {DD!Call("download", selected)}
    BY <1>2 DEF DD!handleDownload, LedgerInv
  <2> QED BY <1>c, <2>1
<1>3. CASE DD!handleArchiveConfirm
  <2>1. CASE calls' = calls
    BY <1>a, <1>b, <2>1
  <2>2. CASE calls' # calls
    <3>1. dialog.reason = TRUE /\ calls' = calls \cup {DD!Call("delete", dialog.archiving)}
      BY <1>3, <2>2 DEF DD!handleArchiveConfirm, DialogInv
    <3>2. dialog.archiving \in 1..last
      <4>1. dialog.archiving \in DD!displayedVersions(versions, "active")
        BY <1>3 DEF DD!handleArchiveConfirm, DD!displayedVersions
      <4> QED BY <4>1, DisplayedExist DEF LedgerInv
    <3>3. dialog.of = dialog.archiving
      BY <3>1 DEF DialogInv
    <3> QED BY <1>c, <3>1, <3>2, <3>3
  <2> QED BY <2>1, <2>2
<1>4. CASE DD!Serve
  <2>1. PICK c \in calls :
          \/ /\ c.kind = "upload" /\ last' = last + 1
             /\ calls' = (calls \ {c}) \cup {[c EXCEPT !.got = "done", !.of = last + 1]}
          \/ /\ c.kind \in {"delete", "download"} /\ last' = last
             /\ calls' = (calls \ {c}) \cup {[c EXCEPT !.got = "done"]}
    BY <1>4 DEF DD!Serve, DD!server
  <2>2. c = [kind |-> c.kind, of |-> c.of, by |-> c.by, reasonOf |-> c.reasonOf,
             got |-> c.got]
    BY DEF RequestsInv
  <2>3. CASE c.kind = "upload"
    <3> DEFINE d == [c EXCEPT !.got = "done", !.of = last + 1]
    <3>1. d = [kind |-> "upload", of |-> last + 1, by |-> c.by, reasonOf |-> c.reasonOf,
               got |-> "done"]
      <4> DEFINE e == [c EXCEPT !.got = "done"]
      <4>1. e = [kind |-> c.kind, of |-> c.of, by |-> c.by, reasonOf |-> c.reasonOf,
                 got |-> "done"]
        BY <2>2
      <4>2. d = [e EXCEPT !.of = last + 1]
        OBVIOUS
      <4>3. d = [kind |-> c.kind, of |-> last + 1, by |-> c.by, reasonOf |-> c.reasonOf,
                 got |-> "done"]
        <5> HIDE DEF e, d
        <5> QED BY <4>1, <4>2
      <4> HIDE DEF d
      <4> QED BY <2>3, <4>3
    <3>2. last + 1 \in 1..last'
      BY <2>1, <2>3 DEF VersionsInv
    <3>3. calls' = (calls \ {c}) \cup {d}
      BY <2>1, <2>3
    <3> HIDE DEF d
    <3>4. Fits(d)
      BY <3>1, <3>2
    <3> HIDE DEF Fits
    <3> QED BY <1>a, <1>b, <3>3, <3>4
  <2>4. CASE c.kind # "upload"
    <3> DEFINE d == [c EXCEPT !.got = "done"]
    <3>1. d = [kind |-> c.kind, of |-> c.of, by |-> c.by, reasonOf |-> c.reasonOf,
               got |-> "done"]
      BY <2>2
    <3>3. calls' = (calls \ {c}) \cup {d}
      BY <2>1, <2>4
    <3> HIDE DEF d
    <3>4. Fits(d)
      BY <1>a, <2>4, <3>1
    <3> HIDE DEF Fits
    <3> QED BY <1>a, <1>b, <3>3, <3>4
  <2> QED BY <2>3, <2>4
<1>5. CASE \/ DD!UploadArrives \/ DD!DeleteArrives \/ DD!DownloadArrives
           \/ DD!CallFails \/ DD!OtherUser \/ DD!ReadVersions \/ DD!VersionsArrive
           \/ DD!LoadFails \/ DD!handleVersionTabChange \/ DD!onSelectVersion
           \/ DD!NewVersion \/ DD!onCloseUpload \/ DD!handleFileChange
           \/ DD!openArchiveDrawer \/ DD!onCancel \/ DD!onReasonChange
           \/ DD!OpenReingestion \/ DD!CloseReingestion \/ DD!onCompleted
           \/ UNCHANGED DD!vars
  <2>1. calls' = calls \/ \E c : calls' = calls \ {c}
    BY <1>5 DEF DD!UploadArrives, DD!DeleteArrives, DD!DownloadArrives, DD!CallFails,
       DD!OtherUser, DD!ReadVersions, DD!VersionsArrive, DD!LoadFails,
       DD!handleVersionTabChange, DD!onSelectVersion, DD!NewVersion, DD!onCloseUpload,
       DD!handleFileChange, DD!openArchiveDrawer, DD!onCancel, DD!onReasonChange,
       DD!OpenReingestion, DD!CloseReingestion, DD!onCompleted, DD!vars
  <2>2. \A c \in calls' : c \in calls
    BY <2>1
  <2> HIDE DEF Fits
  <2> QED BY <1>a, <1>b, <2>2
<1> HIDE DEF DetailInv, Fits
<1> QED BY <1>1, <1>2, <1>3, <1>4, <1>5 DEF DD!Next

LEMMA DetailStep == DetailInv /\ (DD!Next \/ UNCHANGED DD!vars) => DetailInv'
BY VersionsStep, LedgerStep, UploadStep, DialogStep, RequestsStep DEF DetailInv

LEMMA DetailMeans ==
  DetailInv => DD!TypeOK /\ DD!SelectedIsDisplayed /\ DD!ReasonOfItsVersion
<1> SUFFICES ASSUME DetailInv
             PROVE  DD!TypeOK /\ DD!SelectedIsDisplayed /\ DD!ReasonOfItsVersion
  OBVIOUS
<1> USE DEF DetailInv
<1>1. /\ deleted \subseteq 1..last /\ status \in {"loading", "ready", "error"}
      /\ versions.last <= last /\ versions.deleted \subseteq deleted
      /\ tab \in DD!Tabs /\ selected \in 1..last \cup {None}
  BY DEF VersionsInv, LedgerInv, Had
<1>2. dialog.archiving \in 1..last \cup {None}
  BY DEF DialogInv
<1>3. upload.uploading => DD!UploadShown
  BY DEF UploadInv, DD!UploadShown, DD!showAdminActions
<1>4. \A c \in calls : c.of \in 1..last \cup {None}
  BY DEF RequestsInv
<1>5. DD!ReasonOfItsVersion
  BY DEF RequestsInv, DD!ReasonOfItsVersion
<1> QED BY <1>1, <1>2, <1>3, <1>4, <1>5 DEF DD!TypeOK, LedgerInv

-----------------------------------------------------------------------------
(* The Policy Versions.                                                    *)

Once(s) == \A i, j \in 1..Len(s) : s[i] = s[j] => i = j
In(s, S) == \A i \in 1..Len(s) : s[i] \in S
Names(s) == {s[i] : i \in 1..Len(s)}

LEMMA SequenceFacts ==
  ASSUME NEW s \in Seq(Ids)
  PROVE  /\ PV!ToSet(s) = Names(s) /\ Names(s) \subseteq Ids
         /\ PV!IsInjective(s) <=> Once(s)
<1>1. DOMAIN s = 1..Len(s) /\ \A i \in 1..Len(s) : s[i] \in Ids
  BY LenProperties, ElementOfSeq
<1>2. PV!ToSet(s) = Names(s) /\ Names(s) \subseteq Ids
  BY <1>1 DEF PV!ToSet, Names
<1>3. PV!IsInjective(s) <=> Once(s)
  BY <1>1 DEF PV!IsInjective, Once
<1> QED BY <1>2, <1>3

(* One more id before those of a list that does not have it.               *)
LEMMA PutFirst ==
  ASSUME NEW s \in Seq(Ids), NEW id \in Ids, Once(s), id \notin Names(s)
  PROVE  /\ <<id>> \o s \in Seq(Ids) /\ Once(<<id>> \o s)
         /\ Names(<<id>> \o s) = {id} \cup Names(s)
<1> DEFINE one == <<id>>
<1>1. one \in Seq(Ids) /\ Len(one) = 1 /\ one[1] = id
  OBVIOUS
<1>2. Len(s) \in Nat
  BY LenProperties
<1> HIDE DEF one
<1> DEFINE t == one \o s
<1>3. /\ t \in Seq(Ids) /\ Len(t) = 1 + Len(s)
      /\ \A i \in 1..1 + Len(s) : t[i] = IF i <= 1 THEN one[i] ELSE s[i - 1]
  <2>1. /\ one \o s \in Seq(Ids) /\ Len(one \o s) = Len(one) + Len(s)
        /\ \A i \in 1..Len(one) + Len(s) :
             (one \o s)[i] = IF i <= Len(one) THEN one[i] ELSE s[i - Len(one)]
    BY <1>1, ConcatProperties
  <2> QED BY <1>1, <2>1
<1> HIDE DEF t
<1>4. t[1] = id /\ \A i \in 2..1 + Len(s) : i - 1 \in 1..Len(s) /\ t[i] = s[i - 1]
  BY <1>1, <1>2, <1>3
<1>5. \A i \in 1..Len(t) : i = 1 \/ i \in 2..1 + Len(s)
  BY <1>2, <1>3
<1>6. \A i \in 2..1 + Len(s) : t[i] \in Names(s)
  BY <1>4 DEF Names
<1>7. Once(t)
  <2>1. \A i, j \in 2..1 + Len(s) : t[i] = t[j] => i = j
    <3>1. TAKE i, j \in 2..1 + Len(s)
    <3>2. HAVE t[i] = t[j]
    <3>3. i - 1 = j - 1
      BY <1>4, <3>2 DEF Once
    <3> QED BY <1>2, <3>3
  <2>2. \A i \in 2..1 + Len(s) : t[i] # t[1]
    BY <1>4, <1>6
  <2> QED BY <1>5, <2>1, <2>2 DEF Once
<1>8. Names(t) = {id} \cup Names(s)
  <2>1. Names(t) \subseteq {id} \cup Names(s)
    BY <1>4, <1>5, <1>6 DEF Names
  <2>2. \A i \in 1..Len(s) : i + 1 \in 1..Len(t) /\ t[i + 1] = s[i]
    <3>1. TAKE i \in 1..Len(s)
    <3>2. i + 1 \in 2..1 + Len(s) /\ i + 1 - 1 = i /\ i + 1 \in 1..Len(t)
      BY <1>2, <1>3
    <3>3. t[i + 1] = s[i + 1 - 1]
      BY <1>4, <3>2
    <3> QED BY <3>2, <3>3
  <2>3. 1 \in 1..Len(t)
    BY <1>2, <1>3
  <2>4. {id} \cup Names(s) \subseteq Names(t)
    BY <1>4, <2>2, <2>3 DEF Names
  <2> QED BY <2>1, <2>4
<1> QED BY <1>3, <1>7, <1>8 DEF t, one

(* The optimistic list has the new version first, and each one once.       *)
LEMMA PrependedOnce ==
  ASSUME list.items \in Seq(Ids), Once(list.items), NEW id \in Ids
  PROVE  /\ PV!Prepended(id) \in Seq(Ids) /\ Once(PV!Prepended(id))
         /\ Names(PV!Prepended(id)) \subseteq {id} \cup Names(list.items)
<1> DEFINE s == list.items  P == PV!OthersAt(id)
           At(k) == CHOOSE i \in P : PV!Cardinality({j \in P : j <= i}) = k
           t == [k \in 1..Cardinality(P) |-> s[PositionAt(P, k)]]
<1>1. DOMAIN s = 1..Len(s) /\ Len(s) \in Nat /\ \A i \in 1..Len(s) : s[i] \in Ids
  BY LenProperties, ElementOfSeq
<1>2. P \in SUBSET (1..Len(s)) /\ \A i \in P : s[i] # id
  BY <1>1 DEF PV!OthersAt
<1>3. PV!Cardinality(P) = Cardinality(P) /\
      \A i \in P : PV!Cardinality({j \in P : j <= i}) = Cardinality({j \in P : j <= i})
  BY DEF PV!Cardinality, Cardinality
<1>4. \A k : PositionAt(P, k) = At(k)
  BY <1>3 DEF PositionAt
<1>5. PV!Prepended(id) = <<id>> \o t
  <2>1. PV!Prepended(id) = <<id>> \o [k \in 1..PV!Cardinality(P) |-> s[At(k)]]
    BY DEF PV!Prepended
  <2> HIDE DEF At, P
  <2> QED BY <1>3, <1>4, <2>1
<1> HIDE DEF s, P, At
<1>6. /\ Cardinality(P) \in Nat
      /\ \A k \in 1..Cardinality(P) : PositionAt(P, k) \in P
      /\ \A j, k \in 1..Cardinality(P) : PositionAt(P, j) = PositionAt(P, k) => j = k
  BY <1>1, <1>2, InOrder
<1>7. \A k \in 1..Cardinality(P) : PositionAt(P, k) \in 1..Len(s) /\ s[PositionAt(P, k)] # id
                                   /\ s[PositionAt(P, k)] \in Ids
  BY <1>1, <1>2, <1>6
<1>8. t \in Seq(Ids) /\ Len(t) = Cardinality(P)
      /\ \A k \in 1..Cardinality(P) : t[k] = s[PositionAt(P, k)]
  BY <1>6, <1>7
<1> HIDE DEF t
<1>9. Once(t)
  BY <1>6, <1>7, <1>8 DEF Once, s
<1>10. Names(t) \subseteq Names(s) /\ id \notin Names(t)
  BY <1>7, <1>8 DEF Names
<1> QED BY <1>5, <1>8, <1>9, <1>10, PutFirst DEF s

(* The server: a version is published once, and its set is made once.      *)
PublishedInv ==
  /\ published \in Seq(Ids) /\ Once(published)
  /\ made \in Nat /\ sets \in [Ids -> 0..made]
(* A list names versions that are published, each of them once.            *)
Listed(s) == s \in Seq(Ids) /\ Once(s) /\ Names(s) \subseteq Names(published)
ListingInv ==
  /\ list = [status |-> list.status, items |-> list.items]
  /\ list.status \in {"loading", "ready", "error"}
  /\ Listed(list.items)
  /\ \A r \in loads : /\ r = [initial |-> r.initial, number |-> r.number,
                              value |-> r.value]
                      /\ r.value = None \/ Listed(r.value)
PostsInv ==
  /\ form = [id |-> form.id, summary |-> form.summary,
             publishing |-> form.publishing, error |-> form.error,
             instance |-> form.instance]
  /\ form.id \in Ids \cup {None}
  /\ \A p \in posts :
       /\ p = [id |-> p.id, form |-> p.form, number |-> p.number, got |-> p.got]
       /\ p.id \in Ids
       /\ p.got = "published" => p.id \in Names(published)
(* What is loaded of a version is of the one selected; a set that is shown *)
(* or answered is the one the server has.                                  *)
Held(v, n) == v \in Ids /\ n \in Nat /\ n # 0 /\ sets[v] = n
OpenedInv ==
  /\ selected \in Ids \cup {None}
  /\ detail = [status |-> detail.status, snapshot |-> detail.snapshot,
               set |-> detail.set, busy |-> detail.busy, failed |-> detail.failed,
               instance |-> detail.instance, overtaken |-> detail.overtaken]
  /\ detail.status \in {"closed", "loading", "ready", "error"}
  /\ selected = None <=> detail.status = "closed"
  /\ selected = None => detail = PV!NoDetail
  /\ detail.busy \subseteq PV!Work /\ detail.failed \subseteq PV!Work
  /\ detail.status = "ready" => detail.snapshot = selected
  /\ detail.set # None => Held(detail.set.of, detail.set.n)
  /\ reply # None =>
       /\ reply = [of |-> reply.of, set |-> reply.set]
       /\ selected # None /\ reply.of = selected
       /\ reply.set = None \/ reply.set = 0 \/ Held(reply.of, reply.set)
JobsInv ==
  \A j \in jobs :
    /\ j = [work |-> j.work, of |-> j.of, detail |-> j.detail, got |-> j.got]
    /\ j.work \in PV!Work /\ j.of \in Ids
    /\ j.got = 0 \/ Held(j.of, j.got)
(* The set that is shown, or will be when a compilation ends, is of the    *)
(* version shown or of one that was overtaken; a page that is opened has   *)
(* no compilation yet.                                                     *)
Crossed(o) == o \in {selected} \cup detail.overtaken
CrossedInv ==
  /\ visits \in Nat
  /\ \A j \in jobs : /\ j.detail \in Nat /\ j.detail <= visits
                     /\ j.work = "compile" /\ PV!SameInstance(j) => Crossed(j.of)
  /\ selected # None => detail.instance \in Nat /\ detail.instance <= visits
  /\ detail.set # None => Crossed(detail.set.of)
PublicationInv ==
  PublishedInv /\ ListingInv /\ PostsInv /\ OpenedInv /\ JobsInv /\ CrossedInv

LEMMA PublicationInit == PV!Init => PublicationInv
<1> SUFFICES ASSUME PV!Init PROVE PublicationInv
  OBVIOUS
<1>1. Published \in Seq(Ids) /\ Once(Published) /\ None \notin Ids
  BY PagesAssumption, SequenceFacts DEF PV!IdAssumption
<1>2. PublishedInv
  BY <1>1 DEF PV!Init, PublishedInv
<1>3. /\ published = Published
      /\ list = [status |-> "loading", items |-> <<>>]
      /\ loads = {[initial |-> TRUE, number |-> 0, value |-> None]}
      /\ form = PV!NewForm /\ posts = {} /\ jobs = {}
      /\ selected = None /\ detail = PV!NoDetail /\ reply = None
  BY DEF PV!Init
<1>4. Listed(<<>>)
  <2>1. <<>> \in Seq(Ids) /\ Len(<<>>) = 0
    BY EmptySeq
  <2> QED BY <2>1 DEF Listed, Once, Names
<1>5. ListingInv
  BY <1>3, <1>4 DEF ListingInv
<1>6. PostsInv
  BY <1>3 DEF PostsInv, PV!NewForm
<1>7. OpenedInv
  BY <1>3 DEF OpenedInv, PV!NoDetail
<1>8. JobsInv
  BY <1>3 DEF JobsInv
<1>9. CrossedInv
  BY <1>3 DEF CrossedInv, PV!Init, PV!NoDetail
<1> QED BY <1>2, <1>5, <1>6, <1>7, <1>8, <1>9 DEF PublicationInv

(* A version that is published stays published, a set that is made stays.  *)
Grows ==
  /\ PublishedInv'
  /\ Names(published) \subseteq Names(published')
  /\ \A v \in Ids : sets[v] # 0 => sets'[v] = sets[v]

LEMMA Publishes ==
  ASSUME PublishedInv, NEW id \in Ids, PV!IsNew(id), PV!Publish(id)
  PROVE  Grows /\ id \in Names(published')
<1>1. id \notin Names(published)
  BY SequenceFacts DEF PV!IsNew, PublishedInv
<1>2. published' = <<id>> \o published /\ UNCHANGED <<sets, made>>
  BY DEF PV!Publish
<1>3. published' \in Seq(Ids) /\ Once(published')
      /\ Names(published') = {id} \cup Names(published)
  BY <1>1, <1>2, PutFirst DEF PublishedInv
<1> QED BY <1>2, <1>3 DEF Grows, PublishedInv

LEMMA Compiles ==
  ASSUME PublishedInv, NEW v \in Ids, PV!Compile(v)
  PROVE  /\ Grows /\ PV!CompiledSet(v) \in Nat /\ PV!CompiledSet(v) # 0
         /\ sets'[v] = PV!CompiledSet(v) /\ published' = published
<1>1. made \in Nat /\ sets[v] \in 0..made
  BY DEF PublishedInv
<1> DEFINE n == PV!CompiledSet(v)
<1>2. n \in Nat /\ n # 0 /\ (sets[v] # 0 => n = sets[v]) /\ n <= made + 1
  BY <1>1 DEF PV!CompiledSet
<1>3. /\ sets' = [sets EXCEPT ![v] = n]
      /\ made' = IF n > made THEN n ELSE made
      /\ published' = published
  BY DEF PV!Compile
<1> HIDE DEF n
<1>4. made' \in Nat /\ made <= made' /\ n \in 0..made'
  BY <1>1, <1>2, <1>3
<1>5. sets' \in [Ids -> 0..made']
  <2>1. 0..made \subseteq 0..made'
    BY <1>1, <1>4
  <2>2. sets \in [Ids -> 0..made]
    BY DEF PublishedInv
  <2> QED BY <1>3, <1>4, <2>1, <2>2
<1>6. \A w \in Ids : sets[w] # 0 => sets'[w] = sets[w]
  BY <1>2, <1>3 DEF PublishedInv
<1>7. sets'[v] = n
  BY <1>3 DEF PublishedInv
<1>8. PublishedInv'
  BY <1>3, <1>4, <1>5 DEF PublishedInv
<1> QED BY <1>2, <1>3, <1>6, <1>7, <1>8 DEF Grows, n

LEMMA ServerStep ==
  ASSUME PublicationInv, PV!Next \/ UNCHANGED PV!vars
  PROVE  Grows
<1> USE DEF PublicationInv
<1>1. CASE PV!OtherUser
  <2>1. CASE \E id \in Ids : PV!IsNew(id) /\ PV!Publish(id)
    BY <2>1, Publishes
  <2>2. CASE \E v \in PV!ToSet(published) : PV!Compile(v)
    <3>1. PV!ToSet(published) \subseteq Ids
      BY SequenceFacts DEF PublishedInv
    <3> QED BY <2>2, <3>1, Compiles
  <2> QED BY <1>1, <2>1, <2>2 DEF PV!OtherUser
<1>2. CASE PV!PublishAnswered
  <2>1. PICK p \in posts : \/ PV!IsNew(p.id) /\ PV!Publish(p.id)
                           \/ UNCHANGED PV!server
    BY <1>2 DEF PV!PublishAnswered
  <2>2. p.id \in Ids
    BY DEF PostsInv
  <2>3. CASE UNCHANGED PV!server
    BY <2>3 DEF PV!server, Grows, PublishedInv
  <2> QED BY <2>1, <2>2, <2>3, Publishes
<1>3. CASE PV!CompileAnswered
  <2>1. PICK j \in jobs : PV!Compile(j.of)
    BY <1>3 DEF PV!CompileAnswered
  <2> QED BY <2>1, Compiles DEF JobsInv
<1>4. CASE \/ PV!ReadList \/ PV!ListArrives \/ PV!ListFails \/ PV!ToggleDrawer
           \/ PV!onClose \/ PV!Fill \/ PV!handlePublish \/ PV!PublishArrives
           \/ PV!PublishFails \/ PV!OpenVersion \/ PV!onBack \/ PV!ReadVersion
           \/ PV!VersionArrives \/ PV!VersionFails
           \/ (\E w \in PV!Work : PV!Start(w)) \/ PV!JobEnds \/ UNCHANGED PV!vars
  <2>1. UNCHANGED <<published, sets, made>>
    BY <1>4 DEF PV!ReadList, PV!ListArrives, PV!ListFails, PV!ToggleDrawer,
       PV!onClose, PV!Fill, PV!handlePublish, PV!PublishArrives, PV!PublishFails,
       PV!OpenVersion, PV!onBack, PV!ReadVersion, PV!VersionArrives,
       PV!VersionFails, PV!Start, PV!JobEnds, PV!vars, PV!server
  <2> QED BY <2>1 DEF Grows, PublishedInv
<1> HIDE DEF PublicationInv
<1> QED BY <1>1, <1>2, <1>3, <1>4 DEF PV!Next

(* What was so of versions and sets stays so.                              *)
LEMMA StaysHeld ==
  ASSUME Grows
  PROVE  /\ \A s : Listed(s) => Listed(s)'
         /\ \A v, n : Held(v, n) => Held(v, n)'
<1>1. \A s : Listed(s) => Listed(s)'
  BY DEF Grows, Listed
<1>2. \A v, n : Held(v, n) => Held(v, n)'
  BY DEF Grows, Held
<1> QED BY <1>1, <1>2

LEMMA ListingStep ==
  ASSUME PublicationInv, PV!Next \/ UNCHANGED PV!vars
  PROVE  ListingInv'
<1> USE DEF PublicationInv
<1>0. Grows /\ \A s : Listed(s) => Listed(s)'
  BY ServerStep, StaysHeld
<1>a. ASSUME NEW st \in {"loading", "ready", "error"}, NEW s,
             list' = [status |-> st, items |-> s], Listed(s),
             \A r \in loads' : r \in loads \/
               /\ r = [initial |-> r.initial, number |-> r.number, value |-> r.value]
               /\ r.value = None \/ Listed(r.value)
      PROVE  ListingInv'
  <2>1. \A r \in loads' :
          /\ r = [initial |-> r.initial, number |-> r.number, value |-> r.value]
          /\ r.value = None \/ Listed(r.value)'
    BY <1>0, <1>a DEF ListingInv
  <2>2. list'.status = st /\ list'.items = s
    BY <1>a
  <2>3. Listed(s)'
    BY <1>0, <1>a
  <2>4. Listed(list.items)'
    BY <2>2, <2>3 DEF Listed
  <2> QED BY <1>a, <2>1, <2>2, <2>4 DEF ListingInv
<1>b. /\ list = [status |-> list.status, items |-> list.items] /\ Listed(list.items)
      /\ list.status \in {"loading", "ready", "error"}
  BY DEF ListingInv
<1>1. CASE PV!ReadList
  <2>1. PICK r \in loads : loads' = (loads \ {r}) \cup {[r EXCEPT !.value = published]}
    BY <1>1 DEF PV!ReadList
  <2>2. [r EXCEPT !.value = published] =
          [initial |-> r.initial, number |-> r.number, value |-> published]
    BY DEF ListingInv
  <2>3. Listed(published)
    BY DEF Listed, PublishedInv
  <2>4. list' = list
    BY <1>1 DEF PV!ReadList
  <2>5. \A q \in loads' : q \in loads \/
          q = [initial |-> r.initial, number |-> r.number, value |-> published]
    BY <2>1, <2>2
  <2> HIDE DEF PublicationInv
  <2> QED BY <1>a, <1>b, <2>3, <2>4, <2>5
<1>2. CASE PV!ListArrives
  <2>1. PICK r \in loads : /\ r.value # None /\ loads' = loads \ {r}
                           /\ list' = [status |-> "ready", items |-> r.value]
    BY <1>2 DEF PV!ListArrives
  <2>2. Listed(r.value)
    BY <2>1 DEF ListingInv
  <2> QED BY <1>a, <2>1, <2>2
<1>3. CASE PV!ListFails
  <2>1. PICK r \in loads : /\ loads' = loads \ {r}
          /\ list' = IF r.initial THEN [list EXCEPT !.status = "error"] ELSE list
    BY <1>3 DEF PV!ListFails, PV!AfterFailure
  <2>2. [list EXCEPT !.status = "error"] = [status |-> "error", items |-> list.items]
    BY <1>b
  <2>3. list' \in {[status |-> "error", items |-> list.items],
                   [status |-> list.status, items |-> list.items]}
    BY <1>b, <2>1, <2>2
  <2> QED BY <1>a, <1>b, <2>1, <2>3
<1>4. CASE PV!PublishArrives
  <2>1. PICK p \in posts : p.got = "published" /\ PV!handlePublished(p.id)
    BY <1>4 DEF PV!PublishArrives, PV!Succeeded
  <2>2. p.id \in Ids /\ p.id \in Names(published)
    BY <2>1 DEF PostsInv
  <2>3. /\ list' = [status |-> "ready", items |-> PV!Prepended(p.id)]
        /\ \E n : loads' = loads \cup {[initial |-> FALSE, number |-> n, value |-> None]}
    BY <2>1 DEF PV!handlePublished
  <2>4. Listed(PV!Prepended(p.id))
    BY <2>2, PrependedOnce DEF ListingInv, Listed
  <2> QED BY <1>a, <2>3, <2>4
<1>5. CASE \/ PV!OtherUser \/ PV!ToggleDrawer \/ PV!onClose \/ PV!Fill
           \/ PV!handlePublish \/ PV!PublishAnswered \/ PV!PublishFails
           \/ PV!OpenVersion \/ PV!onBack \/ PV!ReadVersion \/ PV!VersionArrives
           \/ PV!VersionFails \/ (\E w \in PV!Work : PV!Start(w))
           \/ PV!CompileAnswered \/ PV!JobEnds \/ UNCHANGED PV!vars
  <2>1. UNCHANGED <<list, loads>>
    BY <1>5 DEF PV!OtherUser, PV!ToggleDrawer, PV!onClose, PV!Fill,
       PV!handlePublish, PV!PublishAnswered, PV!PublishFails, PV!OpenVersion,
       PV!onBack, PV!ReadVersion, PV!VersionArrives, PV!VersionFails, PV!Start,
       PV!CompileAnswered, PV!JobEnds, PV!vars, PV!catalog
  <2> HIDE DEF PublicationInv
  <2> QED BY <1>a, <1>b, <2>1
<1> HIDE DEF PublicationInv
<1> QED BY <1>1, <1>2, <1>3, <1>4, <1>5 DEF PV!Next

LEMMA PostsStep ==
  ASSUME PublicationInv, PV!Next \/ UNCHANGED PV!vars
  PROVE  PostsInv'
<1> USE DEF PublicationInv
<1>0. Names(published) \subseteq Names(published')
  BY ServerStep DEF Grows
<1> DEFINE FormIs(f) == /\ f = [id |-> f.id, summary |-> f.summary,
                                publishing |-> f.publishing, error |-> f.error,
                                instance |-> f.instance]
                        /\ f.id \in Ids \cup {None}
           PostIs(p) == /\ p = [id |-> p.id, form |-> p.form, number |-> p.number,
                                got |-> p.got]
                        /\ p.id \in Ids
                        /\ p.got = "published" => p.id \in Names(published')
<1>a. FormIs(form) /\ (\A p \in posts : PostIs(p)) /\ FormIs(PV!NewForm)
  BY <1>0 DEF PostsInv, PV!NewForm
<1>b. ASSUME FormIs(form'), \A p \in posts' : PostIs(p) PROVE PostsInv'
  BY <1>b DEF PostsInv
<1>1. CASE PV!handlePublish
  <2>1. CASE form' = [form EXCEPT !.error = TRUE] /\ posts' = posts
    <3>1. FormIs(form')
      BY <2>1 DEF PostsInv
    <3> HIDE DEF FormIs, PostIs
    <3> QED BY <1>a, <1>b, <2>1, <3>1
  <2>2. CASE /\ form.id # None
             /\ form' = [form EXCEPT !.publishing = TRUE, !.error = FALSE]
             /\ posts' = posts \cup {[id |-> form.id, form |-> form.instance,
                                      number |-> publishes, got |-> "pending"]}
    <3>1. FormIs(form')
      BY <2>2 DEF PostsInv
    <3> DEFINE q == [id |-> form.id, form |-> form.instance, number |-> publishes,
                     got |-> "pending"]
    <3>2. PostIs(q)
      BY <2>2 DEF PostsInv
    <3>3. posts' = posts \cup {q}
      BY <2>2
    <3> HIDE DEF FormIs, PostIs, q
    <3> QED BY <1>a, <1>b, <3>1, <3>2, <3>3
  <2>3. \/ form' = [form EXCEPT !.error = TRUE] /\ posts' = posts
        \/ /\ form.id # None
           /\ form' = [form EXCEPT !.publishing = TRUE, !.error = FALSE]
           /\ posts' = posts \cup {[id |-> form.id, form |-> form.instance,
                                    number |-> publishes, got |-> "pending"]}
    BY <1>1 DEF PV!handlePublish
  <2> HIDE DEF PublicationInv
  <2> QED BY <2>1, <2>2, <2>3
<1>2. CASE PV!PublishAnswered
  <2>1. PICK p \in posts :
          \/ /\ PV!IsNew(p.id) /\ PV!Publish(p.id)
             /\ posts' = (posts \ {p}) \cup {[p EXCEPT !.got = "published"]}
          \/ posts' = (posts \ {p}) \cup {[p EXCEPT !.got = "refused"]}
    BY <1>2 DEF PV!PublishAnswered
  <2>2. form' = form
    BY <1>2 DEF PV!PublishAnswered, PV!drawer
  <2>3. p = [id |-> p.id, form |-> p.form, number |-> p.number, got |-> p.got]
        /\ p.id \in Ids
    BY DEF PostsInv
  <2>4. PICK g \in {"published", "refused"} :
          /\ posts' = (posts \ {p}) \cup {[p EXCEPT !.got = g]}
          /\ g = "published" => p.id \in Names(published')
    BY <2>1, <2>3, Publishes
  <2> DEFINE q == [p EXCEPT !.got = g]
  <2>5. q = [id |-> p.id, form |-> p.form, number |-> p.number, got |-> g]
    BY <2>3
  <2>6. posts' = (posts \ {p}) \cup {q}
    BY <2>4
  <2> HIDE DEF q
  <2>7. PostIs(q)
    BY <2>3, <2>4, <2>5
  <2> HIDE DEF FormIs, PostIs
  <2> QED BY <1>a, <1>b, <2>2, <2>6, <2>7
<1>3. CASE PV!PublishFails
  <2>1. PICK p \in posts : /\ posts' = posts \ {p}
          /\ form' \in {form, [form EXCEPT !.publishing = FALSE, !.error = TRUE]}
    BY <1>3 DEF PV!PublishFails
  <2>2. FormIs(form')
    BY <2>1 DEF PostsInv
  <2> HIDE DEF FormIs, PostIs
  <2> QED BY <1>a, <1>b, <2>1, <2>2
<1>4. CASE PV!Fill
  <2>1. PICK i \in Ids \cup {None}, b \in BOOLEAN :
          form' = [form EXCEPT !.id = i, !.summary = b, !.error = FALSE]
    BY <1>4 DEF PV!Fill
  <2>2. FormIs(form')
    <3>1. form'.id = i
      BY <2>1 DEF PostsInv
    <3>2. form' = [id |-> form'.id, summary |-> form'.summary,
                   publishing |-> form'.publishing, error |-> form'.error,
                   instance |-> form'.instance]
      BY <2>1 DEF PostsInv
    <3> QED BY <3>1, <3>2
  <2>3. posts' = posts
    BY <1>4 DEF PV!Fill
  <2> HIDE DEF FormIs, PostIs
  <2> QED BY <1>a, <1>b, <2>2, <2>3
<1>5. CASE \/ PV!OtherUser \/ PV!ReadList \/ PV!ListArrives \/ PV!ListFails
           \/ PV!ToggleDrawer \/ PV!onClose \/ PV!PublishArrives \/ PV!OpenVersion
           \/ PV!onBack \/ PV!ReadVersion \/ PV!VersionArrives \/ PV!VersionFails
           \/ (\E w \in PV!Work : PV!Start(w)) \/ PV!CompileAnswered \/ PV!JobEnds
           \/ UNCHANGED PV!vars
  <2>1. /\ form' = form \/ form' = PV!NewForm
        /\ posts' = posts \/ \E p \in posts : posts' = posts \ {p}
    BY <1>5 DEF PV!OtherUser, PV!ReadList, PV!ListArrives, PV!ListFails,
       PV!ToggleDrawer, PV!onClose, PV!PublishArrives, PV!handlePublished,
       PV!OpenVersion, PV!onBack, PV!ReadVersion, PV!VersionArrives, PV!VersionFails,
       PV!Start, PV!CompileAnswered, PV!JobEnds, PV!vars, PV!drawer
  <2> HIDE DEF FormIs, PostIs
  <2> QED BY <1>a, <1>b, <2>1
<1> HIDE DEF PublicationInv
<1> QED BY <1>1, <1>2, <1>3, <1>4, <1>5 DEF PV!Next

LEMMA JobsStep ==
  ASSUME PublicationInv, PV!Next \/ UNCHANGED PV!vars
  PROVE  JobsInv'
<1> USE DEF PublicationInv
<1>0. \A v \in Ids : sets[v] # 0 => sets'[v] = sets[v]
  BY ServerStep DEF Grows
<1> DEFINE JobIs(j) ==
             /\ j = [work |-> j.work, of |-> j.of, detail |-> j.detail, got |-> j.got]
             /\ j.work \in PV!Work /\ j.of \in Ids
             /\ j.got = 0 \/ (j.got \in Nat /\ j.got # 0 /\ sets'[j.of] = j.got)
<1>a. \A j \in jobs : JobIs(j)
  BY <1>0 DEF JobsInv, Held
<1>b. ASSUME \A j \in jobs' : JobIs(j) PROVE JobsInv'
  BY <1>b DEF JobsInv, Held
<1>1. CASE \E w \in PV!Work : PV!Start(w)
  <2>1. PICK w \in PV!Work :
          /\ detail.status = "ready"
          /\ jobs' = jobs \cup {[work |-> w, of |-> selected, detail |-> detail.instance,
                                 got |-> 0]}
    BY <1>1 DEF PV!Start, PV!DetailShown
  <2>2. selected \in Ids
    BY <2>1 DEF OpenedInv
  <2> DEFINE j == [work |-> w, of |-> selected, detail |-> detail.instance, got |-> 0]
  <2>3. JobIs(j)
    BY <2>2
  <2>4. jobs' = jobs \cup {j}
    BY <2>1
  <2> HIDE DEF j, JobIs
  <2> QED BY <1>a, <1>b, <2>3, <2>4
<1>2. CASE PV!CompileAnswered
  <2>1. PICK j \in jobs : /\ PV!Compile(j.of)
          /\ jobs' = (jobs \ {j}) \cup {[j EXCEPT !.got = PV!CompiledSet(j.of)]}
    BY <1>2 DEF PV!CompileAnswered
  <2> DEFINE n == PV!CompiledSet(j.of)
             q == [j EXCEPT !.got = n]
  <2>2. j = [work |-> j.work, of |-> j.of, detail |-> j.detail, got |-> j.got]
        /\ j.work \in PV!Work /\ j.of \in Ids
    BY DEF JobsInv
  <2>3. n \in Nat /\ n # 0 /\ sets'[j.of] = n
    BY <2>1, <2>2, Compiles
  <2>4. jobs' = (jobs \ {j}) \cup {q}
    BY <2>1
  <2> HIDE DEF n
  <2>5. q = [work |-> j.work, of |-> j.of, detail |-> j.detail, got |-> n]
    BY <2>2
  <2> HIDE DEF q
  <2>6. q.of = j.of /\ q.got = n /\ q.work = j.work
        /\ q = [work |-> q.work, of |-> q.of, detail |-> q.detail, got |-> q.got]
    BY <2>5
  <2>7. JobIs(q)
    BY <2>2, <2>3, <2>6
  <2> HIDE DEF JobIs
  <2> QED BY <1>a, <1>b, <2>4, <2>7
<1>3. CASE \/ PV!JobEnds \/ PV!OtherUser \/ PV!ReadList \/ PV!ListArrives
           \/ PV!ListFails \/ PV!ToggleDrawer \/ PV!onClose \/ PV!Fill
           \/ PV!handlePublish \/ PV!PublishAnswered \/ PV!PublishArrives
           \/ PV!PublishFails \/ PV!OpenVersion \/ PV!onBack \/ PV!ReadVersion
           \/ PV!VersionArrives \/ PV!VersionFails \/ UNCHANGED PV!vars
  <2>1. jobs' = jobs \/ \E j : jobs' = jobs \ {j}
    BY <1>3 DEF PV!JobEnds, PV!OtherUser, PV!ReadList, PV!ListArrives, PV!ListFails,
       PV!ToggleDrawer, PV!onClose, PV!Fill, PV!handlePublish, PV!PublishAnswered,
       PV!PublishArrives, PV!PublishFails, PV!OpenVersion, PV!onBack, PV!ReadVersion,
       PV!VersionArrives, PV!VersionFails, PV!vars
  <2>2. \A j \in jobs' : j \in jobs
    BY <2>1
  <2> HIDE DEF JobIs
  <2> QED BY <1>a, <1>b, <2>2
<1> HIDE DEF PublicationInv, JobIs
<1> QED BY <1>1, <1>2, <1>3 DEF PV!Next

(* Opening a version, or leaving it.                                       *)
LEMMA ShownAnew ==
  ASSUME OpenedInv, NEW v, v # selected, PV!ShowVersion(v)
  PROVE  /\ selected' = v /\ reply' = [of |-> v, set |-> None]
         /\ visits' = visits + 1
         /\ detail' = [status |-> "loading", snapshot |-> detail.snapshot, set |-> None,
                       busy |-> detail.busy, failed |-> detail.failed,
                       instance |-> IF selected = None THEN visits + 1
                                    ELSE detail.instance,
                       overtaken |-> PV!Compiling]
<1> DEFINE c == PV!Compiling
           i == IF selected = None THEN visits + 1 ELSE detail.instance
<1>1. /\ selected' = v /\ reply' = [of |-> v, set |-> None] /\ visits' = visits + 1
      /\ detail' = [detail EXCEPT !.status = "loading", !.set = None,
                      !.instance = IF selected = None THEN visits + 1 ELSE @,
                      !.overtaken = c]
  BY DEF PV!ShowVersion, PV!LoadOf, PV!Load
<1>2. detail = [status |-> detail.status, snapshot |-> detail.snapshot,
                set |-> detail.set, busy |-> detail.busy, failed |-> detail.failed,
                instance |-> detail.instance, overtaken |-> detail.overtaken]
  BY DEF OpenedInv
<1> HIDE DEF c
<1>3. detail' = [detail EXCEPT !.status = "loading", !.set = None, !.instance = i,
                               !.overtaken = c]
  BY <1>1, <1>2
<1> HIDE DEF i
<1>4. detail' = [status |-> "loading", snapshot |-> detail.snapshot, set |-> None,
                 busy |-> detail.busy, failed |-> detail.failed, instance |-> i,
                 overtaken |-> c]
  BY <1>2, <1>3
<1> QED BY <1>1, <1>4 DEF c, i

LEMMA VersionShown ==
  ASSUME OpenedInv, NEW v \in Ids, PV!ShowVersion(v), Grows
  PROVE  OpenedInv'
<1>0. \A w \in Ids : sets[w] # 0 => sets'[w] = sets[w]
  BY DEF Grows
<1>n. None \notin Ids
  BY PagesAssumption DEF PV!IdAssumption
<1>1. CASE v = selected
  <2>1. UNCHANGED <<selected, detail, reply>>
    BY <1>1 DEF PV!ShowVersion, PV!shown
  <2> QED BY <1>0, <2>1 DEF OpenedInv, Held, PV!NoDetail
<1>2. CASE v # selected
  <2>1. /\ selected' = v /\ reply' = [of |-> v, set |-> None]
        /\ detail' = [status |-> "loading", snapshot |-> detail.snapshot, set |-> None,
                      busy |-> detail.busy, failed |-> detail.failed,
                      instance |-> IF selected = None THEN visits + 1
                                   ELSE detail.instance,
                      overtaken |-> PV!Compiling]
    BY <1>2, ShownAnew
  <2>2. PICK i : detail' = [status |-> "loading", snapshot |-> detail.snapshot,
                            set |-> None, busy |-> detail.busy,
                            failed |-> detail.failed, instance |-> i,
                            overtaken |-> PV!Compiling]
    BY <2>1
  <2> QED BY <1>n, <2>1, <2>2 DEF OpenedInv
<1> QED BY <1>1, <1>2

LEMMA OpenedStep ==
  ASSUME PublicationInv, PV!Next \/ UNCHANGED PV!vars
  PROVE  OpenedInv'
<1> USE DEF PublicationInv
<1>0. Grows /\ \A w \in Ids : sets[w] # 0 => sets'[w] = sets[w]
  BY ServerStep DEF Grows
<1>n. None \notin Ids
  BY PagesAssumption DEF PV!IdAssumption
<1> DEFINE Still == reply' # None =>
             /\ reply' = [of |-> reply'.of, set |-> reply'.set]
             /\ selected' # None /\ reply'.of = selected'
             /\ \/ reply'.set = None \/ reply'.set = 0
                \/ /\ reply'.of \in Ids /\ reply'.set \in Nat
                   /\ reply'.set # 0 /\ sets'[reply'.of] = reply'.set
           HasSet(x) == x # None => /\ x.of \in Ids /\ x.n \in Nat /\ x.n # 0
                                    /\ sets'[x.of] = x.n
<1>a. ASSUME NEW st \in {"loading", "ready", "error"}, NEW shot, NEW x, NEW b, NEW f,
             detail' = [status |-> st, snapshot |-> shot, set |-> x, busy |-> b,
                        failed |-> f, instance |-> detail.instance,
                        overtaken |-> detail.overtaken],
             selected # None, selected' = selected,
             b \subseteq PV!Work, f \subseteq PV!Work,
             st = "ready" => shot = selected, HasSet(x), Still
      PROVE  OpenedInv'
  <2>1. /\ detail'.status = st /\ detail'.snapshot = shot /\ detail'.set = x
        /\ detail'.busy = b /\ detail'.failed = f
        /\ detail' = [status |-> detail'.status, snapshot |-> detail'.snapshot,
                      set |-> detail'.set, busy |-> detail'.busy,
                      failed |-> detail'.failed, instance |-> detail'.instance,
                      overtaken |-> detail'.overtaken]
    BY <1>a
  <2>2. (detail.set # None => Held(detail.set.of, detail.set.n))'
    BY <1>a, <2>1 DEF Held
  <2>3. st # "closed"
    BY <1>a
  <2>4. selected' \in Ids \cup {None}
    BY <1>a DEF OpenedInv
  <2> QED BY <1>a, <2>1, <2>2, <2>3, <2>4 DEF OpenedInv, Held
<1>b. /\ detail = [status |-> detail.status, snapshot |-> detail.snapshot,
                   set |-> detail.set, busy |-> detail.busy, failed |-> detail.failed,
                   instance |-> detail.instance, overtaken |-> detail.overtaken]
      /\ selected # None => detail.status \in {"loading", "ready", "error"}
      /\ detail.busy \subseteq PV!Work /\ detail.failed \subseteq PV!Work
      /\ detail.status = "ready" => detail.snapshot = selected
      /\ HasSet(detail.set)
  BY <1>0 DEF OpenedInv, Held
<1>c. reply' = reply /\ selected' = selected => Still
  BY <1>0 DEF OpenedInv, Held
<1>d. ASSUME UNCHANGED <<selected, detail, reply>> PROVE OpenedInv'
  <2>1. \A v, n : Held(v, n) => v \in Ids /\ n \in Nat /\ n # 0 /\ sets'[v] = n
    BY <1>0 DEF Held
  <2> QED BY <1>d, <2>1 DEF OpenedInv, Held, PV!NoDetail
<1>1. CASE PV!PublishArrives
  <2>1. PICK p \in posts : PV!ShowVersion(p.id)
    BY <1>1 DEF PV!PublishArrives, PV!handlePublished
  <2> QED BY <1>0, <2>1, VersionShown DEF PostsInv
<1>2. CASE PV!OpenVersion
  <2>1. PICK v \in PV!ToSet(list.items) : PV!ShowVersion(v)
    BY <1>2 DEF PV!OpenVersion
  <2>2. v \in Ids
    BY SequenceFacts DEF ListingInv, Listed
  <2> QED BY <1>0, <2>1, <2>2, VersionShown
<1>3. CASE PV!onBack
  <2>1. selected' = None /\ reply' = None
        /\ detail' = [status |-> "closed", snapshot |-> None, set |-> None,
                      busy |-> {}, failed |-> {}, instance |-> 0, overtaken |-> {}]
    BY <1>3 DEF PV!onBack, PV!NoDetail
  <2> QED BY <2>1 DEF OpenedInv, PV!NoDetail
<1>4. CASE PV!ReadVersion
  <2>1. /\ reply # None /\ reply' = [reply EXCEPT !.set = sets[reply.of]]
        /\ UNCHANGED <<selected, detail, sets>>
    BY <1>4 DEF PV!ReadVersion, PV!server
  <2>2. /\ reply = [of |-> reply.of, set |-> reply.set]
        /\ selected # None /\ reply.of = selected /\ selected \in Ids
    BY <2>1 DEF OpenedInv
  <2>3. reply' = [of |-> selected, set |-> sets[selected]]
    BY <2>1, <2>2
  <2>4. sets[selected] \in Nat
    BY <2>2 DEF PublishedInv
  <2>5. reply'.of = selected /\ reply'.set = sets[selected]
    BY <2>3
  <2>6. Still
    BY <2>1, <2>2, <2>3, <2>4, <2>5
  <2> HIDE DEF Still, HasSet, PublicationInv
  <2> QED BY <1>a, <1>b, <2>1, <2>2, <2>6
<1>5. CASE PV!VersionArrives \/ PV!VersionFails
  <2>1. reply # None /\ reply' = None /\ selected' = selected
    BY <1>5 DEF PV!VersionArrives, PV!VersionFails
  <2>2. /\ reply = [of |-> reply.of, set |-> reply.set]
        /\ selected # None /\ reply.of = selected /\ selected \in Ids
        /\ reply.set = None \/ reply.set = 0 \/ Held(selected, reply.set)
    BY <2>1 DEF OpenedInv
  <2>3. Still
    BY <2>1
  <2>4. CASE PV!VersionArrives
    <3> DEFINE x == PV!SetOf(selected, reply.set)
    <3>1. /\ reply.set # None
          /\ detail' = [detail EXCEPT !.status = "ready", !.snapshot = reply.of,
                                      !.set = PV!SetOf(reply.of, reply.set)]
      BY <2>4 DEF PV!VersionArrives
    <3>2. HasSet(x)
      BY <1>0, <2>2, <3>1 DEF PV!SetOf, Held
    <3> HIDE DEF HasSet, x, Still
    <3>3. detail' = [detail EXCEPT !.status = "ready", !.snapshot = selected, !.set = x]
      BY <2>2, <3>1 DEF x
    <3>4. detail' = [status |-> "ready", snapshot |-> selected, set |-> x,
                     busy |-> detail.busy, failed |-> detail.failed,
                     instance |-> detail.instance, overtaken |-> detail.overtaken]
      BY <1>b, <3>3
    <3> HIDE DEF PublicationInv
    <3> QED BY <1>a, <1>b, <2>1, <2>2, <2>3, <3>2, <3>4
  <2>5. CASE PV!VersionFails
    <3>1. detail' = [detail EXCEPT !.status = "error"]
      BY <2>5 DEF PV!VersionFails, PV!AfterFailure
    <3> HIDE DEF HasSet, Still
    <3>2. detail' = [status |-> "error", snapshot |-> detail.snapshot,
                     set |-> detail.set, busy |-> detail.busy,
                     failed |-> detail.failed, instance |-> detail.instance,
                     overtaken |-> detail.overtaken]
      BY <1>b, <3>1
    <3> HIDE DEF PublicationInv
    <3> QED BY <1>a, <1>b, <2>1, <2>2, <2>3, <3>2
  <2> HIDE DEF PublicationInv
  <2> QED BY <1>5, <2>4, <2>5
<1>6. CASE \E w \in PV!Work : PV!Start(w)
  <2>1. PICK w \in PV!Work :
          /\ detail.status = "ready" /\ UNCHANGED <<selected, reply>>
          /\ detail' = [detail EXCEPT !.busy = @ \cup {w}, !.failed = @ \ {w}]
    BY <1>6 DEF PV!Start, PV!DetailShown
  <2>2. selected # None
    BY <2>1 DEF OpenedInv
  <2> DEFINE b == detail.busy \cup {w}
             f == detail.failed \ {w}
  <2>3. detail' = [detail EXCEPT !.busy = b, !.failed = f]
    BY <2>1
  <2>4. b \subseteq PV!Work /\ f \subseteq PV!Work
    BY <1>b
  <2> HIDE DEF b, f, Still, HasSet
  <2>5. detail' = [status |-> detail.status, snapshot |-> detail.snapshot,
                   set |-> detail.set, busy |-> b, failed |-> f,
                   instance |-> detail.instance, overtaken |-> detail.overtaken]
    BY <1>b, <2>3
  <2> HIDE DEF PublicationInv
  <2> QED BY <1>a, <1>b, <1>c, <2>1, <2>2, <2>4, <2>5
<1>7. CASE PV!JobEnds
  <2>1. PICK j \in jobs, ok \in BOOLEAN :
          /\ j.work = "compile" /\ ok => j.got # 0
          /\ detail' =
               IF ~PV!SameInstance(j) THEN detail
               ELSE [detail EXCEPT
                       !.busy = @ \ {j.work},
                       !.failed = IF ok THEN @ ELSE @ \cup {j.work},
                       !.set = IF ok /\ j.work = "compile" THEN PV!SetOf(j.of, j.got)
                               ELSE @]
    BY <1>7 DEF PV!JobEnds
  <2>2. UNCHANGED <<selected, reply>>
    BY <1>7 DEF PV!JobEnds
  <2>3. CASE ~PV!SameInstance(j)
    BY <1>d, <2>1, <2>2, <2>3
  <2>4. CASE PV!SameInstance(j)
    <3>1. selected # None
      BY <2>4 DEF PV!SameInstance, PV!ListShown
    <3> DEFINE b == detail.busy \ {j.work}
               f == IF ok THEN detail.failed ELSE detail.failed \cup {j.work}
               x == IF ok /\ j.work = "compile" THEN PV!SetOf(j.of, j.got)
                    ELSE detail.set
    <3>2. detail' = [detail EXCEPT !.busy = b, !.failed = f, !.set = x]
      BY <2>1, <2>4
    <3>3. j.work \in PV!Work /\ (j.got = 0 \/ Held(j.of, j.got))
      BY DEF JobsInv
    <3>4. b \subseteq PV!Work /\ f \subseteq PV!Work
      BY <1>b, <3>3
    <3>5. HasSet(x)
      <4>1. CASE ok /\ j.work = "compile"
        <5>1. Held(j.of, j.got)
          BY <2>1, <3>3, <4>1
        <5>2. x = [of |-> j.of, n |-> j.got]
          BY <4>1, <5>1 DEF PV!SetOf, Held
        <5> HIDE DEF x
        <5> QED BY <1>0, <5>1, <5>2 DEF Held
      <4>2. CASE ~(ok /\ j.work = "compile")
        BY <1>b, <4>2
      <4> QED BY <4>1, <4>2
    <3> HIDE DEF b, f, x, Still, HasSet
    <3>6. detail' = [status |-> detail.status, snapshot |-> detail.snapshot,
                     set |-> x, busy |-> b, failed |-> f,
                     instance |-> detail.instance, overtaken |-> detail.overtaken]
      BY <1>b, <3>2
    <3> HIDE DEF PublicationInv
    <3> QED BY <1>a, <1>b, <1>c, <2>2, <3>1, <3>4, <3>5, <3>6
  <2> HIDE DEF PublicationInv
  <2> QED BY <2>3, <2>4
<1>8. CASE \/ PV!OtherUser \/ PV!ReadList \/ PV!ListArrives \/ PV!ListFails
           \/ PV!ToggleDrawer \/ PV!onClose \/ PV!Fill \/ PV!handlePublish
           \/ PV!PublishAnswered \/ PV!PublishFails \/ PV!CompileAnswered
           \/ UNCHANGED PV!vars
  <2>1. UNCHANGED <<selected, detail, reply>>
    BY <1>8 DEF PV!OtherUser, PV!ReadList, PV!ListArrives, PV!ListFails,
       PV!ToggleDrawer, PV!onClose, PV!Fill, PV!handlePublish, PV!PublishAnswered,
       PV!PublishFails, PV!CompileAnswered, PV!vars, PV!shown
  <2> HIDE DEF PublicationInv
  <2> QED BY <1>d, <2>1
<1> HIDE DEF PublicationInv
<1> QED BY <1>1, <1>2, <1>3, <1>4, <1>5, <1>6, <1>7, <1>8 DEF PV!Next

LEMMA CrossedStep ==
  ASSUME PublishedInv, ListingInv, PostsInv, OpenedInv, JobsInv, CrossedInv,
         PV!Next \/ UNCHANGED PV!vars
  PROVE  CrossedInv'
<1> DEFINE Same(j) == selected' # None /\ j.detail = detail'.instance
           Good(j) == /\ j.detail \in Nat /\ j.detail <= visits'
                      /\ j.work = "compile" /\ Same(j) =>
                           j.of \in {selected'} \cup detail'.overtaken
(* The detail stays that of its version.                                   *)
<1>a. ASSUME selected' = selected, visits' = visits,
             detail'.instance = detail.instance, detail'.overtaken = detail.overtaken,
             detail'.set # None => detail'.set = detail.set \/ Crossed(detail'.set.of),
             \A j \in jobs' : j \in jobs \/ Good(j)
      PROVE  CrossedInv'
  <2>1. \A j \in jobs' : Good(j)
    BY <1>a DEF CrossedInv, Crossed, PV!SameInstance, PV!ListShown
  <2>2. detail'.set # None => detail'.set.of \in {selected'} \cup detail'.overtaken
    BY <1>a DEF CrossedInv, Crossed
  <2> QED BY <1>a, <2>1, <2>2 DEF CrossedInv, Crossed, PV!SameInstance, PV!ListShown
(* A version is opened, in the detail there is or in a new one.            *)
<1>b. ASSUME NEW v \in Ids, PV!ShowVersion(v), jobs' = jobs PROVE CrossedInv'
  <2>1. CASE v = selected
    <3>1. UNCHANGED <<selected, detail, visits>>
      BY <1>b, <2>1 DEF PV!ShowVersion, PV!shown
    <3> HIDE DEF Good
    <3> QED BY <1>a, <1>b, <3>1
  <2>2. CASE v # selected
    <3> DEFINE i == IF selected = None THEN visits + 1 ELSE detail.instance
    <3>1. /\ selected' = v /\ visits' = visits + 1 /\ detail'.set = None
          /\ detail'.instance = i /\ detail'.overtaken = PV!Compiling
      BY <1>b, <2>2, ShownAnew
    <3>2. i \in Nat /\ i <= visits' /\ visits' \in Nat
      BY <3>1 DEF CrossedInv
    <3>3. ASSUME NEW j \in jobs PROVE Good(j)
      <4>1. j.detail \in Nat /\ j.detail <= visits /\ visits \in Nat
        BY DEF CrossedInv
      <4>2. CASE selected = None
        <5>1. j.detail # i
          BY <4>1, <4>2
        <5> QED BY <3>1, <4>1, <5>1
      <4>3. CASE selected # None
        <5>1. j.work = "compile" /\ Same(j) => j.of \in PV!Compiling
          BY <3>1, <4>3 DEF PV!Compiling, PV!SameInstance, PV!ListShown
        <5> QED BY <3>1, <4>1, <5>1
      <4> QED BY <4>2, <4>3
    <3> QED BY <1>b, <3>1, <3>2, <3>3 DEF CrossedInv, PV!SameInstance, PV!ListShown, Crossed
  <2> QED BY <2>1, <2>2
<1>1. CASE PV!PublishArrives
  <2>1. PICK p \in posts : PV!ShowVersion(p.id) /\ jobs' = jobs
    BY <1>1 DEF PV!PublishArrives, PV!handlePublished
  <2> QED BY <1>b, <2>1 DEF PostsInv
<1>2. CASE PV!OpenVersion
  <2>1. PICK v \in PV!ToSet(list.items) : PV!ShowVersion(v) /\ jobs' = jobs
    BY <1>2 DEF PV!OpenVersion
  <2>2. v \in Ids
    BY SequenceFacts DEF ListingInv, Listed
  <2> QED BY <1>b, <2>1, <2>2
<1>3. CASE PV!onBack
  <2>1. selected' = None /\ detail'.set = None /\ UNCHANGED <<jobs, visits>>
    BY <1>3 DEF PV!onBack, PV!NoDetail
  <2> QED BY <2>1 DEF CrossedInv, PV!SameInstance, PV!ListShown
<1>c. detail = [status |-> detail.status, snapshot |-> detail.snapshot,
                set |-> detail.set, busy |-> detail.busy, failed |-> detail.failed,
                instance |-> detail.instance, overtaken |-> detail.overtaken]
  BY DEF OpenedInv
<1>4. CASE PV!VersionArrives \/ PV!VersionFails
  <2>1. /\ selected' = selected /\ visits' = visits /\ jobs' = jobs
        /\ reply # None
    BY <1>4 DEF PV!VersionArrives, PV!VersionFails
  <2>2. CASE PV!VersionFails
    <3>1. detail'.instance = detail.instance /\ detail'.overtaken = detail.overtaken
          /\ detail'.set = detail.set
      BY <1>c, <2>2 DEF PV!VersionFails
    <3> HIDE DEF Good
    <3> QED BY <1>a, <2>1, <3>1
  <2>3. CASE PV!VersionArrives
    <3>1. reply.of = selected
      BY <2>1 DEF OpenedInv
    <3>2. detail'.instance = detail.instance /\ detail'.overtaken = detail.overtaken
          /\ detail'.set = PV!SetOf(reply.of, reply.set)
      BY <1>c, <2>3 DEF PV!VersionArrives
    <3>3. detail'.set # None => Crossed(detail'.set.of)
      BY <3>1, <3>2 DEF PV!SetOf, Crossed
    <3> HIDE DEF Good
    <3> QED BY <1>a, <2>1, <3>2, <3>3
  <2> QED BY <1>4, <2>2, <2>3
<1>5. CASE \E w \in PV!Work : PV!Start(w)
  <2>1. PICK w \in PV!Work :
          /\ detail.status = "ready" /\ UNCHANGED <<selected, visits>>
          /\ detail' = [detail EXCEPT !.busy = @ \cup {w}, !.failed = @ \ {w}]
          /\ jobs' = jobs \cup {[work |-> w, of |-> selected,
                                 detail |-> detail.instance, got |-> 0]}
    BY <1>5 DEF PV!Start, PV!DetailShown
  <2>2. detail'.instance = detail.instance /\ detail'.overtaken = detail.overtaken
        /\ detail'.set = detail.set
    BY <1>c, <2>1
  <2> DEFINE q == [work |-> w, of |-> selected, detail |-> detail.instance, got |-> 0]
  <2>3. q.of = selected /\ q.detail = detail.instance
    OBVIOUS
  <2>4. selected # None
    BY <2>1 DEF OpenedInv
  <2>5. jobs' = jobs \cup {q}
    BY <2>1
  <2> HIDE DEF q
  <2>6. Good(q)
    BY <2>1, <2>3, <2>4 DEF CrossedInv
  <2> HIDE DEF Good
  <2> QED BY <1>a, <2>1, <2>2, <2>5, <2>6
<1>6. CASE PV!CompileAnswered
  <2>1. PICK j \in jobs :
          jobs' = (jobs \ {j}) \cup {[j EXCEPT !.got = PV!CompiledSet(j.of)]}
    BY <1>6 DEF PV!CompileAnswered
  <2>2. UNCHANGED <<selected, detail, visits>>
    BY <1>6 DEF PV!CompileAnswered, PV!shown
  <2> DEFINE q == [j EXCEPT !.got = PV!CompiledSet(j.of)]
  <2>3. j = [work |-> j.work, of |-> j.of, detail |-> j.detail, got |-> j.got]
    BY DEF JobsInv
  <2>4. q.of = j.of /\ q.detail = j.detail /\ q.work = j.work
    BY <2>3
  <2>5. jobs' = (jobs \ {j}) \cup {q}
    BY <2>1
  <2> HIDE DEF q
  <2>6. Good(q)
    BY <2>2, <2>4 DEF CrossedInv, Crossed, PV!SameInstance, PV!ListShown
  <2> HIDE DEF Good
  <2> QED BY <1>a, <2>2, <2>5, <2>6
<1>7. CASE PV!JobEnds
  <2>1. PICK j \in jobs, ok \in BOOLEAN :
          /\ jobs' = jobs \ {j}
          /\ detail' =
               IF ~PV!SameInstance(j) THEN detail
               ELSE [detail EXCEPT
                       !.busy = @ \ {j.work},
                       !.failed = IF ok THEN @ ELSE @ \cup {j.work},
                       !.set = IF ok /\ j.work = "compile" THEN PV!SetOf(j.of, j.got)
                               ELSE @]
    BY <1>7 DEF PV!JobEnds
  <2>2. UNCHANGED <<selected, visits>>
    BY <1>7 DEF PV!JobEnds
  <2>3. CASE ~PV!SameInstance(j)
    <3> HIDE DEF Good
    <3> QED BY <1>a, <2>1, <2>2, <2>3
  <2>4. CASE PV!SameInstance(j)
    <3>1. /\ detail'.instance = detail.instance /\ detail'.overtaken = detail.overtaken
          /\ detail'.set = IF ok /\ j.work = "compile" THEN PV!SetOf(j.of, j.got)
                           ELSE detail.set
      BY <1>c, <2>1, <2>4
    <3>2. j.work = "compile" => Crossed(j.of)
      BY <2>4 DEF CrossedInv
    <3>3. detail'.set # None => detail'.set = detail.set \/ Crossed(detail'.set.of)
      BY <3>1, <3>2 DEF PV!SetOf
    <3> HIDE DEF Good
    <3> QED BY <1>a, <2>1, <2>2, <3>1, <3>3
  <2> QED BY <2>3, <2>4
<1>8. CASE \/ PV!OtherUser \/ PV!ReadList \/ PV!ListArrives \/ PV!ListFails
           \/ PV!ToggleDrawer \/ PV!onClose \/ PV!Fill \/ PV!handlePublish
           \/ PV!PublishAnswered \/ PV!PublishFails \/ PV!ReadVersion
           \/ UNCHANGED PV!vars
  <2>1. UNCHANGED <<selected, detail, visits, jobs>>
    BY <1>8 DEF PV!OtherUser, PV!ReadList, PV!ListArrives, PV!ListFails,
       PV!ToggleDrawer, PV!onClose, PV!Fill, PV!handlePublish, PV!PublishAnswered,
       PV!PublishFails, PV!ReadVersion, PV!vars, PV!shown
  <2> HIDE DEF Good
  <2> QED BY <1>a, <2>1
<1> QED BY <1>1, <1>2, <1>3, <1>4, <1>5, <1>6, <1>7, <1>8 DEF PV!Next

LEMMA PublicationStep ==
  PublicationInv /\ (PV!Next \/ UNCHANGED PV!vars) => PublicationInv'
BY ServerStep, ListingStep, PostsStep, OpenedStep, JobsStep, CrossedStep
DEF PublicationInv, Grows

LEMMA PublicationMeans ==
  PublicationInv => /\ PV!TypeOK /\ PV!PublishedOnce /\ PV!ListedIsPublished
                    /\ PV!ListedOnce /\ PV!DetailIsSelected /\ PV!SetIsServers
<1> SUFFICES ASSUME PublicationInv
             PROVE  /\ PV!TypeOK /\ PV!PublishedOnce /\ PV!ListedIsPublished
                    /\ PV!ListedOnce /\ PV!DetailIsSelected /\ PV!SetIsServers
  OBVIOUS
<1> USE DEF PublicationInv
<1>1. published \in Seq(Ids) /\ list.items \in Seq(Ids)
  BY DEF PublishedInv, ListingInv, Listed
<1>2. /\ PV!ToSet(published) = Names(published) /\ PV!ToSet(list.items) = Names(list.items)
      /\ Names(published) \subseteq Ids
      /\ PV!IsInjective(published) <=> Once(published)
      /\ PV!IsInjective(list.items) <=> Once(list.items)
  BY <1>1, SequenceFacts
<1>3. PV!PublishedOnce /\ PV!ListedOnce /\ PV!ListedIsPublished
  BY <1>2 DEF PV!PublishedOnce, PV!ListedOnce, PV!ListedIsPublished, PublishedInv,
     ListingInv, Listed
<1>4. PV!DetailIsSelected
  BY DEF PV!DetailIsSelected, PV!DetailShown, OpenedInv
<1>5. PV!SetIsServers
  BY DEF PV!SetIsServers, OpenedInv, Held, CrossedInv, Crossed
<1>6. PV!TypeOK
  <2>1. sets \in [Ids -> 0..made] /\ list.status \in {"loading", "ready", "error"}
    BY DEF PublishedInv, ListingInv
  <2>2. /\ selected \in Ids \cup {None}
        /\ (selected = None) = (detail.status = "closed")
        /\ selected = None => detail = PV!NoDetail
        /\ detail.busy \subseteq PV!Work /\ detail.failed \subseteq PV!Work
    BY DEF OpenedInv
  <2>3. form.id \in Ids \cup {None} /\ \A p \in posts : p.id \in Ids
    BY DEF PostsInv
  <2>4. \A j \in jobs : j.of \in Ids
    BY DEF JobsInv
  <2> QED BY <1>2, <2>1, <2>2, <2>3, <2>4 DEF PV!TypeOK
<1> QED BY <1>3, <1>4, <1>5, <1>6

-----------------------------------------------------------------------------
(* The page that is mounted keeps its own invariant.                       *)
PagesInv == /\ mounted \in Pages
            /\ mounted = "extraction" => ExtractionPageInv
            /\ mounted = "switching"  => SwitchingPageInv
            /\ mounted = "catalog"    => CatalogInv
            /\ mounted = "detail"     => DetailInv
            /\ mounted = "wizard"     => WizardInv
            /\ mounted = "versions"   => PublicationInv
            /\ mounted = "shell"      => ShellInv

LEMMA PagesStart == PagesInit => PagesInv
<1> SUFFICES ASSUME PagesInit PROVE PagesInv
  OBVIOUS
<1>0. mounted \in Pages
  BY DEF PagesInit
<1>1. CASE mounted = "extraction"
  BY <1>0, <1>1, ExtractionPageInit DEF PagesInit, PagesInv
<1>2. CASE mounted = "switching"
  BY <1>0, <1>2, ExtractionPageInit DEF PagesInit, PagesInv
<1>3. CASE mounted = "catalog"
  BY <1>0, <1>3, CatalogInit DEF PagesInit, PagesInv
<1>4. CASE mounted = "detail"
  BY <1>0, <1>4, DetailInit DEF PagesInit, PagesInv
<1>5. CASE mounted = "wizard"
  BY <1>0, <1>5, WizardInit DEF PagesInit, PagesInv
<1>6. CASE mounted = "versions"
  BY <1>0, <1>6, PublicationInit DEF PagesInit, PagesInv
<1>7. CASE mounted = "shell"
  BY <1>0, <1>7, ShellInit DEF PagesInit, PagesInv
<1> QED BY <1>0, <1>1, <1>2, <1>3, <1>4, <1>5, <1>6, <1>7 DEF Pages, Extraction

LEMMA PagesStep == PagesInv /\ PagesNext => PagesInv'
<1> SUFFICES ASSUME PagesInv, PagesNext PROVE PagesInv'
  OBVIOUS
<1>0. mounted \in Pages /\ mounted' = mounted
  BY DEF PagesInv, PagesNext
<1>1. CASE mounted = "extraction"
  <2>1. ExtractionPageInv'
    BY <1>1, ExtractionPageStep DEF PagesInv, PagesNext
  <2> QED BY <1>0, <1>1, <2>1 DEF PagesInv
<1>2. CASE mounted = "switching"
  <2>1. SwitchingPageInv'
    BY <1>2, ExtractionPageStep DEF PagesInv, PagesNext
  <2> QED BY <1>0, <1>2, <2>1 DEF PagesInv
<1>3. CASE mounted = "catalog"
  <2>1. CatalogInv'
    BY <1>3, CatalogStep DEF PagesInv, PagesNext
  <2> QED BY <1>0, <1>3, <2>1 DEF PagesInv
<1>4. CASE mounted = "detail"
  <2>1. DetailInv'
    BY <1>4, DetailStep DEF PagesInv, PagesNext
  <2> QED BY <1>0, <1>4, <2>1 DEF PagesInv
<1>5. CASE mounted = "wizard"
  <2>1. WizardInv'
    BY <1>5, WizardStep DEF PagesInv, PagesNext
  <2> QED BY <1>0, <1>5, <2>1 DEF PagesInv
<1>6. CASE mounted = "versions"
  <2>1. PublicationInv'
    BY <1>6, PublicationStep DEF PagesInv, PagesNext
  <2> QED BY <1>0, <1>6, <2>1 DEF PagesInv
<1>7. CASE mounted = "shell"
  <2>1. ShellInv'
    BY <1>7, ShellStep DEF PagesInv, PagesNext
  <2> QED BY <1>0, <1>7, <2>1 DEF PagesInv
<1> QED BY <1>0, <1>1, <1>2, <1>3, <1>4, <1>5, <1>6, <1>7 DEF Pages, Extraction

(* Nothing changes: the invariant of each page is about its variables.     *)
LEMMA PagesStay == PagesInv /\ UNCHANGED pageVars => PagesInv'
<1> SUFFICES ASSUME PagesInv, UNCHANGED pageVars PROVE PagesInv'
  OBVIOUS
<1>0. mounted' = mounted
  BY DEF pageVars
<1>1. UNCHANGED vars
  BY DEF pageVars, vars
<1>2. UNCHANGED DC!vars
  BY DEF pageVars, DC!vars
<1>3. UNCHANGED DD!vars
  BY DEF pageVars, DD!vars
<1>4. UNCHANGED RW!vars
  BY DEF pageVars, RW!vars
<1>5. UNCHANGED PV!vars
  BY DEF pageVars, PV!vars
<1>6. UNCHANGED AS!vars
  BY DEF pageVars, AS!vars
<1> QED BY <1>0, <1>1, <1>2, <1>3, <1>4, <1>5, <1>6, ExtractionPageStep, CatalogStep,
           DetailStep, WizardStep, PublicationStep, ShellStep DEF PagesInv

LEMMA PagesSafe == PagesSpec => PagesInit /\ [][PagesNext]_pageVars
BY PTL DEF PagesSpec

LEMMA PagesInvariance == PagesSpec => []PagesInv
<1>1. PagesInit => PagesInv
  BY PagesStart
<1>2. PagesInv /\ [PagesNext]_pageVars => PagesInv'
  BY PagesStep, PagesStay
<1> QED BY <1>1, <1>2, PagesSafe, PTL

(* The state of every page is of its types: for any documents, versions,   *)
(* Policy Versions, tokens and roles, and any bounds.                      *)
THEOREM PagesTypes == PagesSpec => []PagesTypeOK
<1>1. PagesInv => PagesTypeOK
  <2> SUFFICES ASSUME PagesInv PROVE PagesTypeOK
    OBVIOUS
  <2>0. mounted \in Pages
    BY DEF PagesInv
  <2>1. CASE mounted = "extraction"
    BY <2>1, ExtractionMeans DEF PagesInv, PagesTypeOK
  <2>2. CASE mounted = "switching"
    BY <2>2, ExtractionMeans DEF PagesInv, PagesTypeOK
  <2>3. CASE mounted = "catalog"
    BY <2>3, CatalogMeans DEF PagesInv, PagesTypeOK
  <2>4. CASE mounted = "detail"
    BY <2>4, DetailMeans DEF PagesInv, PagesTypeOK
  <2>5. CASE mounted = "wizard"
    BY <2>5, WizardMeans DEF PagesInv, PagesTypeOK
  <2>6. CASE mounted = "versions"
    BY <2>6, PublicationMeans DEF PagesInv, PagesTypeOK
  <2>7. CASE mounted = "shell"
    BY <2>7, ShellMeans DEF PagesInv, PagesTypeOK
  <2> QED BY <2>0, <2>1, <2>2, <2>3, <2>4, <2>5, <2>6, <2>7 DEF Pages, Extraction
<1> QED BY <1>1, PagesInvariance, PTL

(* What a page shows is what was opened on it: the version shown is in the *)
(* tab that is open, a wizard reports its own run, a Policy Version is     *)
(* shown with its snapshot and a set the server has, its own unless the    *)
(* page was compiling another version when it was opened, a section opens  *)
(* with a run of its session, and the rail is at a step there is.          *)
THEOREM OpenedIsShown == PagesSpec => []ShownIsOpened
<1>1. PagesInv => ShownIsOpened
  <2> SUFFICES ASSUME PagesInv PROVE ShownIsOpened
    OBVIOUS
  <2>1. CASE mounted = "detail"
    BY <2>1, DetailMeans DEF PagesInv, ShownIsOpened
  <2>2. CASE mounted = "wizard"
    BY <2>2, WizardMeans DEF PagesInv, ShownIsOpened
  <2>3. CASE mounted = "versions"
    BY <2>3, PublicationMeans DEF PagesInv, ShownIsOpened
  <2>4. CASE mounted = "shell"
    BY <2>4, ShellMeans DEF PagesInv, ShownIsOpened
  <2>5. CASE mounted \notin {"detail", "wizard", "versions", "shell"}
    BY <2>5 DEF ShownIsOpened
  <2> QED BY <2>1, <2>2, <2>3, <2>4, <2>5
<1> QED BY <1>1, PagesInvariance, PTL

(* What a page told the server and was told by it agree: however requests  *)
(* are retried, lost and answered late, one start creates one Extraction   *)
(* Run and is explained by an answer about its id, a version is archived   *)
(* for the reason typed for it, a Policy Version is published and listed   *)
(* once, and the principal is that of the token.                           *)
THEOREM ServerAgrees == PagesSpec => []AgreesWithServer
<1>1. PagesInv => AgreesWithServer
  <2> SUFFICES ASSUME PagesInv PROVE AgreesWithServer
    OBVIOUS
  <2>1. CASE mounted = "extraction"
    BY <2>1, ExtractionMeans DEF PagesInv, AgreesWithServer
  <2>2. CASE mounted = "switching"
    BY <2>2, ExtractionMeans DEF PagesInv, AgreesWithServer
  <2>3. CASE mounted = "detail"
    BY <2>3, DetailMeans DEF PagesInv, AgreesWithServer
  <2>4. CASE mounted = "versions"
    BY <2>4, PublicationMeans DEF PagesInv, AgreesWithServer
  <2>5. CASE mounted = "shell"
    BY <2>5, ShellMeans DEF PagesInv, AgreesWithServer
  <2>6. CASE mounted \notin {"extraction", "switching", "detail", "versions", "shell"}
    BY <2>6 DEF AgreesWithServer
  <2> QED BY <2>1, <2>2, <2>3, <2>4, <2>5, <2>6
<1> QED BY <1>1, PagesInvariance, PTL

(* A drawer appears empty, and one that has taken the lock of a            *)
(* re-ingestion keeps it until the run ends or the page is left, whatever  *)
(* is pressed and however the effects follow one another.                  *)
THEOREM SafeDrawers == PagesSpec => DrawersAreSafe
<1> DEFINE Safe ==
      /\ mounted = "catalog" /\ ~DC!DrawerShown /\ DC!DrawerShown' =>
           form'.id = None /\ ~form'.file /\ ~form'.uploading
      /\ mounted = "wizard" /\ RW!LockedRun =>
           RW!LockedRun' \/ phase' # "running" \/ number' = number + 1
<1>1. PagesInv /\ PagesNext => Safe
  <2> SUFFICES ASSUME PagesInv, PagesNext PROVE Safe
    OBVIOUS
  <2>1. ASSUME mounted = "catalog", ~DC!DrawerShown, DC!DrawerShown'
        PROVE  form'.id = None /\ ~form'.file /\ ~form'.uploading
    <3>1. CatalogInv /\ DC!Next
      BY <2>1 DEF PagesInv, PagesNext
    <3> QED BY <2>1, <3>1, DrawerAppears
  <2>2. ASSUME mounted = "wizard", RW!LockedRun
        PROVE  RW!LockedRun' \/ phase' # "running" \/ number' = number + 1
    <3>1. WizardInv /\ RW!Next
      BY <2>2 DEF PagesInv, PagesNext
    <3> QED BY <2>2, <3>1, LockedRunStays
  <2> QED BY <2>1, <2>2
<1>2. PagesInv /\ [PagesNext]_pageVars =>
        [/\ mounted = "catalog" /\ ~DC!DrawerShown /\ DC!DrawerShown' =>
              form'.id = None /\ ~form'.file /\ ~form'.uploading
         /\ mounted = "wizard" /\ RW!LockedRun =>
              RW!LockedRun' \/ phase' # "running" \/ number' = number + 1]_pageVars
  BY <1>1
<1> QED BY <1>2, PagesSafe, PagesInvariance, PTL DEF DrawersAreSafe
=============================================================================

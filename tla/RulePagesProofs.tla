---------------------------- MODULE RulePagesProofs ----------------------------
(***************************************************************************)
(* What the invariants of RulePages say of any rules, queues, documents,   *)
(* forms and options.  Every page has an inductive invariant of its own    *)
(* (PickerInv, ListInv, ReviewInv, SourceInv, EditorInv, ManualInv), a     *)
(* lemma that each of its steps keeps it (...Step) and one that it gives   *)
(* what the page promises (...Means); PagesInv puts them together.         *)
(***************************************************************************)
EXTENDS RulePages, FiniteSetTheorems, SequenceTheorems, WellFoundedInduction,
        TLAPS

(* A field with options.  A value that nobody touched is the one it was    *)
(* entered with, or what that one stands for (Keeps), and what the open    *)
(* field shows resolves to one of the two, whether the options are there   *)
(* or still arrive (Shows), if no other option shares their texts; so does *)
(* what the field shows closed (ClosedKeeps).                              *)
Values == Texts \cup {Blank}
Keeps == ~touched /\ Distinct(entered) => value \in {entered, Means(entered)}
Shows ==
  open /\ ~touched =>
    IF free
    THEN Distinct(entered) =>
           \A opts \in {options, Loaded} :
             Resolve(query, opts, TRUE, Blank) \in {entered, Means(entered)}
    ELSE query = Blank
PickerInv == TypeOK /\ OnlyOffered /\ Keeps /\ Shows
-----------------------------------------------------------------------------
(* The first of a set of places is one of them.                            *)
LEMMA FirstIn ==
  ASSUME NEW S, S \subseteq Nat, S # {}
  PROVE  First(S) \in S
<1>1. PICK m \in S : \A k \in S : <<k, m>> \notin OpToRel(<, Nat)
  BY WFMin, NatLessThanWellFounded, Zenon
<1>2. \A k \in S : ~(k < m)
  BY <1>1, Zenon DEF OpToRel
<1>3. \A k \in S : m <= k
  BY <1>2, SMT
<1>. QED BY <1>3, Zenon DEF First

(* The options that are there: none, or those of Loaded.                   *)
LEMMA OptionTypes ==
  ASSUME NEW opts \in {<<>>, Loaded}
  PROVE  /\ DOMAIN opts \subseteq Nat
         /\ \A i \in DOMAIN opts :
              /\ opts = Loaded
              /\ opts[i].value \in Values /\ opts[i].label \in Texts
              /\ opts[i].value \in Offered /\ opts[i].label # Blank
<1>1. DOMAIN Loaded \subseteq Nat
  BY PickerAssumption, SMT
<1>2. \A i \in DOMAIN Loaded : Loaded[i].value \in Values /\ Loaded[i].label \in Texts
  <2>1. SUFFICES ASSUME NEW i \in DOMAIN Loaded
                 PROVE  Loaded[i].value \in Values /\ Loaded[i].label \in Texts
    BY Zenon
  <2> DEFINE Option == [value : Texts \cup {Blank}, label : Texts]
  <2>2. Loaded \in Seq(Option)
    BY PickerAssumption, Zenon
  <2>3. Loaded[i] \in Option
    <3> HIDE DEF Option
    <3>. QED BY <2>1, <2>2, SMT
  <2>. QED BY <2>3, SMT DEF Values
<1>3. DOMAIN <<>> = {}
  BY SMT
<1>4. \A t \in Texts : t # Blank
  BY PickerAssumption, Zenon
<1>. QED BY <1>1, <1>2, <1>3, <1>4, Zenon DEF Offered

(* What a resolution yields is an option's value, the text or the value    *)
(* that was there.                                                         *)
LEMMA ResolveTypes ==
  ASSUME NEW opts \in {<<>>, Loaded}, NEW t \in Values, NEW v \in Values, NEW f \in BOOLEAN
  PROVE  /\ Resolve(t, opts, f, v) \in Values
         /\ ~f => Resolve(t, opts, f, v) \in Offered \cup {v}
<1>1. \A S : S \subseteq DOMAIN opts /\ S # {} => First(S) \in DOMAIN opts
  <2>1. SUFFICES ASSUME NEW S, S \subseteq DOMAIN opts, S # {}
                 PROVE  First(S) \in DOMAIN opts
    BY Zenon
  <2>2. S \subseteq Nat
    BY <2>1, OptionTypes, Zenon
  <2>3. First(S) \in S
    BY <2>1, <2>2, FirstIn, Zenon
  <2>. QED BY <2>1, <2>3, Zenon
<1>2. /\ ByValue(opts, t) \subseteq DOMAIN opts
      /\ ByLabel(opts, t) \subseteq DOMAIN opts
      /\ Matching(opts, t) \subseteq DOMAIN opts
  BY Zenon DEF ByValue, ByLabel, Matching
<1>3. \A S : S \subseteq DOMAIN opts /\ S # {} =>
        opts[First(S)].value \in Values /\ opts[First(S)].value \in Offered
  BY <1>1, OptionTypes, Zenon
<1>4. Blank \in Values
  BY Zenon DEF Values
<1>. QED BY <1>2, <1>3, <1>4, Zenon DEF Resolve

(* The option a closed field shows is the one with its value.              *)
LEMMA SelectedAlone ==
  ASSUME NEW i \in DOMAIN Loaded
  PROVE  Selected(Loaded, Loaded[i].value) = {i} /\ First({i}) = i
<1>1. Selected(Loaded, Loaded[i].value) = {i}
  BY PickerAssumption, Zenon DEF Selected
<1>2. {i} \subseteq Nat
  BY OptionTypes, Zenon
<1>. QED BY <1>1, <1>2, FirstIn, Zenon

(* With free text, what a text resolves to does not depend on the value.   *)
LEMMA FreeResolves ==
  ASSUME NEW t, NEW opts, NEW u, NEW v
  PROVE  Resolve(t, opts, TRUE, u) = Resolve(t, opts, TRUE, v)
BY Zenon DEF Resolve

(* Before the options are there a text stands for itself.                  *)
LEMMA NoOptions ==
  ASSUME NEW t, NEW v
  PROVE  Resolve(t, <<>>, TRUE, v) = t /\ Resolve(t, <<>>, FALSE, v) \in {t, v}
<1>1. DOMAIN <<>> = {}
  BY SMT
<1>2. ByValue(<<>>, t) = {} /\ ByLabel(<<>>, t) = {} /\ Matching(<<>>, t) = {}
  BY <1>1, Zenon DEF ByValue, ByLabel, Matching
<1>. QED BY <1>2, Zenon DEF Resolve

(* What a meaning means is that meaning.                                   *)
LEMMA MeansTwice ==
  ASSUME NEW v
  PROVE  Means(Means(v)) = Means(v) /\ Means(v) \in Offered \cup {v}
<1>1. CASE v \in Offered \/ NamedBy(v) = {}
  BY <1>1, Zenon DEF Means
<1>2. CASE ~(v \in Offered \/ NamedBy(v) = {})
  <2>1. NamedBy(v) \subseteq DOMAIN Loaded
    BY Zenon DEF NamedBy
  <2>2. NamedBy(v) \subseteq Nat
    BY <2>1, OptionTypes, Zenon
  <2>3. First(NamedBy(v)) \in DOMAIN Loaded
    BY <1>2, <2>1, <2>2, FirstIn, Zenon
  <2>4. Means(v) = Loaded[First(NamedBy(v))].value
    BY <1>2, Zenon DEF Means
  <2>5. Means(v) \in Offered
    BY <2>3, <2>4, Zenon DEF Offered
  <2>. QED BY <2>5, Zenon DEF Means
<1>. QED BY <1>1, <1>2, Zenon

(* A text that names one option resolves to it, and one that names none to *)
(* itself in a field with free text.                                       *)
LEMMA NamesOne ==
  ASSUME NEW t, t # Blank, NEW i \in NamedBy(t), \A j, k \in NamedBy(t) : j = k,
         NEW f, NEW v
  PROVE  Resolve(t, Loaded, f, v) = Loaded[i].value
<1>1. NamedBy(t) = {i} /\ i \in DOMAIN Loaded
  BY Zenon DEF NamedBy
<1>2. \A j \in DOMAIN Loaded :
        j \in NamedBy(t) <=> j \in ByValue(Loaded, t) \/ j \in ByLabel(Loaded, t)
  BY Zenon DEF NamedBy, ByValue, ByLabel
<1>3. ByValue(Loaded, t) \subseteq DOMAIN Loaded /\ ByLabel(Loaded, t) \subseteq DOMAIN Loaded
  BY Zenon DEF ByValue, ByLabel
<1>4. \/ ByValue(Loaded, t) = {i}
      \/ ByValue(Loaded, t) = {} /\ ByLabel(Loaded, t) = {i}
  BY <1>1, <1>2, <1>3, Zenon
<1>5. First({i}) = i
  BY <1>1, SelectedAlone, Zenon
<1>. QED BY <1>4, <1>5, Zenon DEF Resolve
LEMMA NamesNone ==
  ASSUME NEW t, NamedBy(t) = {}, NEW v
  PROVE  Resolve(t, Loaded, TRUE, v) = t
<1>1. ByValue(Loaded, t) = {} /\ ByLabel(Loaded, t) = {}
  BY Zenon DEF NamedBy, ByValue, ByLabel
<1>. QED BY <1>1, Zenon DEF Resolve

(* What a closed field shows for a value that is offered.                  *)
LEMMA ShownOption ==
  ASSUME NEW i \in DOMAIN Loaded, Loaded[i].value # Blank
  PROVE  /\ ClosedText(Loaded, Loaded[i].value) = Loaded[i].label
         /\ Loaded[i].label # Blank
         /\ i \in NamedBy(Loaded[i].label)
<1>1. ClosedText(Loaded, Loaded[i].value) = Loaded[i].label
  BY SelectedAlone, Zenon DEF ClosedText
<1>. QED BY <1>1, OptionTypes, Zenon DEF NamedBy
LEMMA ShownText ==
  ASSUME NEW opts \in {<<>>, Loaded}, NEW v, opts = <<>> \/ v \notin Offered
  PROVE  ClosedText(opts, v) = v
<1>1. DOMAIN <<>> = {}
  BY SMT
<1>2. Selected(opts, v) = {}
  BY <1>1, Zenon DEF Selected, Offered
<1>. QED BY <1>2, Zenon DEF ClosedText

(* What a closed field shows for the value it was entered with, or for     *)
(* what that one stands for, resolves to one of the two, also when the     *)
(* options arrive in between.                                              *)
LEMMA ClosedKeeps ==
  ASSUME NEW opts \in {<<>>, Loaded}, NEW later \in {opts, Loaded},
         NEW e, Distinct(e), NEW v \in {e, Means(e)}
  PROVE  Resolve(ClosedText(opts, v), later, TRUE, Blank) \in {e, Means(e)}
<1> DEFINE m == Means(e)
           closedText == ClosedText(Loaded, m)
<1>1. \A t \in {e, m, closedText} : \A i, j \in NamedBy(t) : i = j
  BY Zenon DEF Distinct
<1>2. m \in Offered \cup {e} /\ (e \in Offered => m = e)
  BY MeansTwice, Zenon DEF Means
<1>a. v \in {e, m}
  BY Zenon
<1>b. \A t \in {e, m} : t \notin Offered => t = e
  BY <1>2, Zenon
<1>c. e \notin Offered /\ NamedBy(e) # {} => m = Loaded[First(NamedBy(e))].value
  BY Zenon DEF Means
<1>d. Resolve(Blank, Loaded, TRUE, Blank) = Blank
  BY Zenon DEF Resolve
<1>e. \A t : opts = <<>> \/ t \notin Offered => ClosedText(opts, t) = t
  BY ShownText, Zenon
<1>f. \A t : t \notin Offered => ClosedText(Loaded, t) = t
  BY ShownText, Zenon
<1>g. ClosedText(Loaded, Blank) = Blank
  BY Zenon DEF ClosedText
<1> HIDE DEF m, closedText
(* An option resolves to itself.                                           *)
<1>3. ASSUME NEW t \in {e, m}, t \in Offered PROVE Resolve(t, Loaded, TRUE, Blank) = t
  <2>1. PICK i \in DOMAIN Loaded : Loaded[i].value = t
    BY <1>3, Zenon DEF Offered
  <2>2. i \in NamedBy(t)
    BY <2>1, Zenon DEF NamedBy
  <2>3. \A j, k \in NamedBy(t) : j = k
    BY <1>1, <1>3, Zenon
  <2>4. t # Blank => Resolve(t, Loaded, TRUE, Blank) = Loaded[i].value
    BY <2>2, <2>3, NamesOne, Zenon
  <2>. QED BY <1>d, <2>1, <2>4, Zenon
<1>4. Resolve(e, Loaded, TRUE, Blank) \in {e, m}
  <2>1. CASE NamedBy(e) = {}
    BY <2>1, NamesNone, Zenon
  <2>2. CASE e \in Offered
    BY <1>3, <2>2, Zenon
  <2>3. CASE NamedBy(e) # {} /\ e \notin Offered /\ e # Blank
    <3>1. PICK i : i \in NamedBy(e)
      BY <2>3, Zenon
    <3>2. NamedBy(e) = {i} /\ i \in DOMAIN Loaded
      BY <1>1, <3>1, Zenon DEF NamedBy
    <3>3. First({i}) = i
      BY <3>2, SelectedAlone, Zenon
    <3>4. m = Loaded[i].value
      BY <1>c, <2>3, <3>2, <3>3, Zenon
    <3>5. Resolve(e, Loaded, TRUE, Blank) = Loaded[i].value
      BY <1>1, <2>3, <3>1, NamesOne, Zenon
    <3>. QED BY <3>4, <3>5, Zenon
  <2>4. CASE e = Blank
    BY <1>d, <2>4, Zenon
  <2>. QED BY <2>1, <2>2, <2>3, <2>4, Zenon
<1>5. \A t \in {e, m} : Resolve(t, Loaded, TRUE, Blank) \in {e, m}
  BY <1>3, <1>4, <1>b, Zenon
<1>6. ClosedText(Loaded, e) \in {e, closedText}
  BY <1>2, <1>f, Zenon DEF closedText
<1>7. Resolve(closedText, Loaded, TRUE, Blank) \in {e, m}
  <2>1. CASE m \in Offered /\ m # Blank
    <3>1. PICK i \in DOMAIN Loaded : Loaded[i].value = m
      BY <2>1, Zenon DEF Offered
    <3>2. closedText # Blank /\ i \in NamedBy(closedText)
      BY <2>1, <3>1, ShownOption, Zenon DEF closedText
    <3>3. Resolve(closedText, Loaded, TRUE, Blank) = m
      BY <1>1, <3>1, <3>2, NamesOne, Zenon
    <3>. QED BY <3>3, Zenon
  <2>2. CASE m \notin Offered \/ m = Blank
    <3>1. closedText = m
      BY <1>f, <1>g, <2>2, Zenon DEF closedText
    <3>. QED BY <1>5, <3>1, Zenon
  <2>. QED BY <2>1, <2>2, Zenon
<1>8. CASE later = Loaded
  <2>1. ClosedText(opts, v) \in {e, m, closedText}
    <3>1. CASE opts = Loaded
      BY <1>6, <1>a, <3>1, Zenon DEF closedText
    <3>2. CASE opts = <<>>
      BY <1>a, <1>e, <3>2, Zenon
    <3>. QED BY <3>1, <3>2, Zenon
  <2>2. Resolve(ClosedText(opts, v), Loaded, TRUE, Blank) \in {e, m}
    BY <1>5, <1>7, <2>1, Zenon
  <2>. QED BY <1>8, <2>2, Zenon DEF m
<1>9. CASE later = <<>> /\ opts = <<>>
  <2>1. ClosedText(opts, v) = v
    BY <1>9, <1>e, Zenon
  <2>. QED BY <1>9, <2>1, NoOptions, Zenon
<1>. QED BY <1>8, <1>9, Zenon

LEMMA ClosedTypes ==
  ASSUME NEW opts \in {<<>>, Loaded}, NEW v \in Values
  PROVE  ClosedText(opts, v) \in Values
<1>1. CASE v = Blank \/ Selected(opts, v) = {}
  BY <1>1, Zenon DEF ClosedText, Values
<1>2. CASE v # Blank /\ Selected(opts, v) # {}
  <2>1. PICK i \in DOMAIN opts : opts[i].value = v
    BY <1>2, Zenon DEF Selected
  <2>2. opts = Loaded
    BY <2>1, OptionTypes, Zenon
  <2>3. ClosedText(opts, v) = Loaded[i].label
    BY <1>2, <2>1, <2>2, SelectedAlone, Zenon DEF ClosedText
  <2>. QED BY <2>1, <2>2, <2>3, OptionTypes, Zenon DEF Values
<1>. QED BY <1>1, <1>2, Zenon

(* A field without free text that is left closed keeps its option.         *)
LEMMA ClosedResolves ==
  ASSUME NEW opts \in {<<>>, Loaded}, NEW v \in Offered \cup {Blank},
         NEW e, Distinct(e), v \in {e, Means(e)}
  PROVE  Resolve(ClosedText(opts, v), opts, FALSE, v) = v
<1>1. CASE v = Blank
  BY <1>1, Zenon DEF Resolve, ClosedText
<1>2. CASE v # Blank /\ opts = <<>>
  <2>1. ClosedText(<<>>, v) = v
    BY ShownText, Zenon
  <2>. QED BY <1>2, <2>1, NoOptions, Zenon
<1>3. CASE v # Blank /\ opts = Loaded
  <2>1. PICK i \in DOMAIN Loaded : Loaded[i].value = v
    BY <1>3, Zenon DEF Offered
  <2>2. v = Means(e)
    BY <1>3, Zenon DEF Means
  <2> DEFINE label == Loaded[i].label
  <2>3. ClosedText(Loaded, v) = label /\ label # Blank /\ i \in NamedBy(label)
    BY <1>3, <2>1, ShownOption, Zenon
  <2>4. \A j, k \in NamedBy(label) : j = k
    BY <2>2, <2>3, Zenon DEF Distinct
  <2> HIDE DEF label
  <2>5. Resolve(label, Loaded, FALSE, v) = Loaded[i].value
    BY <2>3, <2>4, NamesOne, Zenon
  <2>. QED BY <1>3, <2>1, <2>3, <2>5, Zenon
<1>. QED BY <1>1, <1>2, <1>3, Zenon
-----------------------------------------------------------------------------
LEMMA OpenPlaces ==
  ASSUME NEW opts \in {<<>>, Loaded}, NEW S, S \subseteq DOMAIN opts
  PROVE  Cardinality(S) \in 0..Len(Loaded)
<1>1. Len(Loaded) \in Nat /\ DOMAIN Loaded = 1..Len(Loaded) /\ DOMAIN <<>> = {}
  BY PickerAssumption, SMT
<1>2. S \subseteq 1..Len(Loaded)
  BY <1>1, Zenon
<1>3. IsFiniteSet(1..Len(Loaded)) /\ Cardinality(1..Len(Loaded)) = Len(Loaded)
  BY <1>1, FS_Interval, SMT
<1>4. IsFiniteSet(S) /\ Cardinality(S) <= Cardinality(1..Len(Loaded))
  BY <1>2, <1>3, FS_Subset, Zenon
<1>5. Cardinality(S) \in Nat
  BY <1>4, FS_CardinalityType, Zenon
<1>. QED BY <1>1, <1>3, <1>4, <1>5, SMT

LEMMA PickerInit == Init => PickerInv
<1>1. SUFFICES ASSUME Init PROVE PickerInv
  BY Zenon
<1>2. \A i \in DOMAIN Loaded : Loaded[i].value \in Values
  BY OptionTypes, Zenon
<1>3. Offered \subseteq Values
  BY <1>2, Zenon DEF Offered
<1>4. value \in Values
  BY <1>1, <1>3, Zenon DEF Init, Values
<1>5. 0 \in -1..Len(Loaded)
  BY PickerAssumption, SMT
<1>6. TypeOK
  BY <1>1, <1>4, <1>5, Zenon DEF Init, TypeOK, Values
<1>7. OnlyOffered /\ Keeps /\ Shows
  BY <1>1, Zenon DEF Init, OnlyOffered, Keeps, Shows
<1>. QED BY <1>6, <1>7, Zenon DEF PickerInv

(* Leaving the field, in all its ways, ends with a value that is resolved  *)
(* from what it shows.                                                     *)
LEMMA Leaving ==
  ASSUME PickerInv
  PROVE  LET closed == Resolve(ClosedText(options, value), options, free, value)
             resolved == Resolve(query, options, free, value)
             twice == Resolve(ClosedText(options, resolved), options, free, resolved) IN
         /\ {closed, resolved, twice} \subseteq Values
         /\ ~free => {closed, resolved, twice} \subseteq Offered \cup {Blank}
         /\ ~touched /\ Distinct(entered) => closed \in {entered, Means(entered)}
         /\ open /\ ~touched /\ Distinct(entered) =>
              resolved \in {entered, Means(entered)} /\ twice \in {entered, Means(entered)}
<1> DEFINE closed == Resolve(ClosedText(options, value), options, free, value)
           resolved == Resolve(query, options, free, value)
           twice == Resolve(ClosedText(options, resolved), options, free, resolved)
<1>1. /\ options \in {<<>>, Loaded} /\ value \in Values /\ query \in Values
      /\ free \in BOOLEAN
      /\ ~free => value \in Offered \cup {Blank}
      /\ ~touched /\ Distinct(entered) => value \in {entered, Means(entered)}
  BY Zenon DEF PickerInv, TypeOK, OnlyOffered, Keeps, Values
<1>a. \A t \in Values, v \in Values :
        /\ Resolve(t, options, free, v) \in Values
        /\ ~free => Resolve(t, options, free, v) \in Offered \cup {v}
  BY <1>1, ResolveTypes
<1>b. \A v \in Values : ClosedText(options, v) \in Values
  BY <1>1, ClosedTypes
<1>2. closed \in Values /\ (~free => closed \in Offered \cup {Blank})
  BY <1>1, <1>a, <1>b
<1>3. resolved \in Values /\ (~free => resolved \in Offered \cup {Blank})
  BY <1>1, <1>a
<1>4. twice \in Values /\ (~free => twice \in Offered \cup {Blank})
  <2> HIDE DEF resolved
  <2>. QED BY <1>1, <1>3, <1>a, <1>b
(* A value left closed is kept.                                            *)
<1>c. ASSUME NEW v \in Values, ~free => v \in Offered \cup {Blank}, Distinct(entered),
             v \in {entered, Means(entered)}
      PROVE  Resolve(ClosedText(options, v), options, free, v) \in {entered, Means(entered)}
  <2>1. CASE free
    <3>1. Resolve(ClosedText(options, v), options, TRUE, Blank) \in {entered, Means(entered)}
      BY <1>1, <1>c, ClosedKeeps, Zenon
    <3>2. free = TRUE
      BY <2>1, <1>1
    <3>. QED BY <3>1, <3>2, FreeResolves, Zenon
  <2>2. CASE ~free
    <3>1. free = FALSE
      BY <2>2, <1>1
    <3>. QED BY <1>1, <1>c, <2>2, <3>1, ClosedResolves, Zenon
  <2>. QED BY <2>1, <2>2
<1>5. ~touched /\ Distinct(entered) => closed \in {entered, Means(entered)}
  <2>1. SUFFICES ASSUME ~touched, Distinct(entered)
                 PROVE  closed \in {entered, Means(entered)}
    BY Zenon
  <2>2. value \in {entered, Means(entered)}
    BY <1>1, <2>1, Zenon
  <2>. QED BY <1>1, <1>c, <2>1, <2>2, Zenon
<1>6. open /\ ~touched /\ Distinct(entered) => resolved \in {entered, Means(entered)}
  <2>1. SUFFICES ASSUME open, ~touched, Distinct(entered)
                 PROVE  resolved \in {entered, Means(entered)}
    BY Zenon
  <2>2. CASE free
    <3>1. Resolve(query, options, TRUE, Blank) \in {entered, Means(entered)}
      BY <2>1, <2>2, Zenon DEF PickerInv, Shows
    <3>2. free = TRUE
      BY <2>2, <1>1
    <3>. QED BY <3>1, <3>2, FreeResolves, Zenon
  <2>3. CASE ~free
    <3>1. free = FALSE /\ query = Blank
      BY <1>1, <2>1, <2>3, Zenon DEF PickerInv, Shows
    <3>2. resolved = value
      BY <3>1, Zenon DEF Resolve
    <3>. QED BY <1>1, <2>1, <3>2, Zenon
  <2>. QED BY <2>2, <2>3, Zenon
<1>7. open /\ ~touched /\ Distinct(entered) => twice \in {entered, Means(entered)}
  <2> HIDE DEF resolved
  <2>1. SUFFICES ASSUME open, ~touched, Distinct(entered)
                 PROVE  twice \in {entered, Means(entered)}
    BY Zenon
  <2>2. resolved \in {entered, Means(entered)}
    BY <1>6, <2>1, Zenon
  <2>. QED BY <1>3, <1>c, <2>1, <2>2, Zenon
<1>. QED BY <1>2, <1>3, <1>4, <1>5, <1>6, <1>7, Zenon

LEMMA PickerStep == PickerInv /\ [Next]_vars => PickerInv'
<1>1. SUFFICES ASSUME PickerInv, [Next]_vars PROVE PickerInv'
  BY Zenon
<1> DEFINE closed == Resolve(ClosedText(options, value), options, free, value)
           resolved == Resolve(query, options, free, value)
           twice == Resolve(ClosedText(options, resolved), options, free, resolved)
           Reads(q, os, e) ==
             IF free THEN Distinct(e) =>
                            \A opts \in {os, Loaded} :
                              Resolve(q, opts, TRUE, Blank) \in {e, Means(e)}
             ELSE q = Blank
<1>2. /\ free \in BOOLEAN /\ all = ~free /\ options \in {<<>>, Loaded}
      /\ value \in Values /\ entered \in Values /\ query \in Values
      /\ open \in BOOLEAN /\ focused \in BOOLEAN /\ touched \in BOOLEAN
      /\ highlight \in -1..Len(Loaded) /\ Len(Loaded) \in Nat
      /\ ~open => query = Blank
      /\ ~free => value \in Offered \cup {Blank}
      /\ ~touched /\ Distinct(entered) => value \in {entered, Means(entered)}
      /\ open /\ ~touched => Reads(query, options, entered)
  <2>1. Len(Loaded) \in Nat
    BY PickerAssumption, SMT
  <2>. QED BY <1>1, <2>1, Zenon
           DEF PickerInv, TypeOK, OnlyOffered, Keeps, Shows, Values, Reads
<1>3. /\ {closed, resolved, twice} \subseteq Values
      /\ ~free => {closed, resolved, twice} \subseteq Offered \cup {Blank}
      /\ ~touched /\ Distinct(entered) => closed \in {entered, Means(entered)}
      /\ open /\ ~touched /\ Distinct(entered) =>
           resolved \in {entered, Means(entered)} /\ twice \in {entered, Means(entered)}
  BY <1>1, Leaving, Zenon
<1>4. /\ ClosedText(options, value) \in Values
      /\ \A e : Distinct(e) /\ value \in {e, Means(e)} =>
           \A opts \in {options, Loaded} :
             Resolve(ClosedText(options, value), opts, TRUE, Blank) \in {e, Means(e)}
  BY <1>2, ClosedTypes, ClosedKeeps, Zenon
<1>5. 0 \in -1..Len(Loaded) /\ Blank \in Values
  BY <1>2, SMT DEF Values
<1> HIDE DEF closed, resolved, twice
(* The invariant again, from what a step does to each variable.            *)
<1> DEFINE Good ==
      /\ free' = free /\ all' = all /\ options' \in {<<>>, Loaded}
      /\ value' \in Values /\ entered' \in Values /\ query' \in Values
      /\ open' \in BOOLEAN /\ focused' \in BOOLEAN /\ touched' \in BOOLEAN
      /\ highlight' \in -1..Len(Loaded)
      /\ ~open' => query' = Blank
      /\ ~free => value' \in Offered \cup {Blank}
      /\ ~touched' /\ Distinct(entered') => value' \in {entered', Means(entered')}
      /\ open' /\ ~touched' => Reads(query', options', entered')
<1>6. Good => PickerInv'
  <2>1. Good => TypeOK'
    BY <1>2 DEF TypeOK, Values
  <2>2. Good => OnlyOffered'
    <3>1. SUFFICES ASSUME Good, ~free' PROVE value' \in Offered \cup {Blank}
      BY Zenon DEF OnlyOffered, Offered
    <3>2. ~free
      BY <3>1
    <3>. QED BY <3>1, <3>2
  <2>3. Good => Keeps'
    BY Zenon DEF Keeps, Means, NamedBy, Distinct, Resolve, ClosedText, Selected,
                 ByLabel, ByValue, Matching, Offered
  <2>4. Good => Shows'
    <3>1. SUFFICES ASSUME Good, open', ~touched'
                   PROVE  IF free'
                          THEN Distinct(entered') =>
                                 \A opts \in {options', Loaded} :
                                   Resolve(query', opts, TRUE, Blank) \in {entered', Means(entered')}
                          ELSE query' = Blank
      BY Zenon DEF Shows, Means, NamedBy, Distinct, Resolve, ClosedText, Selected,
                   ByLabel, ByValue, Matching, Offered
    <3>2. Reads(query', options', entered')
      BY <3>1, Zenon
    <3>3. free' = free
      BY <3>1, Zenon
    <3>. QED BY <3>2, <3>3 DEF Reads
  <2>. QED BY <2>1, <2>2, <2>3, <2>4 DEF PickerInv
<1>7. Opens => /\ open' = TRUE /\ highlight' = 0 /\ query' \in Values
               /\ IF free
                  THEN \A e : Distinct(e) /\ value \in {e, Means(e)} =>
                         \A opts \in {options, Loaded} :
                           Resolve(query', opts, TRUE, Blank) \in {e, Means(e)}
                  ELSE query' = Blank
  BY <1>2, <1>4, <1>5, Zenon DEF Opens
<1>8. \A i \in DOMAIN options : options[i].value \in Values /\ options[i].value \in Offered
  BY <1>2, OptionTypes, Zenon
<1>9. Filtered \subseteq DOMAIN options
  BY Zenon DEF Filtered, Matching
<1>10. CASE OptionsArrive
  BY <1>2, <1>6, <1>10, Zenon DEF OptionsArrive, props
<1>11. CASE ParentResets
  BY <1>2, <1>5, <1>6, <1>11, Zenon DEF ParentResets, props
<1>12. CASE Focus
  BY <1>2, <1>5, <1>6, <1>7, <1>12, Zenon DEF Focus, Enters, props
<1>13. CASE Type
  <2>1. PICK t \in Values : query' = t /\ value' = IF free THEN t ELSE value
    BY <1>13, Zenon DEF Type, Values
  <2>. QED BY <1>2, <1>5, <1>6, <1>13, <2>1, Zenon DEF Type, props
<1>14. CASE ArrowDown
  <2>1. CASE open
    <3>1. Cardinality(Filtered) \in 0..Len(Loaded)
      BY <1>2, <1>9, OpenPlaces, Zenon
    <3>2. highlight' = IF highlight + 1 < Cardinality(Filtered) THEN highlight + 1
                       ELSE Cardinality(Filtered) - 1
      BY <1>14, <2>1, Zenon DEF ArrowDown
    <3>3. highlight' \in -1..Len(Loaded)
      BY <1>2, <3>1, <3>2, SMT
    <3>. QED BY <1>2, <1>6, <1>14, <2>1, <3>3, Zenon DEF ArrowDown, props
  <2>2. CASE ~open
    BY <1>2, <1>5, <1>6, <1>7, <1>14, <2>2, Zenon DEF ArrowDown, props
  <2>. QED BY <2>1, <2>2, Zenon
<1>15. CASE ArrowUp
  <2>1. highlight' = IF highlight > 0 THEN highlight - 1 ELSE 0
    BY <1>15, Zenon DEF ArrowUp
  <2>2. highlight' \in -1..Len(Loaded)
    BY <1>2, <2>1, SMT
  <2>. QED BY <1>2, <1>6, <1>15, <2>2, Zenon DEF ArrowUp, props
<1>16. ASSUME NEW i \in DOMAIN options, selectOption(i) PROVE PickerInv'
  BY <1>2, <1>5, <1>6, <1>8, <1>16, Zenon DEF selectOption, Closes, props
<1>17. CASE Enter
  BY <1>9, <1>16, <1>17, Zenon DEF Enter, Listed
<1>18. CASE Click
  BY <1>9, <1>16, <1>18, Zenon DEF Click
<1>19. CASE Escape
  BY <1>2, <1>5, <1>6, <1>19, Zenon DEF Escape, Closes, props
<1>20. CASE Clear
  BY <1>2, <1>5, <1>6, <1>20, Zenon DEF Clear, Closes, props
<1>21. CASE Toggle
  <2>1. CASE open
    <3>1. value' = resolved
      BY <1>21, <2>1, Zenon DEF Toggle, resolved
    <3>. QED BY <1>2, <1>3, <1>5, <1>6, <1>21, <2>1, <3>1, Zenon DEF Toggle, Closes, props
  <2>2. CASE ~open
    BY <1>2, <1>5, <1>6, <1>7, <1>21, <2>2, Zenon DEF Toggle, Enters, props
  <2>. QED BY <2>1, <2>2, Zenon
<1>22. CASE Blur
  <2>1. value' = IF open THEN resolved ELSE closed
    BY <1>2, <1>22, Zenon DEF Blur, Display, resolved, closed
  <2>. QED BY <1>2, <1>3, <1>5, <1>6, <1>22, <2>1, Zenon DEF Blur, Closes, props
<1>23. CASE PointerDown
  <2>1. value' = IF focused THEN twice ELSE resolved
    BY <1>23, Zenon DEF PointerDown, resolved, twice
  <2>. QED BY <1>2, <1>3, <1>5, <1>6, <1>23, <2>1, Zenon DEF PointerDown, Closes, props
<1>24. CASE UNCHANGED vars
  BY <1>2, <1>6, <1>24, Zenon DEF vars, props
<1>. QED BY <1>1, <1>10, <1>11, <1>12, <1>13, <1>14, <1>15, <1>17, <1>18, <1>19,
            <1>20, <1>21, <1>22, <1>23, <1>24, Zenon DEF Next

(* What the field promises.                                                *)
LEMMA PickerMeans == PickerInv => UntouchedKeeps
BY MeansTwice, Zenon DEF PickerInv, Keeps, UntouchedKeeps
-----------------------------------------------------------------------------
(* Sequences and finite sets: taking one element away, and the elements at *)
(* some positions.                                                         *)

(* Every set of natural numbers has a least element.                       *)
LEMMA Least ==
  ASSUME NEW S \in SUBSET Nat, S # {}
  PROVE  \E i \in S : \A j \in S : i <= j
<1> DEFINE R == {ss \in Nat \X Nat : ss[1] < ss[2]}
<1>1. IsWellFoundedOn(R, Nat)
  BY NatLessThanWellFounded DEF OpToRel
<1> HIDE DEF R
<1>2. PICK i \in S : \A j \in S : <<j, i>> \notin R
  BY <1>1, WFMin
<1>3. \A j \in S : ~(j < i)
  BY <1>2 DEF R
<1> QED BY <1>2, <1>3

(* t is s without its element at i.                                        *)
Without(t, s, i) ==
  /\ Len(t) = Len(s) - 1
  /\ \A j \in DOMAIN t : \E k \in DOMAIN s \ {i} : t[j] = s[k]
  /\ \A k \in DOMAIN s \ {i} : \E j \in DOMAIN t : t[j] = s[k]
  /\ \A j, k \in DOMAIN t : j # k =>
       \E m, n \in DOMAIN s \ {i} : m # n /\ t[j] = s[m] /\ t[k] = s[n]

(* A list of which one element was taken.                                  *)
LEMMA Removed ==
  ASSUME NEW S, NEW s \in Seq(S), NEW i \in DOMAIN s
  PROVE  RC!RemoveAt(s, i) \in Seq(S) /\ Without(RC!RemoveAt(s, i), s, i)
<1> DEFINE front == SubSeq(s, 1, i - 1)
           back == SubSeq(s, i + 1, Len(s))
           t == RC!RemoveAt(s, i)
           From(j) == IF j < i THEN j ELSE j + 1
<1>1. Len(s) \in Nat /\ i \in 1..Len(s) /\ DOMAIN s = 1..Len(s)
  OBVIOUS
<1>2. /\ front \in Seq(S) /\ Len(front) = i - 1
      /\ \A j \in 1..(i - 1) : front[j] = s[j]
  BY <1>1
<1>3. /\ back \in Seq(S) /\ Len(back) = Len(s) - i
      /\ \A j \in 1..(Len(s) - i) : back[j] = s[i + j]
  BY <1>1
<1>4. t = front \o back
  BY DEF RC!RemoveAt
<1> HIDE DEF front, back, t
<1>5. t \in Seq(S) /\ Len(t) = Len(s) - 1 /\ DOMAIN t = 1..(Len(s) - 1)
  <2>1. t \in Seq(S) /\ Len(t) = Len(front) + Len(back)
    <3>1. front \in Seq(S) /\ back \in Seq(S)
      BY <1>2, <1>3
    <3>2. front \o back \in Seq(S) /\ Len(front \o back) = Len(front) + Len(back)
      BY <3>1
    <3> QED BY <1>4, <3>2
  <2>2. Len(t) = Len(s) - 1
    BY <1>1, <1>2, <1>3, <2>1
  <2> QED BY <2>1, <2>2
<1>6. \A j \in DOMAIN t : t[j] = s[From(j)] /\ From(j) \in DOMAIN s \ {i}
  <2> TAKE j \in DOMAIN t
  <2>1. CASE j < i
    <3>1. j \in 1..(i - 1)
      BY <1>1, <1>5, <2>1
    <3>2. t[j] = front[j]
      BY <1>2, <1>3, <1>4, <1>1, <3>1
    <3> QED BY <1>1, <1>2, <2>1, <3>1, <3>2
  <2>2. CASE ~(j < i)
    <3>1. j - (i - 1) \in 1..(Len(s) - i)
      BY <1>1, <1>5, <2>2
    <3>2. t[j] = back[j - (i - 1)]
      BY <1>2, <1>3, <1>4, <1>1, <3>1, <2>2
    <3>3. back[j - (i - 1)] = s[i + (j - (i - 1))] /\ i + (j - (i - 1)) = j + 1
      BY <1>1, <1>3, <1>5, <3>1
    <3> QED BY <1>1, <1>5, <2>2, <3>2, <3>3
  <2> QED BY <2>1, <2>2
<1>7. \A k \in DOMAIN s \ {i} : \E j \in DOMAIN t : From(j) = k
  <2> TAKE k \in DOMAIN s \ {i}
  <2>1. CASE k < i
    BY <1>1, <1>5, <2>1
  <2>2. CASE k > i
    <3>1. k - 1 \in DOMAIN t /\ From(k - 1) = k
      BY <1>1, <1>5, <2>2
    <3> QED BY <3>1
  <2> QED BY <1>1, <2>1, <2>2
<1>8. \A j, k \in DOMAIN t : j # k => From(j) # From(k)
  BY <1>1, <1>5
<1> HIDE DEF From
<1>9. \A k \in DOMAIN s \ {i} : \E j \in DOMAIN t : t[j] = s[k]
  BY <1>6, <1>7
<1>10. \A j, k \in DOMAIN t : j # k =>
         \E m, n \in DOMAIN s \ {i} : m # n /\ t[j] = s[m] /\ t[k] = s[n]
  BY <1>6, <1>8
<1>11. Without(t, s, i)
  BY <1>5, <1>6, <1>9, <1>10 DEF Without
<1> QED BY <1>5, <1>11 DEF t

(* The rank of a position among some, the first having rank 1.             *)
UpTo(P, i) == {j \in P : j <= i}
Rank(P, i) == Cardinality(UpTo(P, i))

LEMMA Positions ==
  ASSUME NEW n \in Nat, NEW P \in SUBSET (1..n)
  PROVE  /\ IsFiniteSet(P) /\ Cardinality(P) \in Nat
         /\ \A i \in Nat : IsFiniteSet(UpTo(P, i)) /\ Rank(P, i) \in Nat
<1>1. IsFiniteSet(1..n)
  BY FS_Interval
<1>2. IsFiniteSet(P)
  BY <1>1, FS_Subset
<1>3. \A i \in Nat : IsFiniteSet(UpTo(P, i))
  <2>1. \A i \in Nat : UpTo(P, i) \subseteq P
    BY DEF UpTo
  <2> QED BY <1>2, <2>1, FS_Subset
<1> QED BY <1>2, <1>3, FS_CardinalityType DEF Rank

(* Different positions have different ranks.                               *)
LEMMA RankIsOne ==
  ASSUME NEW n \in Nat, NEW P \in SUBSET (1..n), NEW i \in P, NEW j \in P,
         Rank(P, i) = Rank(P, j)
  PROVE  i = j
<1>0. \A m \in P : m \in Nat
  OBVIOUS
<1>3. \A m \in P : IsFiniteSet(UpTo(P, m))
  BY <1>0, Positions
<1>1. ASSUME NEW a \in P, NEW b \in P, a < b
      PROVE  Rank(P, a) # Rank(P, b)
  <2>1. UpTo(P, a) \subseteq UpTo(P, b) /\ b \in UpTo(P, b) /\ b \notin UpTo(P, a)
    <3>1. a \in Nat /\ b \in Nat
      BY <1>0
    <3>2. b <= b /\ ~(b <= a)
      BY <1>1, <3>1
    <3>3. \A m \in P : m <= a => m <= b
      BY <1>0, <1>1, <3>1
    <3> QED BY <3>2, <3>3 DEF UpTo
  <2>2. IsFiniteSet(UpTo(P, b))
    BY <1>3
  <2>3. UpTo(P, a) # UpTo(P, b) /\ UpTo(P, a) \in SUBSET UpTo(P, b)
    BY <2>1
  <2> QED BY <2>2, <2>3, FS_Subset DEF Rank
<1>2. i < j \/ j < i \/ i = j
  BY <1>0
<1> QED BY <1>1, <1>2

(* Every rank up to the number of positions is that of one of them.        *)
LEMMA RankIsThere ==
  ASSUME NEW n \in Nat, NEW P \in SUBSET (1..n), NEW k \in 1..Cardinality(P)
  PROVE  \E i \in P : Rank(P, i) = k
<1> DEFINE Missing == {m \in 1..Cardinality(P) : \A i \in P : Rank(P, i) # m}
<1>0. Cardinality(P) \in Nat /\ IsFiniteSet(P)
  BY Positions
<1> SUFFICES ASSUME Missing # {} PROVE FALSE
  OBVIOUS
<1>5. \A j \in P : j \in Nat
  OBVIOUS
<1>1. PICK m \in Missing : \A j \in Missing : m <= j
  <2>1. Missing \in SUBSET Nat
    BY <1>0
  <2> HIDE DEF Missing
  <2> QED BY <2>1, Least
<1>2. m \in 1..Cardinality(P) /\ \A i \in P : Rank(P, i) # m
  BY <1>1
<1>3. CASE m = 1
  <2>1. P # {}
    BY <1>0, <1>2, FS_EmptySet
  <2>2. P \in SUBSET Nat
    OBVIOUS
  <2>3. PICK i \in P : \A j \in P : i <= j
    BY <2>1, <2>2, Least
  <2>4. UpTo(P, i) = {i}
    <3>1. \A j \in P : j <= i <=> j = i
      BY <1>5, <2>3
    <3> QED BY <3>1 DEF UpTo
  <2>5. Rank(P, i) = 1
    BY <2>4, FS_Singleton DEF Rank
  <2> QED BY <1>2, <1>3, <2>5
<1>4. CASE m # 1
  <2>1. m - 1 \in 1..Cardinality(P) /\ m - 1 \notin Missing
    BY <1>0, <1>1, <1>2, <1>4
  <2>2. PICK i \in P : Rank(P, i) = m - 1
    BY <2>1
  <2> DEFINE Later == {j \in P : ~(j <= i)}
  <2>3. Later # {}
    <3> SUFFICES ASSUME Later = {} PROVE FALSE
      OBVIOUS
    <3>1. UpTo(P, i) = P
      BY DEF UpTo
    <3> QED BY <1>0, <1>2, <2>2, <3>1 DEF Rank
  <2>4. PICK l \in Later : \A j \in Later : l <= j
    <3>1. Later \in SUBSET Nat
      BY <1>5
    <3> HIDE DEF Later
    <3> QED BY <2>3, <3>1, Least
  <2>5. UpTo(P, l) = UpTo(P, i) \cup {l} /\ l \notin UpTo(P, i) /\ l \in P
    <3>1. \A j \in P : j <= l <=> j <= i \/ j = l
      <4> TAKE j \in P
      <4>1. j \in Nat /\ i \in Nat /\ l \in Nat /\ ~(l <= i)
        BY <1>5, <2>4
      <4>2. ~(j <= i) => l <= j
        BY <2>4
      <4> QED BY <4>1, <4>2
    <3> QED BY <2>4, <3>1 DEF UpTo
  <2>6. Rank(P, l) = Rank(P, i) + 1
    <3>1. IsFiniteSet(UpTo(P, i))
      BY <1>5, Positions
    <3> QED BY <2>5, <3>1, FS_AddElement DEF Rank
  <2>7. Rank(P, l) = m
    BY <1>0, <1>2, <2>2, <2>6
  <2> QED BY <1>2, <2>5, <2>7
<1> QED BY <1>3, <1>4

ChosenFrom(s, P) ==
  [k \in 1..Cardinality(P) |-> s[CHOOSE i \in P : Cardinality({j \in P : j <= i}) = k]]

(* What Chosen holds: what is at the positions, all of it, nothing else.   *)
LEMMA ChosenElements ==
  ASSUME NEW S, NEW s \in Seq(S), NEW P \in SUBSET DOMAIN s
  PROVE  /\ ChosenFrom(s, P) \in Seq(S)
         /\ \A k \in DOMAIN ChosenFrom(s, P) : \E i \in P : ChosenFrom(s, P)[k] = s[i]
         /\ \A i \in P : \E k \in DOMAIN ChosenFrom(s, P) : ChosenFrom(s, P)[k] = s[i]
         /\ P = {} => ChosenFrom(s, P) = <<>>
         /\ P = DOMAIN s => ChosenFrom(s, P) = s
<1> DEFINE n == Len(s)
           at(k) == CHOOSE i \in P : Rank(P, i) = k
<1>1. n \in Nat /\ DOMAIN s = 1..n /\ P \in SUBSET (1..n)
  OBVIOUS
<1>2. ChosenFrom(s, P) = [k \in 1..Cardinality(P) |-> s[at(k)]]
  BY DEF ChosenFrom, Rank, UpTo
<1> HIDE DEF n
<1>3. \A k \in 1..Cardinality(P) : at(k) \in P /\ Rank(P, at(k)) = k
  <2>1. \A k \in 1..Cardinality(P) : \E i \in P : Rank(P, i) = k
    BY <1>1, RankIsThere
  <2> QED BY <2>1
<1>4. \A i \in P : Rank(P, i) \in 1..Cardinality(P) /\ at(Rank(P, i)) = i
  <2> TAKE i \in P
  <2>1. UpTo(P, i) \subseteq P /\ i \in UpTo(P, i)
    BY <1>1 DEF UpTo
  <2>2. Rank(P, i) \in Nat /\ Rank(P, i) <= Cardinality(P) /\ Cardinality(P) \in Nat
        /\ IsFiniteSet(UpTo(P, i))
    BY <1>1, <2>1, Positions, FS_Subset DEF Rank
  <2>3. Rank(P, i) # 0
    BY <2>1, <2>2, FS_EmptySet DEF Rank
  <2>4. Rank(P, i) \in 1..Cardinality(P)
    BY <2>2, <2>3
  <2>5. at(Rank(P, i)) \in P /\ Rank(P, at(Rank(P, i))) = Rank(P, i)
    BY <1>3, <2>4
  <2> HIDE DEF at
  <2> QED BY <1>1, <2>4, <2>5, RankIsOne
<1>5. Cardinality(P) \in Nat
  BY <1>1, Positions
<1> HIDE DEF at
<1>6. \A k \in 1..Cardinality(P) : s[at(k)] \in S
  BY <1>1, <1>3
<1>7. ChosenFrom(s, P) \in Seq(S)
  BY <1>2, <1>5, <1>6
<1>8. P = {} => ChosenFrom(s, P) = <<>>
  BY <1>2, <1>5, <1>7, FS_EmptySet
<1>9. P = DOMAIN s => ChosenFrom(s, P) = s
  <2> SUFFICES ASSUME P = 1..n PROVE ChosenFrom(s, P) = s
    BY <1>1
  <2>1. Cardinality(P) = n
    BY <1>1, FS_Interval
  <2>2. \A i \in P : Rank(P, i) = i
    <3> TAKE i \in P
    <3>1. UpTo(P, i) = 1..i
      BY <1>1 DEF UpTo
    <3>2. i \in Nat /\ 1 <= i
      BY <1>1
    <3>3. Cardinality(1..i) = i
      BY <3>2, FS_Interval
    <3> QED BY <3>1, <3>3 DEF Rank
  <2>3. \A k \in 1..n : at(k) = k
    BY <1>4, <2>2
  <2>4. s = [k \in 1..n |-> s[k]]
    BY <1>1
  <2> QED BY <1>2, <2>1, <2>3, <2>4
<1> QED BY <1>2, <1>3, <1>4, <1>7, <1>8, <1>9
-----------------------------------------------------------------------------
(* The list of Candidate Rules.                                            *)

ListRequest == [filter : Docs \cup {AllDocs}, for : {"page", "bulk"},
                answer : RC!Rows \cup {None}]
BulkState ==
  [phase : {"closed", "open"}]
    \cup [phase : {"sent"}, ids : SUBSET Candidates, seen : RC!Rows]
    \cup [phase : {"served", "reloading"}, ids : SUBSET Candidates, seen : RC!Rows,
          approved : SUBSET Candidates, failed : SUBSET Candidates]
ListTypes ==
  /\ server \in [Candidates -> RC!States]
  /\ rows \in RC!Rows
  /\ filter \in Docs \cup {AllDocs}
  /\ loads \in Seq(ListRequest)
  /\ sent \in [loads : Nat, decisions : Nat] /\ sent.loads >= 1
  /\ status \in {"loading", "ready", "error"}
  /\ tab \in RC!Tabs /\ selected \subseteq Candidates
  /\ mine \subseteq Candidates /\ overtaken \subseteq mine
  /\ bulk \in BulkState
  /\ modal \in [rule : Candidates, mode : RC!Modes] \cup {None}
  /\ deciding \in [rule : Candidates, mode : RC!Modes, phase : {"post", "get"}] \cup {None}

(* One dialog at a time; a bulk approval that reloads has one load of its  *)
(* own, and a decision is about the rule of the dialog.                    *)
ListDialogs ==
  /\ bulk.phase = "reloading" <=> \E i \in DOMAIN loads : loads[i].for = "bulk"
  /\ \A i, j \in DOMAIN loads :
       loads[i].for = "bulk" /\ loads[j].for = "bulk" => i = j
  /\ modal # None => bulk.phase = "closed"
  /\ deciding # None => modal # None /\ deciding.rule = modal.rule

(* What this client saw decided, or will see, is decided on the server.    *)
Decided(r) == server[r] \notin RC!QueueStates
ListDecided ==
  /\ \A r \in mine : Decided(r)
  /\ bulk.phase \in {"served", "reloading"} =>
       /\ \A r \in bulk.approved : Decided(r)
       /\ bulk.approved \cap bulk.failed = {}
  /\ deciding # None => (deciding.phase = "get" => Decided(deciding.rule))

(* Rows in view, and answers on their way, know of every decision of this  *)
(* client that no older answer was on its way for.                         *)
Knows(rs) == \A r \in (mine \ overtaken) \cap DOMAIN rs : rs[r] \notin RC!QueueStates
ListKnows ==
  /\ \A i \in DOMAIN loads : loads[i].answer # None => Knows(loads[i].answer)
  /\ status = "ready" => Knows(rows)

ListInv == /\ ListTypes /\ ListDialogs /\ ListDecided /\ ListKnows
           /\ RC!BulkOnlyLowRisk /\ RC!ApprovedNotSelected

LEMMA ListInit == RC!Init => ListInv
<1> SUFFICES ASSUME RC!Init PROVE ListInv
  OBVIOUS
<1>1. /\ server = [r \in Candidates |-> "in_review"] /\ filter = AllDocs
      /\ loads = <<[filter |-> AllDocs, for |-> "page", answer |-> None]>>
      /\ sent = [loads |-> 1, decisions |-> 0] /\ status = "loading" /\ rows = <<>>
      /\ tab = "queue" /\ selected = {} /\ modal = None /\ deciding = None
      /\ bulk = [phase |-> "closed"] /\ feedback = None /\ mine = {}
      /\ overtaken = {}
  BY DEF RC!Init, RC!Load
<1>2. rows \in RC!Rows
  <2>1. rows \in [{} -> RC!States] /\ {} \in SUBSET Candidates
    BY <1>1
  <2> QED BY <2>1 DEF RC!Rows
<1>3. loads \in Seq(ListRequest) /\ Len(loads) = 1 /\ DOMAIN loads = {1}
      /\ loads[1].for = "page" /\ loads[1].answer = None
  <2>1. [filter |-> AllDocs, for |-> "page", answer |-> None] \in ListRequest
    BY DEF ListRequest
  <2> QED BY <1>1, <2>1
<1>4. server \in [Candidates -> RC!States]
  BY <1>1 DEF RC!States, RC!QueueStates
<1>5. bulk \in BulkState
  BY <1>1 DEF BulkState
<1>6. ListTypes
  BY <1>1, <1>2, <1>3, <1>4, <1>5 DEF ListTypes, RC!Tabs
<1>7. ListDialogs
  BY <1>1, <1>3 DEF ListDialogs
<1>8. ListDecided
  BY <1>1 DEF ListDecided
<1>9. ListKnows
  BY <1>1, <1>3 DEF ListKnows, Knows
<1> QED BY <1>1, <1>6, <1>7, <1>8, <1>9 DEF ListInv, RC!BulkOnlyLowRisk, RC!ApprovedNotSelected

LEMMA LowRiskRules ==
  ASSUME NEW rs \in RC!Rows, NEW t
  PROVE  /\ RC!bulkSelectableCandidateRuleIds(rs, t) \subseteq DOMAIN rs
         /\ DOMAIN rs \subseteq Candidates
         /\ \A r \in RC!bulkSelectableCandidateRuleIds(rs, t) :
              RC!isLowRiskBulkApprovalCandidate(rs, r)
         /\ \A r \in DOMAIN rs : rs[r] \in RC!States
BY DEF RC!Rows, RC!bulkSelectableCandidateRuleIds, RC!filterReviewsForTab

LEMMA AnswerRows ==
  ASSUME server \in [Candidates -> RC!States], NEW f
  PROVE  RC!Listed(f) \in RC!Rows /\ \A r \in DOMAIN RC!Listed(f) : RC!Listed(f)[r] = server[r]
<1> DEFINE S == {s \in Candidates : f \in {AllDocs, DocOf[s]}}
<1>1. S \in SUBSET Candidates
  OBVIOUS
<1>2. RC!Listed(f) = [r \in S |-> server[r]]
  BY DEF RC!Listed
<1>3. RC!Listed(f) \in [S -> RC!States]
  BY <1>1, <1>2
<1> QED BY <1>1, <1>2, <1>3 DEF RC!Rows

LEMMA ServerSteps ==
  ASSUME ListInv, NEW r \in Candidates, NEW m, RC!Decide(r, m)
  PROVE  /\ server' \in [Candidates -> RC!States]
         /\ \A s \in Candidates : Decided(s) => Decided(s)'
         /\ Decided(r)'
<1>1. server \in [Candidates -> RC!States] /\ RC!Outcome(m) \in {"approved", "rejected"}
      /\ server' = [server EXCEPT ![r] = RC!Outcome(m)]
  BY DEF ListInv, ListTypes, RC!Decide, RC!Outcome
<1> QED BY <1>1 DEF Decided, RC!States, RC!QueueStates

LEMMA ScopeStep ==
  ASSUME ListInv, NEW f \in Docs \cup {AllDocs}, RC!ApplyScope(f)
  PROVE  ListInv'
<1> DEFINE new == [filter |-> f, for |-> "page", answer |-> None]
<1>1. /\ modal = None /\ bulk.phase = "closed"
      /\ sent' = [sent EXCEPT !.loads = @ + 1] /\ filter' = f
      /\ loads' = Append(loads, new) /\ status' = "loading" /\ selected' = {}
      /\ UNCHANGED <<server, rows, tab, modal, deciding, bulk, feedback, mine, overtaken>>
  BY DEF RC!ApplyScope, RC!Uncovered, RC!Load
<1>2. new \in ListRequest /\ new.for = "page" /\ new.answer = None
  BY DEF ListRequest
<1> HIDE DEF new
<1>3. loads \in Seq(ListRequest) /\ sent \in [loads : Nat, decisions : Nat] /\ sent.loads >= 1
  BY DEF ListInv, ListTypes
<1>4. /\ loads' \in Seq(ListRequest) /\ DOMAIN loads' = DOMAIN loads \cup {Len(loads) + 1}
      /\ loads'[Len(loads) + 1] = new /\ \A i \in DOMAIN loads : loads'[i] = loads[i]
  BY <1>1, <1>2, <1>3
<1>5. sent' \in [loads : Nat, decisions : Nat] /\ sent'.loads >= 2
  BY <1>1, <1>3
<1>6. ListTypes'
  BY <1>1, <1>4, <1>5 DEF ListInv, ListTypes
<1>7. ListDialogs'
  BY <1>1, <1>2, <1>4 DEF ListInv, ListDialogs
<1>8. ListDecided'
  BY <1>1 DEF ListInv, ListDecided, Decided
<1>9. ListKnows'
  BY <1>1, <1>2, <1>4 DEF ListInv, ListKnows, Knows
<1>10. RC!BulkOnlyLowRisk' /\ RC!ApprovedNotSelected'
  BY <1>1 DEF ListInv, RC!BulkOnlyLowRisk, RC!ApprovedNotSelected
<1> QED BY <1>6, <1>7, <1>8, <1>9, <1>10 DEF ListInv

LEMMA ServeLoadStep ==
  ASSUME ListInv, NEW i \in DOMAIN loads, RC!ServeLoad(i)
  PROVE  ListInv'
<1> DEFINE answer0 == RC!Listed(loads[i].filter)
<1>1. /\ loads' = [loads EXCEPT ![i].answer = answer0]
      /\ UNCHANGED <<server, filter, sent, status, rows, tab, selected, modal,
                     deciding, bulk, feedback, mine, overtaken>>
  BY DEF RC!ServeLoad
<1>2. server \in [Candidates -> RC!States] /\ loads \in Seq(ListRequest)
  BY DEF ListInv, ListTypes
<1>3. answer0 \in RC!Rows /\ \A r \in DOMAIN answer0 : answer0[r] = server[r]
  BY <1>2, AnswerRows
<1> HIDE DEF answer0
<1>4. /\ loads' \in Seq(ListRequest) /\ DOMAIN loads' = DOMAIN loads
      /\ \A j \in DOMAIN loads : loads'[j].for = loads[j].for
      /\ \A j \in DOMAIN loads : j # i => loads'[j] = loads[j]
      /\ loads'[i].answer = answer0
      /\ Len(loads') = Len(loads)
  <2>1. \A j \in DOMAIN loads : loads[j] \in ListRequest
    BY <1>2
  <2>2. [loads[i] EXCEPT !.answer = answer0] \in ListRequest
    BY <1>3, <2>1 DEF ListRequest
  <2>3. loads' = [loads EXCEPT ![i] = [loads[i] EXCEPT !.answer = answer0]]
    BY <1>1
  <2> QED BY <1>2, <2>1, <2>2, <2>3 DEF ListRequest
<1>5. ListTypes'
  BY <1>1, <1>4 DEF ListInv, ListTypes
<1>6. ListDialogs'
  BY <1>1, <1>4 DEF ListInv, ListDialogs
<1>7. ListDecided'
  BY <1>1 DEF ListInv, ListDecided, Decided
<1>8. ListKnows'
  <2>1. Knows(answer0)
    BY <1>1, <1>3 DEF ListInv, ListDecided, Knows, Decided
  <2>2. \A j \in DOMAIN loads : loads'[j].answer = loads[j].answer \/ loads'[j].answer = answer0
    BY <1>4
  <2>3. \A j \in DOMAIN loads' : loads'[j].answer # None => Knows(loads'[j].answer)
    BY <1>4, <2>1, <2>2 DEF ListInv, ListKnows
  <2> QED BY <1>1, <2>3 DEF ListInv, ListKnows, Knows
<1>9. RC!BulkOnlyLowRisk' /\ RC!ApprovedNotSelected'
  BY <1>1 DEF ListInv, RC!BulkOnlyLowRisk, RC!ApprovedNotSelected
<1> QED BY <1>5, <1>6, <1>7, <1>8, <1>9 DEF ListInv

(* What is left of the loads after one of them ended.                      *)
LEMMA LoadGone ==
  ASSUME ListInv, NEW i \in DOMAIN loads, loads' = RC!RemoveAt(loads, i)
  PROVE  /\ loads' \in Seq(ListRequest)
         /\ loads[i] \in ListRequest
         /\ \A j \in DOMAIN loads' : \E k \in DOMAIN loads : loads'[j] = loads[k]
         /\ \A j, k \in DOMAIN loads' :
              loads'[j].for = "bulk" /\ loads'[k].for = "bulk" => j = k
         /\ loads[i].for = "bulk" => \A j \in DOMAIN loads' : loads'[j].for # "bulk"
         /\ loads[i].for # "bulk" => ((\E j \in DOMAIN loads' : loads'[j].for = "bulk")
                                       <=> bulk.phase = "reloading")
<1>1. loads \in Seq(ListRequest)
  BY DEF ListInv, ListTypes
<1>2. /\ loads' \in Seq(ListRequest)
      /\ Len(loads') = Len(loads) - 1
      /\ \A j \in DOMAIN loads' : \E k \in DOMAIN loads \ {i} : loads'[j] = loads[k]
      /\ \A k \in DOMAIN loads \ {i} : \E j \in DOMAIN loads' : loads'[j] = loads[k]
      /\ \A j, k \in DOMAIN loads' : j # k =>
           \E m, n \in DOMAIN loads \ {i} :
             m # n /\ loads'[j] = loads[m] /\ loads'[k] = loads[n]
  <2>1. loads' \in Seq(ListRequest) /\ Without(loads', loads, i)
    BY <1>1, Removed
  <2> QED BY <2>1 DEF Without
<1>4. ListDialogs
  BY DEF ListInv
<1>5. \A j, k \in DOMAIN loads' :
        loads'[j].for = "bulk" /\ loads'[k].for = "bulk" => j = k
  <2> SUFFICES ASSUME NEW j \in DOMAIN loads', NEW k \in DOMAIN loads', j # k,
                      loads'[j].for = "bulk", loads'[k].for = "bulk"
               PROVE  FALSE
    OBVIOUS
  <2>1. PICK m, n \in DOMAIN loads \ {i} :
          m # n /\ loads'[j] = loads[m] /\ loads'[k] = loads[n]
    BY <1>2
  <2> QED BY <1>4, <2>1 DEF ListDialogs
<1>6. loads[i].for = "bulk" => \A j \in DOMAIN loads' : loads'[j].for # "bulk"
  BY <1>2, <1>4 DEF ListDialogs
<1>7. loads[i].for # "bulk" => ((\E j \in DOMAIN loads' : loads'[j].for = "bulk")
                                 <=> bulk.phase = "reloading")
  BY <1>2, <1>4 DEF ListDialogs
<1>8. loads[i] \in ListRequest
  BY <1>1
<1> QED BY <1>2, <1>5, <1>6, <1>7, <1>8

LEMMA LoadEndsStep ==
  ASSUME ListInv, NEW i \in DOMAIN loads, RC!ArriveLoad(i) \/ RC!FailLoad(i)
  PROVE  ListInv'
<1> DEFINE kept == IF RC!ArriveLoad(i) THEN RC!Pruned(selected, rows', tab) ELSE selected
<1>1. /\ loads' = RC!RemoveAt(loads, i)
      /\ RC!AfterReload(loads[i], kept)
      /\ UNCHANGED <<server, filter, sent, tab, modal, deciding, mine, overtaken>>
      /\ \/ loads[i].answer # None /\ rows' = loads[i].answer /\ status' = "ready"
         \/ rows' = rows /\ status' = "error"
  BY DEF RC!ArriveLoad, RC!FailLoad, RC!FailedStatus
<1>2. kept \subseteq selected
  BY DEF RC!Pruned
<1> HIDE DEF kept
<1>3. /\ ListTypes /\ ListDialogs /\ ListDecided /\ ListKnows
      /\ RC!BulkOnlyLowRisk /\ RC!ApprovedNotSelected
  BY DEF ListInv
<1>4. /\ loads' \in Seq(ListRequest)
      /\ loads[i] \in ListRequest
      /\ \A j \in DOMAIN loads' : \E k \in DOMAIN loads : loads'[j] = loads[k]
      /\ \A j, k \in DOMAIN loads' :
           loads'[j].for = "bulk" /\ loads'[k].for = "bulk" => j = k
      /\ loads[i].for = "bulk" => \A j \in DOMAIN loads' : loads'[j].for # "bulk"
      /\ loads[i].for # "bulk" => ((\E j \in DOMAIN loads' : loads'[j].for = "bulk")
                                    <=> bulk.phase = "reloading")
  BY <1>1, LoadGone
<1>5. rows' \in RC!Rows
  BY <1>1, <1>3, <1>4 DEF ListTypes, ListRequest
<1>6. loads[i].for = "bulk" =>
        /\ bulk.phase = "reloading"
        /\ bulk.approved \cap bulk.failed = {} /\ bulk.failed \subseteq Candidates
        /\ selected' = bulk.failed
        /\ feedback' = [approved |-> bulk.approved, failed |-> bulk.failed]
        /\ bulk' = [phase |-> "closed"]
  BY <1>1, <1>3 DEF ListDialogs, ListDecided, ListTypes, BulkState, RC!AfterReload
<1>7. loads[i].for # "bulk" => selected' = kept /\ feedback' = feedback /\ bulk' = bulk
  BY <1>1 DEF RC!AfterReload
<1>8. ListTypes'
  <2>1. [phase |-> "closed"] \in BulkState
    BY DEF BulkState
  <2>2. selected' \subseteq Candidates /\ bulk' \in BulkState
    BY <1>2, <1>3, <1>6, <1>7, <2>1 DEF ListTypes
  <2> QED BY <1>1, <1>3, <1>4, <1>5, <2>2 DEF ListTypes
<1>9. ListDialogs'
  <2>1. bulk'.phase = "reloading" <=> \E j \in DOMAIN loads' : loads'[j].for = "bulk"
    BY <1>4, <1>6, <1>7
  <2>2. modal' # None => bulk'.phase = "closed"
    BY <1>1, <1>3, <1>6, <1>7 DEF ListDialogs
  <2> QED BY <1>1, <1>3, <1>4, <2>1, <2>2 DEF ListDialogs
<1>10. ListDecided'
  BY <1>1, <1>3, <1>6, <1>7 DEF ListDecided, Decided
<1>11. ListKnows'
  <2>1. \A j \in DOMAIN loads' : loads'[j].answer # None => Knows(loads'[j].answer)
    BY <1>3, <1>4 DEF ListKnows
  <2>2. status' = "ready" => Knows(rows')
    BY <1>1, <1>3 DEF ListKnows
  <2> QED BY <1>1, <2>1, <2>2 DEF ListKnows, Knows
<1>12. RC!BulkOnlyLowRisk'
  BY <1>3, <1>6, <1>7 DEF RC!BulkOnlyLowRisk
<1>13. RC!ApprovedNotSelected'
  BY <1>2, <1>3, <1>6, <1>7 DEF RC!ApprovedNotSelected
<1> QED BY <1>8, <1>9, <1>10, <1>11, <1>12, <1>13 DEF ListInv

(* Tabs, check boxes and dialogs: the server, the rows and the loads stay. *)
LEMMA TabStep ==
  ASSUME ListInv, NEW t \in RC!Tabs, RC!SetTab(t)
  PROVE  ListInv'
<1>1. /\ tab' = t /\ selected' \subseteq selected
      /\ UNCHANGED <<server, filter, loads, status, rows, sent, modal, deciding, bulk, feedback, mine, overtaken>>
  BY DEF RC!SetTab, RC!list, RC!Pruned
<1> QED BY <1>1 DEF ListInv, ListTypes, ListDialogs, ListDecided, Decided, ListKnows, Knows,
                    RC!BulkOnlyLowRisk, RC!ApprovedNotSelected

LEMMA SelectStep ==
  ASSUME ListInv,
         (\E r \in Candidates : RC!Toggle(r)) \/ RC!ToggleAll \/ RC!ClearSelection
  PROVE  ListInv'
<1>1. selected \subseteq Candidates /\ rows \in RC!Rows
  BY DEF ListInv, ListTypes
<1>2. RC!Selectable \subseteq Candidates
  BY <1>1, LowRiskRules DEF RC!Selectable
<1>3. /\ selected' \subseteq Candidates /\ feedback' = None
      /\ UNCHANGED <<server, filter, loads, status, rows, sent, tab, modal, deciding, bulk, mine, overtaken>>
  BY <1>1, <1>2 DEF RC!Toggle, RC!ToggleAll, RC!ClearSelection, RC!Select, RC!list
<1> QED BY <1>3 DEF ListInv, ListTypes, ListDialogs, ListDecided, Decided, ListKnows, Knows,
                    RC!BulkOnlyLowRisk, RC!ApprovedNotSelected

LEMMA OpenBulkStep ==
  ASSUME ListInv, RC!OpenBulk
  PROVE  ListInv'
<1>1. /\ status = "ready" /\ modal = None /\ bulk.phase = "closed"
      /\ bulk' = [phase |-> "open"] /\ feedback' = None
      /\ UNCHANGED <<server, filter, loads, status, rows, sent, tab, selected, modal, deciding, mine, overtaken>>
  BY DEF RC!OpenBulk, RC!Ready, RC!Uncovered, RC!list
<1>2. bulk' \in BulkState
  BY <1>1 DEF BulkState
<1>3. ListTypes' /\ ListDialogs' /\ ListDecided'
  BY <1>1, <1>2 DEF ListInv, ListTypes, ListDialogs, ListDecided, Decided
<1>4. ListKnows'
  BY <1>1 DEF ListInv, ListKnows, Knows
<1> QED BY <1>1, <1>3, <1>4 DEF ListInv, RC!BulkOnlyLowRisk, RC!ApprovedNotSelected

LEMMA CloseBulkStep ==
  ASSUME ListInv, RC!CloseBulk
  PROVE  ListInv'
<1>1. /\ bulk.phase = "open" /\ bulk' = [phase |-> "closed"]
      /\ UNCHANGED <<server, filter, loads, status, rows, sent, tab, selected, modal, deciding,
                     feedback, mine, overtaken>>
  BY DEF RC!CloseBulk, RC!list
<1>2. bulk' \in BulkState
  BY <1>1 DEF BulkState
<1>3. ListTypes' /\ ListDialogs' /\ ListDecided'
  BY <1>1, <1>2 DEF ListInv, ListTypes, ListDialogs, ListDecided, Decided
<1>4. ListKnows'
  BY <1>1 DEF ListInv, ListKnows, Knows
<1> QED BY <1>1, <1>3, <1>4 DEF ListInv, RC!BulkOnlyLowRisk, RC!ApprovedNotSelected

LEMMA SubmitBulkStep ==
  ASSUME ListInv, RC!SubmitBulk
  PROVE  ListInv'
<1>1. /\ bulk.phase = "open"
      /\ sent' = [sent EXCEPT !.decisions = @ + 1]
      /\ bulk' = [phase |-> "sent", ids |-> RC!SelectedBulk, seen |-> rows]
      /\ UNCHANGED <<server, filter, loads, status, rows, tab, selected, modal, deciding,
                     feedback, mine, overtaken>>
  BY DEF RC!SubmitBulk, RC!list
<1>2. selected \subseteq Candidates /\ rows \in RC!Rows /\ sent \in [loads : Nat, decisions : Nat]
  BY DEF ListInv, ListTypes
<1>3. /\ RC!SelectedBulk \subseteq DOMAIN rows /\ DOMAIN rows \subseteq Candidates
      /\ \A r \in RC!SelectedBulk : RC!isLowRiskBulkApprovalCandidate(rows, r)
  BY <1>2, LowRiskRules DEF RC!SelectedBulk, RC!selectedBulkCandidateRuleIds, RC!Selectable
<1>4. bulk' \in BulkState
  BY <1>1, <1>2, <1>3 DEF BulkState
<1>5. sent' \in [loads : Nat, decisions : Nat] /\ sent'.loads = sent.loads
  BY <1>1, <1>2
<1>6. ListTypes' /\ ListDialogs' /\ ListDecided'
  BY <1>1, <1>4, <1>5 DEF ListInv, ListTypes, ListDialogs, ListDecided, Decided
<1>7. ListKnows'
  BY <1>1, <1>5 DEF ListInv, ListKnows, Knows
<1>8. RC!BulkOnlyLowRisk'
  <2>1. bulk'.ids = RC!SelectedBulk /\ bulk'.seen = rows
    BY <1>1
  <2>2. \A r \in bulk'.ids : r \in DOMAIN bulk'.seen
          /\ RC!isLowRiskBulkApprovalCandidate(bulk'.seen, r)
    BY <1>3, <2>1
  <2>3. \A rs, r : RC!isLowRiskBulkApprovalCandidate(rs, r)'
                   <=> RC!isLowRiskBulkApprovalCandidate(rs, r)
    OBVIOUS
  <2> QED BY <2>2 DEF RC!BulkOnlyLowRisk
<1> QED BY <1>1, <1>6, <1>7, <1>8 DEF ListInv, RC!ApprovedNotSelected

LEMMA ServeBulkStep ==
  ASSUME ListInv, RC!ServeBulk
  PROVE  ListInv'
<1> DEFINE ok == {r \in bulk.ids : server[r] \in RC!QueueStates /\ r \notin Blocked}
<1>1. /\ bulk.phase = "sent"
      /\ server' = [r \in Candidates |-> IF r \in ok THEN "approved" ELSE server[r]]
      /\ bulk' = [phase |-> "served", ids |-> bulk.ids, seen |-> bulk.seen,
                  approved |-> ok, failed |-> bulk.ids \ ok]
      /\ UNCHANGED <<filter, loads, status, rows, sent, tab, selected, modal, deciding,
                     feedback, mine, overtaken>>
  BY DEF RC!ServeBulk, RC!list
<1>2. bulk.ids \subseteq Candidates /\ bulk.seen \in RC!Rows /\ ok \subseteq bulk.ids
      /\ server \in [Candidates -> RC!States]
  BY <1>1 DEF ListInv, ListTypes, BulkState
<1> HIDE DEF ok
<1>3. /\ server' \in [Candidates -> RC!States]
      /\ \A r \in Candidates : Decided(r) => Decided(r)'
      /\ \A r \in ok : Decided(r)'
  BY <1>1, <1>2 DEF Decided, RC!States, RC!QueueStates
<1>4. bulk' \in BulkState
  BY <1>1, <1>2 DEF BulkState
<1>5. bulk'.approved = ok /\ bulk'.failed = bulk.ids \ ok /\ bulk'.phase = "served"
      /\ bulk'.ids = bulk.ids /\ bulk'.seen = bulk.seen
  BY <1>1
<1>6. ListTypes' /\ ListDialogs'
  BY <1>1, <1>3, <1>4, <1>5 DEF ListInv, ListTypes, ListDialogs
<1>7. ListDecided'
  <2>1. \A r \in mine' : Decided(r)'
    BY <1>1, <1>3 DEF ListInv, ListTypes, ListDecided
  <2>2. deciding' = None
    BY <1>1 DEF ListInv, ListDialogs
  <2> QED BY <1>2, <1>3, <1>5, <2>1, <2>2 DEF ListDecided
<1>8. ListKnows'
  BY <1>1, <1>5 DEF ListInv, ListKnows, Knows
<1> QED BY <1>1, <1>5, <1>6, <1>7, <1>8 DEF ListInv, RC!BulkOnlyLowRisk, RC!ApprovedNotSelected

LEMMA ArriveBulkStep ==
  ASSUME ListInv, RC!ArriveBulk
  PROVE  ListInv'
<1> DEFINE new == [filter |-> filter, for |-> "bulk", answer |-> None]
<1>1. /\ bulk.phase = "served"
      /\ bulk' = [bulk EXCEPT !.phase = "reloading"]
      /\ loads' = Append(loads, new) /\ status' = "loading"
      /\ mine' = mine \cup bulk.approved
      /\ overtaken' = overtaken \cup RC!Overtaken(bulk.approved)
      /\ UNCHANGED <<server, filter, sent, rows, tab, selected, modal, deciding, feedback>>
  BY DEF RC!ArriveBulk, RC!Load
<1>2. new \in ListRequest /\ new.for = "bulk" /\ new.answer = None
  BY DEF ListRequest, ListInv, ListTypes
<1> HIDE DEF new
<1>3. loads \in Seq(ListRequest)
  BY DEF ListInv, ListTypes
<1>4. /\ loads' \in Seq(ListRequest) /\ DOMAIN loads' = DOMAIN loads \cup {Len(loads) + 1}
      /\ loads'[Len(loads) + 1] = new /\ \A i \in DOMAIN loads : loads'[i] = loads[i]
      /\ Len(loads') = Len(loads) + 1 /\ Len(loads) \in Nat
  BY <1>1, <1>2, <1>3
<1>5. bulk \in [phase : {"served", "reloading"}, ids : SUBSET Candidates, seen : RC!Rows,
                approved : SUBSET Candidates, failed : SUBSET Candidates]
  BY <1>1 DEF ListInv, ListTypes, BulkState
<1>6. bulk' \in BulkState /\ bulk'.phase = "reloading" /\ bulk'.approved = bulk.approved
      /\ bulk'.failed = bulk.failed /\ bulk'.ids = bulk.ids /\ bulk'.seen = bulk.seen
      /\ bulk.approved \subseteq Candidates
  <2>1. bulk' \in [phase : {"served", "reloading"}, ids : SUBSET Candidates, seen : RC!Rows,
                   approved : SUBSET Candidates, failed : SUBSET Candidates]
    BY <1>1, <1>5
  <2> QED BY <1>1, <1>5, <2>1 DEF BulkState
<1>7. modal = None
  BY <1>1 DEF ListInv, ListDialogs
<1>8. ListTypes'
  <2>1. overtaken' \subseteq mine'
    BY <1>1 DEF ListInv, ListTypes, RC!Overtaken
  <2> QED BY <1>1, <1>4, <1>6, <2>1 DEF ListInv, ListTypes
<1>9. ListDialogs'
  <2>1. \A i \in DOMAIN loads : loads[i].for # "bulk"
    BY <1>1 DEF ListInv, ListDialogs
  <2>2. \A i, j \in DOMAIN loads' : loads'[i].for = "bulk" /\ loads'[j].for = "bulk" => i = j
    BY <1>4, <2>1
  <2>3. \E i \in DOMAIN loads' : loads'[i].for = "bulk"
    BY <1>2, <1>4
  <2>4. deciding' = None
    BY <1>1, <1>7 DEF ListInv, ListDialogs
  <2> QED BY <1>1, <1>6, <1>7, <2>2, <2>3, <2>4 DEF ListDialogs
<1>10. ListDecided'
  <2>1. /\ \A r \in mine \cup bulk.approved : Decided(r)
        /\ bulk.approved \cap bulk.failed = {}
    BY <1>1 DEF ListInv, ListDecided
  <2>2. deciding' = None
    BY <1>1, <1>7 DEF ListInv, ListDialogs
  <2> QED BY <1>1, <1>6, <2>1, <2>2 DEF ListDecided, Decided
<1>11. ListKnows'
  <2>1. \A i \in DOMAIN loads : loads[i].answer # None =>
          \A r \in (mine' \ overtaken') \cap DOMAIN loads[i].answer :
            loads[i].answer[r] \notin RC!QueueStates
    <3> SUFFICES ASSUME NEW i \in DOMAIN loads, loads[i].answer # None,
                        NEW r \in (mine' \ overtaken') \cap DOMAIN loads[i].answer
                 PROVE  loads[i].answer[r] \notin RC!QueueStates
      OBVIOUS
    <3> QED BY <1>1 DEF ListInv, ListKnows, Knows, RC!Overtaken
  <2> QED BY <1>1, <1>2, <1>4, <2>1 DEF ListKnows, Knows
<1> QED BY <1>1, <1>6, <1>8, <1>9, <1>10, <1>11 DEF ListInv, RC!BulkOnlyLowRisk, RC!ApprovedNotSelected

LEMMA FailBulkStep ==
  ASSUME ListInv, RC!FailBulk
  PROVE  ListInv'
<1>1. /\ bulk.phase \in {"sent", "served"} /\ bulk' = [phase |-> "open"]
      /\ UNCHANGED <<server, filter, loads, status, rows, sent, tab, selected, modal, deciding,
                     feedback, mine, overtaken>>
  BY DEF RC!FailBulk, RC!list
<1>2. bulk' \in BulkState
  BY <1>1 DEF BulkState
<1>3. ListTypes' /\ ListDialogs' /\ ListDecided'
  BY <1>1, <1>2 DEF ListInv, ListTypes, ListDialogs, ListDecided, Decided
<1>4. ListKnows'
  BY <1>1 DEF ListInv, ListKnows, Knows
<1> QED BY <1>1, <1>3, <1>4 DEF ListInv, RC!BulkOnlyLowRisk, RC!ApprovedNotSelected

LEMMA OpenDecisionStep ==
  ASSUME ListInv, NEW r \in Candidates, NEW m \in RC!Modes, RC!OpenDecision(r, m)
  PROVE  ListInv'
<1>1. /\ status = "ready" /\ modal = None /\ bulk.phase = "closed"
      /\ modal' = [rule |-> r, mode |-> m]
      /\ UNCHANGED <<server, filter, loads, status, rows, sent, tab, selected, deciding, bulk,
                     feedback, mine, overtaken>>
  BY DEF RC!OpenDecision, RC!Ready, RC!Uncovered, RC!list
<1>2. deciding = None
  BY <1>1 DEF ListInv, ListDialogs
<1>3. ListTypes' /\ ListDialogs' /\ ListDecided'
  BY <1>1, <1>2 DEF ListInv, ListTypes, ListDialogs, ListDecided, Decided
<1>4. ListKnows'
  BY <1>1 DEF ListInv, ListKnows, Knows
<1> QED BY <1>1, <1>3, <1>4 DEF ListInv, RC!BulkOnlyLowRisk, RC!ApprovedNotSelected

LEMMA DialogStep ==
  ASSUME ListInv, RC!CancelDecision \/ RC!FailDecision
  PROVE  ListInv'
<1>1. /\ deciding' = None /\ modal' \in {modal, None}
      /\ UNCHANGED <<server, filter, loads, status, rows, sent, tab, selected, bulk,
                     feedback, mine, overtaken>>
  BY DEF RC!CancelDecision, RC!FailDecision, RC!list
<1>2. ListTypes' /\ ListDialogs' /\ ListDecided'
  BY <1>1 DEF ListInv, ListTypes, ListDialogs, ListDecided, Decided
<1>3. ListKnows'
  BY <1>1 DEF ListInv, ListKnows, Knows
<1> QED BY <1>1, <1>2, <1>3 DEF ListInv, RC!BulkOnlyLowRisk, RC!ApprovedNotSelected

LEMMA ConfirmStep ==
  ASSUME ListInv, RC!Confirm
  PROVE  ListInv'
<1>1. /\ modal # None
      /\ sent' = [sent EXCEPT !.decisions = @ + 1]
      /\ deciding' = [rule |-> modal.rule, mode |-> modal.mode, phase |-> "post"]
      /\ UNCHANGED <<server, filter, loads, status, rows, tab, selected, modal, bulk,
                     feedback, mine, overtaken>>
  BY DEF RC!Confirm, RC!list
<1>2. modal \in [rule : Candidates, mode : RC!Modes] /\ sent \in [loads : Nat, decisions : Nat]
  BY <1>1 DEF ListInv, ListTypes
<1>3. sent' \in [loads : Nat, decisions : Nat] /\ sent'.loads = sent.loads
  BY <1>1, <1>2
<1>4. deciding' \in [rule : Candidates, mode : RC!Modes, phase : {"post", "get"}]
      /\ deciding'.rule = modal.rule /\ deciding'.phase = "post"
  BY <1>1, <1>2
<1>5. ListTypes' /\ ListDialogs' /\ ListDecided'
  BY <1>1, <1>3, <1>4 DEF ListInv, ListTypes, ListDialogs, ListDecided, Decided
<1>6. ListKnows'
  BY <1>1, <1>3 DEF ListInv, ListKnows, Knows
<1> QED BY <1>1, <1>5, <1>6 DEF ListInv, RC!BulkOnlyLowRisk, RC!ApprovedNotSelected

LEMMA ServeDecisionStep ==
  ASSUME ListInv, RC!ServeDecision
  PROVE  ListInv'
<1>1. /\ deciding # None
      /\ RC!Decide(deciding.rule, deciding.mode)
      /\ deciding' = [deciding EXCEPT !.phase = "get"]
      /\ UNCHANGED <<filter, loads, status, rows, sent, tab, selected, modal, bulk, feedback,
                     mine, overtaken>>
  BY DEF RC!ServeDecision, RC!list
<1>2. deciding \in [rule : Candidates, mode : RC!Modes, phase : {"post", "get"}]
  BY <1>1 DEF ListInv, ListTypes
<1>3. /\ server' \in [Candidates -> RC!States]
      /\ \A s \in Candidates : Decided(s) => Decided(s)'
      /\ Decided(deciding.rule)'
  BY <1>1, <1>2, ServerSteps
<1>4. /\ deciding' \in [rule : Candidates, mode : RC!Modes, phase : {"post", "get"}]
      /\ deciding'.rule = deciding.rule
  BY <1>1, <1>2
<1>5. bulk.phase = "closed"
  BY <1>1 DEF ListInv, ListDialogs
<1>6. ListTypes' /\ ListDialogs'
  BY <1>1, <1>3, <1>4 DEF ListInv, ListTypes, ListDialogs
<1>7. ListDecided'
  <2>1. \A r \in mine' : Decided(r)'
    BY <1>1, <1>3 DEF ListInv, ListTypes, ListDecided
  <2>2. Decided(deciding.rule)'
    BY <1>3, <1>4 DEF Decided
  <2> QED BY <1>1, <1>5, <2>1, <2>2 DEF ListDecided
<1>8. ListKnows'
  BY <1>1 DEF ListInv, ListKnows, Knows
<1> QED BY <1>1, <1>6, <1>7, <1>8 DEF ListInv, RC!BulkOnlyLowRisk, RC!ApprovedNotSelected

LEMMA ArriveDecisionStep ==
  ASSUME ListInv, RC!ArriveDecision
  PROVE  ListInv'
<1> DEFINE new == RC!RowsWithAnswer(deciding.rule)
<1>1. /\ deciding # None /\ deciding.phase = "get"
      /\ rows' = new /\ selected' \subseteq selected
      /\ mine' = mine \cup {deciding.rule} /\ modal' = None /\ deciding' = None
      /\ overtaken' = overtaken \cup RC!Overtaken({deciding.rule})
      /\ UNCHANGED <<server, filter, loads, status, sent, tab, bulk, feedback>>
  BY DEF RC!ArriveDecision, RC!Pruned
<1>2. /\ deciding.rule \in Candidates /\ server \in [Candidates -> RC!States] /\ rows \in RC!Rows
      /\ Decided(deciding.rule) /\ modal # None
  BY <1>1 DEF ListInv, ListTypes, ListDialogs, ListDecided
<1>3. /\ DOMAIN new = DOMAIN rows
      /\ \A r \in DOMAIN rows : new[r] = IF r = deciding.rule THEN server[r] ELSE rows[r]
  BY DEF RC!RowsWithAnswer
<1>4. new \in RC!Rows
  <2>1. PICK S \in SUBSET Candidates : rows \in [S -> RC!States]
    BY <1>2 DEF RC!Rows
  <2>2. new \in [S -> RC!States]
    <3>1. new = [s \in S |-> IF s = deciding.rule THEN server[s] ELSE rows[s]]
      BY <2>1 DEF RC!RowsWithAnswer
    <3> QED BY <1>2, <2>1, <3>1
  <2> QED BY <2>1, <2>2 DEF RC!Rows
<1> HIDE DEF new
<1>5. ListTypes' /\ ListDialogs' /\ ListDecided'
  <2>1. overtaken' \subseteq mine'
    BY <1>1 DEF ListInv, ListTypes, RC!Overtaken
  <2> QED BY <1>1, <1>2, <1>4, <2>1
          DEF ListInv, ListTypes, ListDialogs, ListDecided, Decided
<1>6. ListKnows'
  <2>1. \A i \in DOMAIN loads : loads[i].answer # None =>
          \A r \in (mine' \ overtaken') \cap DOMAIN loads[i].answer :
            loads[i].answer[r] \notin RC!QueueStates
    <3> SUFFICES ASSUME NEW i \in DOMAIN loads, loads[i].answer # None,
                        NEW r \in (mine' \ overtaken') \cap DOMAIN loads[i].answer
                 PROVE  loads[i].answer[r] \notin RC!QueueStates
      OBVIOUS
    <3> QED BY <1>1 DEF ListInv, ListKnows, Knows, RC!Overtaken
  <2>2. status = "ready" =>
          \A r \in (mine' \ overtaken') \cap DOMAIN rows' : rows'[r] \notin RC!QueueStates
    BY <1>1, <1>2, <1>3 DEF ListInv, ListKnows, Knows, Decided
  <2> QED BY <1>1, <2>1, <2>2 DEF ListKnows, Knows
<1>7. RC!ApprovedNotSelected'
  BY <1>1 DEF ListInv, RC!ApprovedNotSelected
<1> QED BY <1>1, <1>5, <1>6, <1>7 DEF ListInv, RC!BulkOnlyLowRisk

LEMMA OtherReviewerStep ==
  ASSUME ListInv, NEW r \in Candidates, NEW m, RC!OtherReviewer(r, m)
  PROVE  ListInv'
<1>1. /\ RC!Decide(r, m)
      /\ UNCHANGED <<filter, loads, status, rows, sent, tab, selected, modal, deciding, bulk,
                     feedback, mine, overtaken>>
  BY DEF RC!OtherReviewer, RC!list
<1>2. /\ server' \in [Candidates -> RC!States]
      /\ \A s \in Candidates : Decided(s) => Decided(s)'
  BY <1>1, ServerSteps
<1>3. ListTypes' /\ ListDialogs'
  BY <1>1, <1>2 DEF ListInv, ListTypes, ListDialogs
<1>4. ListDecided'
  <2>1. \A s \in mine' : Decided(s)'
    BY <1>1, <1>2 DEF ListInv, ListTypes, ListDecided
  <2>2. bulk'.phase \in {"served", "reloading"} =>
          /\ \A s \in bulk'.approved : Decided(s)'
          /\ bulk'.approved \cap bulk'.failed = {}
    BY <1>1, <1>2 DEF ListInv, ListTypes, ListDecided, BulkState
  <2>3. deciding' # None => (deciding.phase = "get" => Decided(deciding.rule))'
    BY <1>1, <1>2 DEF ListInv, ListTypes, ListDecided, Decided
  <2>4. \A s : Decided(s)' <=> server'[s] \notin RC!QueueStates
    BY DEF Decided
  <2> QED BY <2>1, <2>2, <2>3, <2>4 DEF ListDecided, Decided
<1>5. ListKnows'
  BY <1>1 DEF ListInv, ListKnows, Knows
<1> QED BY <1>1, <1>3, <1>4, <1>5 DEF ListInv, RC!BulkOnlyLowRisk, RC!ApprovedNotSelected

LEMMA ListStep == ListInv /\ [RC!Next]_(RC!vars) => ListInv'
<1> SUFFICES ASSUME ListInv, [RC!Next]_(RC!vars) PROVE ListInv'
  OBVIOUS
<1>1. CASE UNCHANGED RC!vars
  BY <1>1 DEF RC!vars, ListInv, ListTypes, ListDialogs, ListDecided, Decided, ListKnows, Knows,
              RC!BulkOnlyLowRisk, RC!ApprovedNotSelected
<1>2. CASE RC!Answers
  BY <1>2, ServeLoadStep, LoadEndsStep, ServeBulkStep, ArriveBulkStep, ServeDecisionStep,
     ArriveDecisionStep DEF RC!Answers
<1>3. CASE RC!Failures
  BY <1>3, LoadEndsStep, FailBulkStep, DialogStep DEF RC!Failures
<1> QED BY <1>1, <1>2, <1>3, ScopeStep, TabStep, SelectStep, OpenBulkStep, CloseBulkStep,
           SubmitBulkStep, OpenDecisionStep, DialogStep, ConfirmStep, OtherReviewerStep DEF RC!Next

LEMMA ListMeans ==
  ListInv => RC!TypeOK /\ RC!BulkOnlyLowRisk /\ RC!ApprovedNotSelected /\ RC!DecidedNotOffered
<1> SUFFICES ASSUME ListInv PROVE RC!TypeOK /\ RC!DecidedNotOffered
  BY DEF ListInv
<1>1. RC!TypeOK
  BY DEF ListInv, ListTypes, ListDialogs, RC!TypeOK
<1>2. RC!DecidedNotOffered
  BY DEF ListInv, ListKnows, Knows, RC!DecidedNotOffered, RC!Offered, RC!filterReviewsForTab,
         RC!canResolveCandidateRule
<1> QED BY <1>1, <1>2
-----------------------------------------------------------------------------
(* The page of one rule.                                                   *)

ReviewTypes ==
  /\ server \in [RD!Rules -> RD!States] /\ listed \in [RD!Rules -> RD!States]
  /\ id \in RD!Rules \cup {None}
  /\ status \in {"loading", "ready", "error", "not_found"}
  /\ shown \in [rule : RD!Rules, state : RD!States] \cup {None}
  /\ modal \in RD!Modes \cup {None}
  /\ loads \subseteq [rule : RD!Rules, what : {"review", "sections"}]
  /\ saving \in [rule : RD!Rules, shown : RD!Rules] \cup {None}
  /\ resolving \in [rule : RD!Rules, shown : RD!Rules, mode : RD!Modes,
                    displayed : SUBSET DOMAIN Queue] \cup {None}
  /\ status = "ready" => shown # None
  /\ resolving # None => modal = resolving.mode

(* What an open page has in flight is for the rule that is open: a review  *)
(* while it loads, a save or a decision, one of them, while it is ready.   *)
AtRest == status = "ready" /\ ~effect
ReviewRequests ==
  id # None =>
    /\ \A l \in loads : l.what = "review" =>
         l.rule = id /\ status = "loading" /\ ~effect
    /\ AtRest => shown.rule = id
    /\ saving # None => AtRest /\ saving.rule = id /\ resolving = None
    /\ resolving # None =>
         /\ AtRest /\ resolving.rule = id
         /\ tab = "queue" => \A i \in resolving.displayed : listed[Queue[i]] = "in_review"

ReviewInv == ReviewTypes /\ ReviewRequests /\ RD!RequestsForShown /\ RD!MovesOn

LEMMA QueueRules ==
  /\ DOMAIN Queue \subseteq Nat
  /\ \A i \in DOMAIN Queue : Queue[i] \in RD!Rules
  /\ \A i, j \in DOMAIN Queue : Queue[i] = Queue[j] => i = j
  /\ None \notin [rule : RD!Rules, state : RD!States]
<1>1. RD!QueueAssumption
  BY PagesAssumption
<1>2. Queue \in Seq(RD!Rules)
  BY <1>1 DEF RD!QueueAssumption
<1> QED BY <1>1, <1>2 DEF RD!QueueAssumption, RD!Rules, RD!Range

(* The rule a decision moves on to was displayed, and is another one.      *)
LEMMA NextIsDisplayed ==
  ASSUME NEW displayed \in SUBSET DOMAIN Queue, NEW r, RD!NextRule(displayed, r) # None
  PROVE  \E j \in displayed : RD!NextRule(displayed, r) = Queue[j] /\ Queue[j] # r
<1> DEFINE after == {j \in displayed : \E i \in displayed : Queue[i] = r /\ i < j}
<1>1. after # {} /\ RD!NextRule(displayed, r) = Queue[RD!Min(after)]
  BY DEF RD!NextRule
<1>2. after \in SUBSET Nat
  BY QueueRules
<1>3. RD!Min(after) \in after
  <2> HIDE DEF after
  <2>1. \E i \in after : \A j \in after : i <= j
    BY <1>1, <1>2, Least
  <2> QED BY <2>1 DEF RD!Min
<1>4. PICK i \in displayed : Queue[i] = r /\ i < RD!Min(after)
  BY <1>3
<1>5. RD!Min(after) \in displayed
  BY <1>3
<1>6. Queue[RD!Min(after)] # r
  BY <1>2, <1>3, <1>4, <1>5, QueueRules
<1> QED BY <1>1, <1>5, <1>6

LEMMA ReviewInit == RD!Init => ReviewInv
BY DEF RD!Init, ReviewInv, ReviewTypes, ReviewRequests, RD!RequestsForShown, RD!MovesOn, RD!States

LEMMA OpenStep ==
  ASSUME ReviewInv, NEW r \in RD!Rules, RD!Open(r)
  PROVE  ReviewInv'
<1>1. /\ \E i \in DOMAIN Queue : Queue[i] = r /\ (tab = "all" \/ listed[r] = "in_review")
      /\ id' = r /\ effect' = TRUE /\ status' = "loading" /\ shown' = None /\ modal' = None
      /\ loads' = {} /\ saving' = None /\ resolving' = None
      /\ UNCHANGED <<server, listed, tab>>
  BY DEF RD!Open, RD!Displayed, RD!Fresh
<1>2. ReviewTypes'
  BY <1>1 DEF ReviewInv, ReviewTypes
<1>3. ReviewRequests' /\ RD!RequestsForShown' /\ RD!MovesOn'
  BY <1>1 DEF ReviewRequests, AtRest, RD!RequestsForShown, RD!MovesOn
<1> QED BY <1>2, <1>3 DEF ReviewInv

LEMMA BackStep == ReviewInv /\ RD!Back => ReviewInv'
<1> SUFFICES ASSUME ReviewInv, RD!Back PROVE ReviewInv'
  OBVIOUS
<1>1. /\ id' = None
      /\ UNCHANGED <<server, listed, tab, effect, status, shown, modal, loads, saving, resolving>>
  BY DEF RD!Back, RD!page
<1> QED BY <1>1 DEF ReviewInv, ReviewTypes, ReviewRequests, RD!RequestsForShown, RD!MovesOn

LEMMA LoadStep == ReviewInv /\ RD!loadReview => ReviewInv'
<1> SUFFICES ASSUME ReviewInv, RD!loadReview PROVE ReviewInv'
  OBVIOUS
<1>1. /\ id # None /\ effect /\ effect' = FALSE /\ status' = "loading" /\ modal' = None
      /\ loads' = loads \cup {[rule |-> id, what |-> "review"]}
      /\ UNCHANGED <<server, listed, tab, id, shown, saving, resolving>>
  BY DEF RD!loadReview, RD!RuleToLoad
<1>2. id \in RD!Rules /\ saving = None /\ resolving = None
      /\ \A l \in loads : l.what # "review"
  BY <1>1 DEF ReviewInv, ReviewTypes, ReviewRequests, AtRest
<1>3. ReviewTypes'
  BY <1>1, <1>2 DEF ReviewInv, ReviewTypes
<1>4. ReviewRequests'
  BY <1>1, <1>2 DEF ReviewRequests, AtRest
<1> QED BY <1>1, <1>2, <1>3, <1>4 DEF ReviewInv, RD!RequestsForShown, RD!MovesOn

LEMMA ArriveReviewStep ==
  ASSUME ReviewInv, NEW l \in loads, RD!ArriveReview(l) \/ RD!FailReview(l)
  PROVE  ReviewInv'
<1>1. /\ id # None /\ l.what = "review"
      /\ \/ /\ status' = "ready" /\ shown' = [rule |-> l.rule, state |-> server'[l.rule]]
            /\ loads' = (loads \ {l}) \cup {[rule |-> l.rule, what |-> "sections"]}
         \/ /\ status' \in {"error", "not_found"} /\ shown' = None
            /\ loads' = loads \ {l}
      /\ UNCHANGED <<server, listed, tab, id, effect, modal, saving, resolving>>
  BY DEF RD!ArriveReview, RD!FailReview, RD!Show, RD!FailedReview
<1>2. /\ l.rule = id /\ status = "loading" /\ ~effect /\ saving = None /\ resolving = None
      /\ l.rule \in RD!Rules
      /\ \A k \in loads : k.what = "review" => k = l
  BY <1>1 DEF ReviewInv, ReviewTypes, ReviewRequests, AtRest
<1>3. server[l.rule] \in RD!States
  BY <1>2 DEF ReviewInv, ReviewTypes
<1>4. ReviewTypes'
  BY <1>1, <1>2, <1>3, QueueRules DEF ReviewInv, ReviewTypes
<1>5. ReviewRequests'
  BY <1>1, <1>2 DEF ReviewRequests, AtRest
<1> QED BY <1>1, <1>2, <1>4, <1>5 DEF ReviewInv, RD!RequestsForShown, RD!MovesOn

LEMMA ArriveSectionsStep ==
  ASSUME ReviewInv, NEW l \in loads, RD!ArriveSections(l)
  PROVE  ReviewInv'
<1>1. /\ loads' = loads \ {l}
      /\ UNCHANGED <<server, listed, tab, id, effect, status, shown, modal, saving, resolving>>
  BY DEF RD!ArriveSections
<1> QED BY <1>1 DEF ReviewInv, ReviewTypes, ReviewRequests, AtRest, RD!RequestsForShown, RD!MovesOn

LEMMA FormStep ==
  ASSUME ReviewInv,
         RD!Edit \/ (\E m \in RD!Modes : RD!openDecisionModal(m)) \/ RD!closeDecisionModal
           \/ (\E r \in RD!Rules : RD!OtherReviewer(r)) \/ RD!ResolveFails
  PROVE  ReviewInv'
<1>1. CASE RD!Edit
  BY <1>1 DEF RD!Edit, ReviewInv, ReviewTypes, ReviewRequests, AtRest, RD!RequestsForShown, RD!MovesOn
<1>2. CASE (\E m \in RD!Modes : RD!openDecisionModal(m)) \/ RD!closeDecisionModal
  <2>1. /\ resolving = None /\ modal' \in RD!Modes \cup {None}
        /\ UNCHANGED <<server, listed, tab, id, effect, status, shown, loads, saving, resolving>>
    BY <1>2 DEF RD!openDecisionModal, RD!closeDecisionModal
  <2> QED BY <2>1 DEF ReviewInv, ReviewTypes, ReviewRequests, AtRest, RD!RequestsForShown, RD!MovesOn
<1>3. CASE \E r \in RD!Rules : RD!OtherReviewer(r)
  <2>1. /\ server' \in [RD!Rules -> RD!States]
        /\ UNCHANGED <<listed, tab, id, effect, status, shown, modal, loads, saving, resolving>>
    BY <1>3 DEF RD!OtherReviewer, RD!page, ReviewInv, ReviewTypes, RD!States
  <2> QED BY <2>1 DEF ReviewInv, ReviewTypes, ReviewRequests, AtRest, RD!RequestsForShown, RD!MovesOn
<1>4. CASE RD!ResolveFails
  <2>1. /\ resolving' = None
        /\ UNCHANGED <<server, listed, tab, id, effect, status, shown, modal, loads, saving>>
    BY <1>4 DEF RD!ResolveFails, RD!page
  <2> QED BY <2>1 DEF ReviewInv, ReviewTypes, ReviewRequests, AtRest, RD!RequestsForShown, RD!MovesOn
<1> QED BY <1>1, <1>2, <1>3, <1>4

LEMMA SaveStep == ReviewInv /\ RD!handleSave => ReviewInv'
<1> SUFFICES ASSUME ReviewInv, RD!handleSave PROVE ReviewInv'
  OBVIOUS
<1>1. /\ id # None /\ AtRest /\ resolving = None
      /\ saving' = [rule |-> id, shown |-> shown.rule]
      /\ UNCHANGED <<server, listed, tab, id, effect, status, shown, modal, loads, resolving>>
  BY DEF RD!handleSave, RD!Usable, RD!page, AtRest
<1>2. id \in RD!Rules /\ shown.rule = id
  BY <1>1 DEF ReviewInv, ReviewTypes, ReviewRequests
<1> QED BY <1>1, <1>2 DEF ReviewInv, ReviewTypes, ReviewRequests, AtRest, RD!RequestsForShown, RD!MovesOn

LEMMA ArriveSaveStep == ReviewInv /\ RD!ArriveSave => ReviewInv'
<1> SUFFICES ASSUME ReviewInv, RD!ArriveSave PROVE ReviewInv'
  OBVIOUS
<1>1. /\ id # None /\ saving # None /\ saving' = None
      /\ \/ /\ shown' = [rule |-> saving.rule, state |-> server'[saving.rule]]
            /\ listed' = [listed EXCEPT ![saving.rule] = "in_review"]
         \/ UNCHANGED <<listed, shown>>
      /\ UNCHANGED <<server, tab, id, effect, status, modal, loads, resolving>>
  BY DEF RD!ArriveSave, RD!Show
<1>2. AtRest /\ saving.rule = id /\ resolving = None /\ id \in RD!Rules
      /\ server[id] \in RD!States
  BY <1>1 DEF ReviewInv, ReviewTypes, ReviewRequests
<1>3. ReviewTypes'
  BY <1>1, <1>2, QueueRules DEF ReviewInv, ReviewTypes, RD!States
<1>4. ReviewRequests'
  BY <1>1, <1>2 DEF ReviewInv, ReviewRequests, AtRest
<1>5. RD!MovesOn'
  BY <1>1, <1>2 DEF ReviewInv, ReviewTypes, RD!MovesOn
<1> QED BY <1>1, <1>2, <1>3, <1>4, <1>5 DEF ReviewInv, RD!RequestsForShown

LEMMA ResolveStep == ReviewInv /\ RD!handleResolveReview => ReviewInv'
<1> SUFFICES ASSUME ReviewInv, RD!handleResolveReview PROVE ReviewInv'
  OBVIOUS
<1>1. /\ id # None /\ AtRest /\ modal # None /\ saving = None
      /\ resolving' = [rule |-> id, shown |-> shown.rule, mode |-> modal,
                       displayed |-> RD!Displayed]
      /\ UNCHANGED <<server, listed, tab, id, effect, status, shown, modal, loads, saving>>
  BY DEF RD!handleResolveReview, RD!Usable, RD!page, AtRest
<1>2. id \in RD!Rules /\ shown.rule = id /\ modal \in RD!Modes
  BY <1>1 DEF ReviewInv, ReviewTypes, ReviewRequests
<1>3. /\ RD!Displayed \subseteq DOMAIN Queue
      /\ tab = "queue" => \A i \in RD!Displayed : listed[Queue[i]] = "in_review"
  BY DEF RD!Displayed
<1>4. ReviewTypes'
  BY <1>1, <1>2, <1>3 DEF ReviewInv, ReviewTypes
<1>5. ReviewRequests'
  BY <1>1, <1>2, <1>3 DEF ReviewInv, ReviewRequests, AtRest
<1> QED BY <1>1, <1>2, <1>4, <1>5 DEF ReviewInv, RD!RequestsForShown, RD!MovesOn

LEMMA ArriveResolvedStep == ReviewInv /\ RD!ArriveResolved => ReviewInv'
<1> SUFFICES ASSUME ReviewInv, RD!ArriveResolved PROVE ReviewInv'
  OBVIOUS
<1> DEFINE next == RD!NextRule(resolving.displayed, resolving.rule)
<1>1. /\ id # None /\ resolving # None
      /\ server' = [server EXCEPT ![resolving.rule] = RD!Outcome(resolving.mode)]
      /\ shown' = [rule |-> resolving.rule, state |-> server'[resolving.rule]]
      /\ listed' = [listed EXCEPT ![resolving.rule] = RD!Outcome(resolving.mode)]
      /\ id' = next /\ effect' = (next # None /\ next # id)
      /\ modal' = None /\ resolving' = None
      /\ UNCHANGED <<tab, status, loads, saving>>
  BY DEF RD!ArriveResolved, RD!Show
<1>2. /\ resolving.rule = id /\ id \in RD!Rules /\ AtRest /\ saving = None
      /\ resolving.displayed \in SUBSET DOMAIN Queue
      /\ tab = "queue" => \A i \in resolving.displayed : listed[Queue[i]] = "in_review"
      /\ \A l \in loads : l.what # "review"
  BY <1>1 DEF ReviewInv, ReviewTypes, ReviewRequests, AtRest
<1>3. next # None => \E j \in resolving.displayed : next = Queue[j] /\ Queue[j] # id
  BY <1>2, NextIsDisplayed
<1> HIDE DEF next
<1>4. next # None => next \in RD!Rules /\ next # id /\ (tab = "queue" => listed[next] = "in_review")
  BY <1>2, <1>3, QueueRules
<1>5. RD!Outcome(resolving.mode) \in RD!States
  BY DEF RD!Outcome, RD!States
<1>6. ReviewTypes'
  <2>1. server' \in [RD!Rules -> RD!States] /\ listed' \in [RD!Rules -> RD!States]
    BY <1>1, <1>2, <1>5 DEF ReviewInv, ReviewTypes
  <2>2. shown' \in [rule : RD!Rules, state : RD!States]
    BY <1>1, <1>2, <2>1
  <2>3. status' = "ready" => shown' # None
    BY <1>1, <2>2, QueueRules
  <2> QED BY <1>1, <1>4, <2>1, <2>2, <2>3 DEF ReviewInv, ReviewTypes
<1>7. ReviewRequests'
  BY <1>1, <1>2, <1>4 DEF ReviewRequests, AtRest
<1>8. RD!MovesOn'
  BY <1>1, <1>2, <1>4 DEF ReviewInv, ReviewTypes, RD!MovesOn
<1> QED BY <1>1, <1>2, <1>6, <1>7, <1>8 DEF ReviewInv, RD!RequestsForShown

LEMMA ReviewStep == ReviewInv /\ [RD!Next]_(RD!vars) => ReviewInv'
<1> SUFFICES ASSUME ReviewInv, [RD!Next]_(RD!vars) PROVE ReviewInv'
  OBVIOUS
<1>1. CASE UNCHANGED RD!vars
  BY <1>1 DEF RD!vars, ReviewInv, ReviewTypes, ReviewRequests, AtRest, RD!RequestsForShown, RD!MovesOn
<1>2. CASE RD!Arrivals
  BY <1>2, ArriveReviewStep, ArriveSectionsStep, ArriveSaveStep, ArriveResolvedStep, FormStep
     DEF RD!Arrivals
<1> QED BY <1>1, <1>2, OpenStep, BackStep, LoadStep, FormStep, SaveStep, ResolveStep DEF RD!Next

LEMMA ReviewMeans == ReviewInv => RD!TypeOK /\ RD!RequestsForShown /\ RD!MovesOn
BY DEF ReviewInv, ReviewTypes, RD!TypeOK
-----------------------------------------------------------------------------
(* The source of a rule.  Up to a place before which no character takes    *)
(* two code units the units of a section are its characters, so that a     *)
(* span that ends there is the quote.                                      *)

LEMMA OneElement == \A x : Len(<<x>>) = 1 /\ <<x>>[1] = x
OBVIOUS

(* Characters of one code unit each are sliced one by one, whatever        *)
(* follows them.                                                           *)
LEMMA UnitsBefore ==
  ASSUME NEW C, NEW chars \in Seq(C), NEW q \in 0..Len(chars),
         \A i \in 1..q : chars[i] \notin Wide
  PROVE  /\ SV!Units(chars) \in Seq(C \X {1, 2})
         /\ Len(SV!Units(chars)) >= q
         /\ \A j \in 1..q : SV!Units(chars)[j] = <<chars[j], 1>>
         /\ q = Len(chars) => Len(SV!Units(chars)) = q
<1> DEFINE n == Len(chars)
           S == C \X {1, 2}
           u == [i \in 1..n |->
                   IF chars[i] \in Wide THEN <<<<chars[i], 1>>, <<chars[i], 2>>>>
                   ELSE <<<<chars[i], 1>>>>]
           flatten[i \in 1..Len(u)] ==
             IF i = 1 THEN u[i] ELSE flatten[i-1] \o u[i]
<1>1. n \in Nat /\ DOMAIN chars = 1..n /\ q \in 0..n
  OBVIOUS
<1>2. SV!Units(chars) = SV!FlattenSeq(u)
  BY <1>1 DEF SV!Units
<1>3. \A i \in 1..n : u[i] \in Seq(S)
  <2> TAKE i \in 1..n
  <2>1. <<chars[i], 1>> \in S /\ <<chars[i], 2>> \in S
    BY <1>1
  <2> HIDE DEF S
  <2> QED BY <2>1
<1>4. \A i \in 1..q : u[i] = <<<<chars[i], 1>>>>
  BY <1>1
<1>5. Len(u) = n /\ u \in Seq(Seq(S))
  <2> HIDE DEF S
  <2>1. u \in [1..n -> Seq(S)]
    BY <1>3
  <2> QED BY <1>1, <2>1
<1>6. CASE n = 0
  <2> HIDE DEF u, S, n
  <2>1. Len(u) = 0 /\ u = <<>>
    BY <1>5, <1>6
  <2>2. SV!FlattenSeq(u) = u
    BY <2>1 DEF SV!FlattenSeq
  <2>3. SV!Units(chars) = <<>> /\ q = 0 /\ <<>> \in Seq(S)
    BY <1>1, <1>2, <1>6, <2>1, <2>2
  <2> QED BY <2>3 DEF S
<1>7. CASE n # 0
  <2>1. SV!FlattenSeq(u) = flatten[Len(u)]
    BY <1>5, <1>7 DEF SV!FlattenSeq
  <2> HIDE DEF u, n, S
  <2>2. 1 \in 1..n /\ n \in 1..n
    BY <1>1, <1>7
(* The recursion has a solution up to every length, so it has one.         *)
  <2> DEFINE Solves(g, m) == \A i \in 1..m : g[i] = IF i = 1 THEN u[i] ELSE g[i-1] \o u[i]
             Short == {m \in 1..n : \A g : DOMAIN g = 1..m => ~Solves(g, m)}
  <2>3. Short = {}
    <3> SUFFICES ASSUME Short # {} PROVE FALSE
      OBVIOUS
    <3>1. PICK m \in Short : \A j \in Short : m <= j
      <4>1. Short \in SUBSET Nat
        BY <1>1
      <4> HIDE DEF Short
      <4> QED BY <4>1, Least
    <3>2. CASE m = 1
      <4> DEFINE g == [i \in 1..1 |-> u[1]]
      <4>1. DOMAIN g = 1..m /\ Solves(g, m)
        BY <3>2
      <4> HIDE DEF g
      <4> QED BY <3>1, <4>1
    <3>3. CASE m # 1
      <4>1. m \in 1..n /\ m - 1 \in 1..n /\ m - 1 \notin Short
        BY <1>1, <3>1, <3>3
      <4>2. PICK g : DOMAIN g = 1..(m-1) /\ Solves(g, m - 1)
        BY <4>1
      <4> DEFINE top == g[m-1] \o u[m]
                 h == [i \in 1..m |-> IF i = m THEN top ELSE g[i]]
      <4>3. \A i \in 1..m : h[i] = IF i = 1 THEN u[i] ELSE h[i-1] \o u[i]
        <5> TAKE i \in 1..m
        <5>1. CASE i = m
          <6>1. h[m] = top /\ h[m-1] = g[m-1]
            <7> HIDE DEF top
            <7> QED BY <1>1, <4>1
          <6> HIDE DEF h
          <6> QED BY <3>3, <5>1, <6>1 DEF top
        <5>2. CASE i # m
          <6>1. i \in 1..(m-1) /\ h[i] = g[i]
            BY <1>1, <4>1, <5>2
          <6>2. i # 1 => h[i-1] = g[i-1]
            BY <1>1, <4>1, <5>2
          <6>3. g[i] = IF i = 1 THEN u[i] ELSE g[i-1] \o u[i]
            BY <4>2, <6>1
          <6> HIDE DEF h
          <6> QED BY <6>1, <6>2, <6>3
        <5> QED BY <5>1, <5>2
      <4>4. DOMAIN h = 1..m
        OBVIOUS
      <4> HIDE DEF h
      <4> QED BY <3>1, <4>3, <4>4
    <3> QED BY <3>2, <3>3
  <2>4. PICK w : DOMAIN w = 1..n /\ Solves(w, n)
    BY <2>2, <2>3
  <2>5. [i \in 1..Len(u) |-> w[i]] =
          [i \in 1..Len(u) |-> IF i = 1 THEN u[i] ELSE [k \in 1..Len(u) |-> w[k]][i-1] \o u[i]]
    <3>1. \A i \in 1..n : i # 1 => i - 1 \in 1..n
      BY <1>1
    <3> QED BY <1>5, <2>4, <3>1
  <2>6. flatten = [i \in 1..Len(u) |-> IF i = 1 THEN u[i] ELSE flatten[i-1] \o u[i]]
    <3> DEFINE v == [i \in 1..Len(u) |-> w[i]]
    <3>1. v = [i \in 1..Len(u) |-> IF i = 1 THEN u[i] ELSE v[i-1] \o u[i]]
      BY <2>5
    <3> HIDE DEF v
    <3> QED BY <3>1
  <2> HIDE DEF flatten
(* What is flattened up to a place holds the narrow characters before it.  *)
  <2> DEFINE Good(i) == /\ flatten[i] \in Seq(S)
                        /\ i <= q => Len(flatten[i]) = i
                        /\ i > q => Len(flatten[i]) >= q
                        /\ \A j \in 1..q : j <= i => flatten[i][j] = <<chars[j], 1>>
             Bad == {i \in 1..n : ~Good(i)}
  <2>7. Bad = {}
    <3> SUFFICES ASSUME Bad # {} PROVE FALSE
      OBVIOUS
    <3>1. PICK i \in Bad : \A j \in Bad : i <= j
      <4>1. Bad \in SUBSET Nat
        BY <1>1
      <4> HIDE DEF Bad
      <4> QED BY <4>1, Least
    <3>2. i \in 1..n /\ ~Good(i) /\ u[i] \in Seq(S)
      BY <1>3, <3>1
    <3>3. CASE i = 1
      <4>1. flatten[1] = u[1]
        BY <1>5, <2>2, <2>6
      <4>2. 1 <= q => u[1] = <<<<chars[1], 1>>>>
        BY <1>1, <1>4
      <4>3. 1 > q => q = 0
        BY <1>1
      <4>4. \A j \in 1..q : j <= 1 => j = 1 /\ 1 <= q
        BY <1>1
      <4>5. 1 <= q => Len(u[1]) = 1 /\ u[1][1] = <<chars[1], 1>>
        BY <4>2, OneElement
      <4>6. Len(u[1]) >= 0
        BY <3>2, <3>3
      <4> QED BY <3>2, <3>3, <4>1, <4>3, <4>4, <4>5, <4>6
    <3>4. CASE i # 1
      <4>1. i - 1 \in 1..n /\ i - 1 \notin Bad
        BY <1>1, <3>1, <3>2, <3>4
      <4>2. Good(i - 1)
        BY <4>1
      <4> DEFINE before == flatten[i-1]
                 last == u[i]
      <4>3. flatten[i] = before \o last
        BY <1>5, <2>6, <3>2, <3>4
      <4>4. /\ before \in Seq(S) /\ last \in Seq(S)
            /\ i - 1 <= q => Len(before) = i - 1
            /\ i - 1 > q => Len(before) >= q
            /\ \A j \in 1..q : j <= i - 1 => before[j] = <<chars[j], 1>>
        BY <3>2, <4>2
      <4>5. i <= q => Len(last) = 1 /\ last[1] = <<chars[i], 1>>
        <5>1. i <= q => last = <<<<chars[i], 1>>>>
          BY <1>1, <1>4, <3>2
        <5> HIDE DEF last
        <5> QED BY <5>1, OneElement
      <4> HIDE DEF before, last
      <4>6. /\ before \o last \in Seq(S)
            /\ Len(before \o last) = Len(before) + Len(last)
            /\ \A j \in 1..Len(before) + Len(last) : (before \o last)[j]
                  = IF j <= Len(before) THEN before[j] ELSE last[j - Len(before)]
        BY <4>4, ConcatProperties
      <4>7. Len(before) \in Nat /\ Len(last) \in Nat
        BY <4>4
      <4> DEFINE b == Len(before)
                 l == Len(last)
      <4>a. /\ b \in Nat /\ l \in Nat /\ i \in Nat /\ q \in Nat
            /\ i - 1 <= q => b = i - 1
            /\ i - 1 > q => b >= q
            /\ i <= q => l = 1
        BY <1>1, <3>2, <4>4, <4>5, <4>7
      <4>8. i <= q => Len(before) + Len(last) = i
        <5> HIDE DEF b, l
        <5>1. i <= q => b + l = i
          BY <4>a
        <5> QED BY <5>1 DEF b, l
      <4>9. i > q => Len(before) + Len(last) >= q
        <5> HIDE DEF b, l
        <5>1. i > q => b + l >= q
          BY <4>a
        <5> QED BY <5>1 DEF b, l
      <4>10. \A j \in 1..q : j <= i => (before \o last)[j] = <<chars[j], 1>>
        <5> TAKE j \in 1..q
        <5> HAVE j <= i
        <5>1. CASE j <= i - 1
          <6>1. j <= Len(before) /\ j \in 1..Len(before) + Len(last)
            BY <1>1, <3>2, <4>4, <4>7, <5>1
          <6> QED BY <4>4, <4>6, <5>1, <6>1
        <5>2. CASE ~(j <= i - 1)
          <6>1. j = i /\ i <= q /\ Len(before) = i - 1 /\ Len(last) = 1
            BY <1>1, <3>2, <4>4, <4>5, <5>2
          <6>2. j \in 1..Len(before) + Len(last) /\ ~(j <= Len(before)) /\ j - Len(before) = 1
            BY <1>1, <3>2, <6>1
          <6> QED BY <4>5, <4>6, <6>1, <6>2
        <5> QED BY <5>1, <5>2
      <4> QED BY <3>2, <4>3, <4>6, <4>8, <4>9, <4>10
    <3> QED BY <3>3, <3>4
  <2>8. Good(n)
    BY <2>2, <2>7
  <2>9. SV!Units(chars) = flatten[n]
    BY <1>2, <1>5, <2>1
  <2>10. \A j \in 1..q : j <= n
    BY <1>1
  <2>11. n <= q => Len(flatten[n]) = n /\ n = q
    BY <1>1, <2>8
  <2>12. Len(flatten[n]) >= q
    BY <1>1, <2>8
  <2>13. /\ SV!Units(chars) \in Seq(S) /\ Len(SV!Units(chars)) >= q
         /\ \A j \in 1..q : SV!Units(chars)[j] = <<chars[j], 1>>
    BY <2>8, <2>9, <2>10, <2>12
  <2>14. q = n => Len(SV!Units(chars)) = q
    BY <1>1, <2>9, <2>11
  <2> QED BY <2>13, <2>14 DEF S, n
<1> QED BY <1>6, <1>7

(* Every non-empty set of positions of a sequence has a last one.          *)
LEMMA Last ==
  ASSUME NEW n \in Nat, NEW S \in SUBSET (1..n), S # {}
  PROVE  \E i \in S : \A j \in S : i >= j
<1> DEFINE R == {n - i : i \in S}
<1>1. R \in SUBSET Nat /\ R # {}
  <2>1. \A i \in S : n - i \in Nat
    OBVIOUS
  <2> QED BY <2>1
<1>2. PICK k \in R : \A j \in R : k <= j
  <2> HIDE DEF R
  <2> QED BY <1>1, Least
<1>3. PICK i \in S : k = n - i
  BY <1>2
<1>4. \A j \in S : n - i <= n - j
  BY <1>2, <1>3
<1>5. \A j \in S : i >= j
  <2> TAKE j \in S
  <2>1. n - i <= n - j
    BY <1>4
  <2>2. i \in Nat /\ j \in Nat
    OBVIOUS
  <2> HIDE DEF R
  <2> QED BY <2>1, <2>2, SMT
<1> QED BY <1>5

(* What is trimmed already is left as it is.                               *)
LEMMA CleanTwice ==
  ASSUME NEW C, NEW units \in Seq(C)
  PROVE  SV!cleanSourceFragment(SV!cleanSourceFragment(units))
           = SV!cleanSourceFragment(units)
<1> DEFINE text(v) == {i \in DOMAIN v : v[i][1] \notin Spaces}
           first(v) == CHOOSE i \in text(v) : \A j \in text(v) : i <= j
           last(v) == CHOOSE i \in text(v) : \A j \in text(v) : i >= j
           v == SubSeq(units, first(units), last(units))
<1>1. \A x : SV!cleanSourceFragment(x)
               = IF text(x) = {} THEN <<>> ELSE SubSeq(x, first(x), last(x))
  BY DEF SV!cleanSourceFragment
<1>2. CASE text(units) = {}
  <2>1. text(<<>>) = {}
    OBVIOUS
  <2> QED BY <1>1, <1>2, <2>1
<1>3. CASE text(units) # {}
  <2> DEFINE a == first(units)
             b == last(units)
  <2>1. text(units) \in SUBSET (1..Len(units)) /\ Len(units) \in Nat
    OBVIOUS
  <2>2. a \in text(units) /\ \A j \in text(units) : a <= j
    <3>1. \E i \in text(units) : \A j \in text(units) : i <= j
      <4>1. text(units) \in SUBSET Nat
        BY <2>1
      <4> HIDE DEF text
      <4> QED BY <1>3, <4>1, Least
    <3> QED BY <3>1
  <2>3. b \in text(units) /\ \A j \in text(units) : b >= j
    <3>1. \E i \in text(units) : \A j \in text(units) : i >= j
      <4> HIDE DEF text
      <4> QED BY <1>3, <2>1, Last
    <3> QED BY <3>1
  <2> HIDE DEF first, last, a, b
  <2>4. a \in 1..Len(units) /\ b \in 1..Len(units) /\ a <= b
        /\ units[a][1] \notin Spaces /\ units[b][1] \notin Spaces
    BY <2>1, <2>2, <2>3
  <2>5. v = SubSeq(units, a, b)
    BY DEF a, b
  <2>6. /\ v \in Seq(C) /\ Len(v) = b - a + 1
        /\ \A k \in 1..Len(v) : v[k] = units[a + k - 1]
    <3> HIDE DEF v
    <3> QED BY <2>4, <2>5
  <2> HIDE DEF v
  <2>7. 1 \in text(v) /\ Len(v) \in text(v) /\ text(v) \subseteq 1..Len(v)
    BY <2>4, <2>6
  <2>8. first(v) = 1 /\ last(v) = Len(v)
    <3>1. \A i \in text(v) : (\A j \in text(v) : i <= j) <=> i = 1
      BY <2>6, <2>7
    <3>2. \A i \in text(v) : (\A j \in text(v) : i >= j) <=> i = Len(v)
      BY <2>6, <2>7
    <3> HIDE DEF text
    <3> QED BY <2>7, <3>1, <3>2 DEF first, last
  <2>9. SubSeq(v, 1, Len(v)) = v
    BY <2>6
  <2> QED BY <1>1, <1>3, <2>7, <2>8, <2>9 DEF v
<1> QED BY <1>2, <1>3

(* Until the reviewer browses, the section in view is the cited one.       *)
SourceInv ==
  /\ SV!TypeOK /\ SV!ContextIsCited
  /\ citation # None /\ status = "ready" /\ ~picked => selected = citation.section

LEMMA SectionFacts ==
  /\ Sections # <<>> => 1 \in DOMAIN Sections
  /\ \A i \in DOMAIN Sections :
       /\ Sections[i].content \in Seq(SV!Range(Sections[i].content))
       /\ Sections[i].start_char \in Nat
       /\ Sections[i].end_char = Sections[i].start_char + Len(Sections[i].content)
       /\ Sections[i].id \in SV!Ids
       /\ SV!SectionOf(Sections[i].id) = Sections[i]
<1>1. SV!SectionAssumption
  BY PagesAssumption
<1>2. Sections # <<>> => 1 \in DOMAIN Sections
  <2>1. Sections \in Seq(SV!Range(Sections))
    BY <1>1 DEF SV!SectionAssumption
  <2> QED BY <2>1, EmptySeq
<1>3. ASSUME NEW i \in DOMAIN Sections
      PROVE  SV!SectionOf(Sections[i].id) = Sections[i]
  <2>1. \A j \in DOMAIN Sections : Sections[j].id = Sections[i].id <=> j = i
    BY <1>1 DEF SV!SectionAssumption
  <2> QED BY <2>1 DEF SV!SectionOf
<1> QED BY <1>1, <1>2, <1>3 DEF SV!SectionAssumption, SV!Ids

(* A Citation is a span of a section and its text.                         *)
LEMMA CitedSpan ==
  ASSUME NEW c \in SV!Citations
  PROVE  \E i \in DOMAIN Sections, p, q \in Nat :
           /\ p < q /\ q <= Len(Sections[i].content)
           /\ c.section = Sections[i].id
           /\ c.start_char = Sections[i].start_char + p
           /\ c.end_char = Sections[i].start_char + q
           /\ c.quote = SubSeq(Sections[i].content, p + 1, q)
<1>1. PICK i \in DOMAIN Sections :
        c \in {SV!Anchor(Sections[i], pp[1], pp[2]) :
                 pp \in {q \in (0..Len(Sections[i].content)) \X
                               (0..Len(Sections[i].content)) : q[1] < q[2]}}
  BY DEF SV!Citations
<1>2. PICK pp \in (0..Len(Sections[i].content)) \X (0..Len(Sections[i].content)) :
        pp[1] < pp[2] /\ c = SV!Anchor(Sections[i], pp[1], pp[2])
  BY <1>1
<1>3. Len(Sections[i].content) \in Nat
  BY SectionFacts
<1>4. pp[1] \in Nat /\ pp[2] \in Nat /\ pp[2] <= Len(Sections[i].content)
  BY <1>2, <1>3
<1>5. /\ c.section = Sections[i].id
      /\ c.start_char = Sections[i].start_char + pp[1]
      /\ c.end_char = Sections[i].start_char + pp[2]
      /\ c.quote = SubSeq(Sections[i].content, pp[1] + 1, pp[2])
  BY <1>2 DEF SV!Anchor
<1> QED BY <1>2, <1>4, <1>5

(* The passage cut out of the section of a Citation reads as its quote, if *)
(* the section is Narrow up to its end.                                    *)
LEMMA HighlightIsQuote ==
  ASSUME NEW c \in SV!Citations, SV!Narrow(c)
  PROVE  SV!cleanSourceFragment(SV!splitSectionCitation(SV!SectionOf(c.section), c).highlight)
           = SV!cleanSourceFragment(SV!Units(c.quote))
<1>1. PICK i \in DOMAIN Sections, p \in Nat, q \in Nat :
           /\ p < q /\ q <= Len(Sections[i].content)
           /\ c.section = Sections[i].id
           /\ c.start_char = Sections[i].start_char + p
           /\ c.end_char = Sections[i].start_char + q
           /\ c.quote = SubSeq(Sections[i].content, p + 1, q)
  BY CitedSpan
<1> DEFINE s == Sections[i]
           t == s.content
           C == SV!Range(t)
<1>2. /\ t \in Seq(C) /\ s.start_char \in Nat
      /\ s.end_char = s.start_char + Len(t)
      /\ SV!SectionOf(c.section) = s
  BY <1>1, SectionFacts
<1>3. \A k \in 1..q : t[k] \notin Wide
  <2>1. c.end_char - s.start_char = q
    BY <1>1, <1>2
  <2> QED BY <1>2, <2>1 DEF SV!Narrow
<1> HIDE DEF s, t, C
<1>4. /\ p < q /\ q <= Len(t) /\ c.quote = SubSeq(t, p + 1, q)
      /\ c.start_char = s.start_char + p /\ c.end_char = s.start_char + q
  BY <1>1 DEF s, t
<1>14. q - p \in Nat /\ \A j \in 1..(q - p) : p + j \in 1..Len(t)
  <2> DEFINE n == Len(t)
  <2>1. n \in Nat /\ q <= n
    BY <1>2, <1>4
  <2> HIDE DEF n
  <2>2. \A j \in 1..(q - p) : p + j \in 1..n
    BY <1>4, <2>1
  <2> QED BY <1>4, <2>2 DEF n
<1>5. /\ SV!Units(t) \in Seq(C \X {1, 2}) /\ Len(SV!Units(t)) >= q
      /\ \A j \in 1..q : SV!Units(t)[j] = <<t[j], 1>>
  <2>1. q \in 0..Len(t)
    BY <1>2, <1>4
  <2> QED BY <1>2, <1>3, <2>1, UnitsBefore
<1>6. /\ c.quote \in Seq(C) /\ Len(c.quote) = q - p
      /\ \A j \in 1..(q - p) : c.quote[j] = t[p + j]
  BY <1>2, <1>4
<1>7. /\ SV!Units(c.quote) \in Seq(C \X {1, 2}) /\ Len(SV!Units(c.quote)) = q - p
      /\ \A j \in 1..(q - p) : SV!Units(c.quote)[j] = <<t[p + j], 1>>
  <2>1. \A j \in 1..(q - p) : c.quote[j] \notin Wide
    <3>1. \A j \in 1..(q - p) : p + j \in 1..q
      BY <1>4
    <3> QED BY <1>3, <1>6, <3>1
  <2>2. q - p \in 0..Len(c.quote)
    BY <1>4, <1>6, <1>14
  <2> DEFINE m == q - p
  <2>3. /\ SV!Units(c.quote) \in Seq(C \X {1, 2})
        /\ \A j \in 1..m : SV!Units(c.quote)[j] = <<c.quote[j], 1>>
        /\ m = Len(c.quote) => Len(SV!Units(c.quote)) = m
    <3>1. m \in 0..Len(c.quote) /\ \A j \in 1..m : c.quote[j] \notin Wide
      BY <2>1, <2>2
    <3> HIDE DEF m
    <3> QED BY <1>6, <3>1, UnitsBefore
  <2> QED BY <1>6, <2>3
<1>10. SV!slice(SV!Units(t), p, q) = SV!Units(c.quote)
  <2> DEFINE u == SV!Units(t)
             v == SV!Units(c.quote)
             S == C \X {1, 2}
  <2>1. u \in Seq(S) /\ Len(u) >= q /\ \A j \in 1..q : u[j] = <<t[j], 1>>
    BY <1>5
  <2>2. v \in Seq(S) /\ Len(v) = q - p /\ \A j \in 1..(q - p) : v[j] = <<t[p + j], 1>>
    BY <1>7
  <2> HIDE DEF u, v, S
  <2>3. SV!slice(u, p, q) = SubSeq(u, p + 1, q)
    <3>1. q < Len(u) \/ q = Len(u)
      BY <2>1
    <3> QED BY <3>1 DEF SV!slice
  <2>4. /\ SubSeq(u, p + 1, q) \in Seq(S) /\ Len(SubSeq(u, p + 1, q)) = q - p
        /\ \A j \in 1..(q - p) : SubSeq(u, p + 1, q)[j] = u[p + j]
    BY <1>4, <2>1
  <2>5. \A j \in 1..(q - p) : p + j \in 1..q
    BY <1>4
  <2>6. \A j \in 1..(q - p) : SubSeq(u, p + 1, q)[j] = v[j]
    BY <2>1, <2>2, <2>4, <2>5
  <2> DEFINE w == SubSeq(u, p + 1, q)
  <2>7. w \in Seq(S) /\ Len(w) = Len(v) /\ \A j \in 1..Len(v) : w[j] = v[j]
    BY <2>2, <2>4, <2>6
  <2> HIDE DEF w
  <2>8. w = v
    BY <2>2, <2>7
  <2> QED BY <2>3, <2>8 DEF u, v, w
<1> DEFINE cleaned == SV!cleanSourceFragment(SV!Units(c.quote))
           from == IF c.start_char > s.start_char THEN c.start_char ELSE s.start_char
           to == IF c.end_char < s.end_char THEN c.end_char ELSE s.end_char
<1>11. from - s.start_char = p /\ to - s.start_char = q
  BY <1>2, <1>4
<1>12. SV!splitSectionCitation(s, c).highlight
         = IF cleaned = <<>> THEN SV!Units(c.quote) ELSE cleaned
  <2>1. SV!Units(s.content) = SV!Units(t)
    BY DEF t
  <2>2. SV!cleanSourceFragment(SV!slice(SV!Units(s.content), from - s.start_char,
                                        to - s.start_char)) = cleaned
    BY <1>10, <1>11, <2>1
  <2> QED BY <2>2 DEF SV!splitSectionCitation
<1>13. SV!cleanSourceFragment(cleaned) = cleaned
  BY <1>7, CleanTwice
<1> QED BY <1>2, <1>12, <1>13

LEMMA SourceInit == SV!Init => SourceInv
BY DEF SV!Init, SourceInv, SV!TypeOK, SV!ContextIsCited

LEMMA SourceStep == SourceInv /\ [SV!Next]_(SV!vars) => SourceInv'
<1> SUFFICES ASSUME SourceInv, [SV!Next]_(SV!vars) PROVE SourceInv'
  OBVIOUS
<1> USE DEF SourceInv, SV!TypeOK, SV!ContextIsCited, SV!viewingCitedSection, SV!canBrowse
<1>0. CASE UNCHANGED SV!vars
  BY <1>0 DEF SV!vars
<1>1. CASE \E cit \in SV!Citations \cup {None}, same \in BOOLEAN :
             SV!loadReview(cit, cit # None /\ same)
  BY <1>1 DEF SV!loadReview
<1>2. CASE SV!loadSourceDocumentSections
  <2>1. citation # None => citation.section \in SV!Ids
    <3> SUFFICES ASSUME citation # None PROVE citation.section \in SV!Ids
      OBVIOUS
    <3>1. \E i \in DOMAIN Sections : citation.section = Sections[i].id
      BY CitedSpan
    <3> QED BY <3>1, SectionFacts
  <2>2. Sections # <<>> => Sections[1].id \in SV!Ids
    BY SectionFacts
  <2> QED BY <1>2, <2>1, <2>2 DEF SV!loadSourceDocumentSections
<1>3. CASE \E b \in BOOLEAN : SV!Browse(b)
  BY <1>3 DEF SV!Browse
<1>4. CASE \E q \in Queries : SV!setSectionFilter(q)
  BY <1>4 DEF SV!setSectionFilter
<1>5. CASE \E s \in SV!Ids : SV!handleSectionSelect(s)
  BY <1>5 DEF SV!handleSectionSelect
<1>6. CASE SV!toggleContext
  BY <1>6 DEF SV!toggleContext
<1>7. CASE \E same \in BOOLEAN : SV!EditStatement(same)
  BY <1>7 DEF SV!EditStatement
<1>8. CASE \E cit \in SV!Citations, same \in BOOLEAN : SV!SaveAnchors(cit, same)
  BY <1>8 DEF SV!SaveAnchors
<1> QED BY <1>0, <1>1, <1>2, <1>3, <1>4, <1>5, <1>6, <1>7, <1>8 DEF SV!Next

LEMMA SourceMeans == SourceInv => SV!TypeOK /\ SV!ContextIsCited /\ SV!QuoteInView
<1> SUFFICES ASSUME SourceInv, citation # None, ~matches, ~picked,
                    full => SV!Narrow(citation)
             PROVE  SV!cleanSourceFragment(SV!CitationStrip)
                      = SV!cleanSourceFragment(SV!Units(citation.quote))
  BY DEF SourceInv, SV!QuoteInView
<1>1. citation \in SV!Citations
  BY DEF SourceInv, SV!TypeOK
<1>2. CASE SV!CitationStrip = SV!Units(citation.quote)
  BY <1>2
<1>3. CASE SV!CitationStrip # SV!Units(citation.quote)
  <2>1. status = "ready" /\ selected = citation.section
    BY <1>3 DEF SV!CitationStrip, SourceInv, SV!TypeOK
  <2>2. /\ full
        /\ SV!CitationStrip =
             SV!splitSectionCitation(SV!SectionOf(citation.section), citation).highlight
    BY <1>3, <2>1 DEF SV!CitationStrip, SV!viewingCitedSection, SV!SourceCitationView
  <2> QED BY <1>1, <2>2, HighlightIsQuote
<1> QED BY <1>2, <1>3
-----------------------------------------------------------------------------
(* The form of a rule.  What the server stored, read back into the form, is *)
(* what was sent: so a saved form has nothing to save.                     *)

LEMMA EditorNull ==
  /\ RE!Empty \in RE!Text /\ RE!LessOrEqual \in RE!Text
  /\ \A w \in EditorWords \cup {""} : RE!Trimmed(w) \in RE!Text
  /\ None \notin RE!Text /\ None \notin RE!ConditionDraft /\ None \notin RE!Applicability
  /\ None \notin Currencies \cup Fragments /\ "" \notin Currencies \cup Fragments
  /\ "" \notin EditorWords
BY PagesAssumption DEF RE!DraftAssumption, RE!Empty, RE!LessOrEqual, RE!Trimmed, RE!Text

(* Trimming keeps the word.                                                *)
LEMMA TrimTyped ==
  ASSUME NEW t \in RE!Text
  PROVE  /\ RE!normalizeRequiredString(t) \in RE!Text
         /\ RE!normalizeRequiredString(t) = RE!Empty <=> t.word = ""
         /\ RE!normalizeRequiredString(RE!normalizeRequiredString(t))
              = RE!normalizeRequiredString(t)
         /\ RE!normalizeOptionalString(t) \in RE!Text \cup {None}
         /\ RE!normalizeOptionalString(t) = None <=> t.word = ""
         /\ RE!OrEmpty(RE!normalizeOptionalString(t)) = RE!normalizeRequiredString(t)
BY EditorNull DEF RE!normalizeRequiredString, RE!normalizeOptionalString, RE!Trimmed,
   RE!Text, RE!Empty, RE!OrEmpty

LEMMA EditorChosen ==
  \A s, P : RE!Chosen(s, P) = ChosenFrom(s, P)
BY DEF RE!Chosen, ChosenFrom, RE!Cardinality, Cardinality

LEMMA EvidenceTyped ==
  ASSUME NEW items \in Seq(RE!Text)
  PROVE  /\ RE!Evidence(items) \in Seq(RE!Text)
         /\ RE!Evidence(items) # <<>> => \E i \in DOMAIN items : items[i].word # ""
<1> DEFINE texts == [i \in DOMAIN items |-> RE!normalizeRequiredString(items[i])]
           P == {i \in DOMAIN items : texts[i] # RE!Empty}
<1>1. \A i \in DOMAIN items : items[i] \in RE!Text
  OBVIOUS
<1>2. texts \in Seq(RE!Text) /\ DOMAIN texts = DOMAIN items
  <2>1. \A i \in DOMAIN items : RE!normalizeRequiredString(items[i]) \in RE!Text
    BY <1>1, TrimTyped
  <2>2. DOMAIN items = 1..Len(items) /\ Len(items) \in Nat
    OBVIOUS
  <2> QED BY <2>1, <2>2
<1>3. RE!Evidence(items) = ChosenFrom(texts, P)
  BY EditorChosen DEF RE!Evidence
<1>4. \A i \in P : items[i].word # ""
  BY <1>1, TrimTyped
<1>5. P \in SUBSET DOMAIN texts
  BY <1>2
<1> HIDE DEF texts
<1>6. ChosenFrom(texts, P) \in Seq(RE!Text) /\ (P = {} => ChosenFrom(texts, P) = <<>>)
  <2> HIDE DEF P
  <2> QED BY <1>2, <1>5, ChosenElements
<1> QED BY <1>3, <1>4, <1>6

LEMMA ExceptionTyped ==
  ASSUME NEW e \in RE!ExceptionDraft
  PROVE  /\ RE!NormalizedException(e) \in RE!ExceptionDraft
         /\ RE!NormalizedException(e).description = RE!normalizeRequiredString(e.description)
BY TrimTyped, EvidenceTyped DEF RE!NormalizedException, RE!ExceptionDraft

LEMMA PayloadTyped ==
  ASSUME NEW es \in Seq(RE!ExceptionDraft)
  PROVE  /\ RE!normalizeExceptionPayload(es) \in Seq(RE!ExceptionDraft)
         /\ DOMAIN RE!normalizeExceptionPayload(es) = DOMAIN es
         /\ \A i \in DOMAIN es :
              RE!normalizeExceptionPayload(es)[i] = RE!NormalizedException(es[i])
<1>1. \A i \in DOMAIN es : RE!NormalizedException(es[i]) \in RE!ExceptionDraft
  BY ExceptionTyped
<1> QED BY <1>1 DEF RE!normalizeExceptionPayload

KeptAt(es) == {i \in DOMAIN es : \/ RE!normalizeExceptionPayload(es)[i].description # RE!Empty
                               \/ RE!normalizeExceptionPayload(es)[i].evidence # <<>>}
LEMMA BuiltTyped ==
  ASSUME NEW es \in Seq(RE!ExceptionDraft)
  PROVE  /\ RE!buildExceptionsFromDraft(es) \in Seq(RE!ExceptionDraft)
         /\ \A k \in DOMAIN RE!buildExceptionsFromDraft(es) :
              \E i \in KeptAt(es) :
                RE!buildExceptionsFromDraft(es)[k] = RE!normalizeExceptionPayload(es)[i]
         /\ KeptAt(es) = DOMAIN es =>
              RE!buildExceptionsFromDraft(es) = RE!normalizeExceptionPayload(es)
         /\ KeptAt(es) = {} => RE!buildExceptionsFromDraft(es) = <<>>
<1> DEFINE whole == RE!normalizeExceptionPayload(es)
           P == KeptAt(es)
<1>1. whole \in Seq(RE!ExceptionDraft) /\ DOMAIN whole = DOMAIN es
  BY PayloadTyped
<1>2. RE!buildExceptionsFromDraft(es) = ChosenFrom(whole, P)
  BY EditorChosen DEF RE!buildExceptionsFromDraft, KeptAt
<1>3. P \in SUBSET DOMAIN whole
  BY <1>1 DEF KeptAt
<1> HIDE DEF whole, P
<1>4. /\ ChosenFrom(whole, P) \in Seq(RE!ExceptionDraft)
      /\ \A k \in DOMAIN ChosenFrom(whole, P) : \E i \in P : ChosenFrom(whole, P)[k] = whole[i]
      /\ P = {} => ChosenFrom(whole, P) = <<>>
      /\ P = DOMAIN whole => ChosenFrom(whole, P) = whole
  BY <1>1, <1>3, ChosenElements
<1> QED BY <1>1, <1>2, <1>4 DEF whole, P

LEMMA ConditionTyped ==
  ASSUME NEW c \in RE!ConditionDraft
  PROVE  /\ RE!buildRequiredConditionFromDraft(c) \in RE!ConditionDraft
         /\ RE!buildConditionFromDraft(c) \in RE!ConditionDraft \cup {None}
         /\ RE!buildConditionFromDraft(c) = None
              <=> \A k \in {"field", "operator", "value"} : c[k].word = ""
         /\ RE!buildConditionFromDraft(c) # None =>
              RE!buildConditionFromDraft(c) = RE!buildRequiredConditionFromDraft(c)
<1> DEFINE b == RE!buildRequiredConditionFromDraft(c)
<1>1. \A k \in {"field", "operator", "value"} : c[k] \in RE!Text
  BY DEF RE!ConditionDraft
<1>2. b = [k \in {"field", "operator", "value"} |-> RE!normalizeRequiredString(c[k])]
  BY DEF RE!buildRequiredConditionFromDraft
<1>3. b = [field |-> RE!normalizeRequiredString(c["field"]),
           operator |-> RE!normalizeRequiredString(c["operator"]),
           value |-> RE!normalizeRequiredString(c["value"])]
  BY <1>2
<1>7. \A k \in {"field", "operator", "value"} : RE!normalizeRequiredString(c[k]) \in RE!Text
  BY <1>1, TrimTyped
<1>4. b \in RE!ConditionDraft
  BY <1>3, <1>7 DEF RE!ConditionDraft
<1>5. (\A k \in DOMAIN b : b[k] = RE!Empty)
        <=> \A k \in {"field", "operator", "value"} : c[k].word = ""
  BY <1>1, <1>2, TrimTyped
<1>6. b # None
  BY <1>4, EditorNull
<1> QED BY <1>4, <1>5, <1>6 DEF RE!buildConditionFromDraft

LEMMA ApplicabilityTyped ==
  ASSUME NEW a \in RE!ApplicabilityDraft
  PROVE  /\ RE!AsApplicability(a) \in RE!Applicability
         /\ RE!buildApplicabilityFromDraft(a) \in RE!Applicability \cup {None}
         /\ RE!buildApplicabilityFromDraft(a) = None <=> ~RE!ApplicabilityTouched(a)
         /\ RE!normalizeCurrencyForSave(a.currency) \in Currencies \cup Fragments \cup {None}
<1>1. /\ a.period \in Periods \cup {""} /\ a.unit \in RE!Text
      /\ a.currency \in {""} \cup Currencies \cup Fragments /\ a.basis \in RE!Text
  BY DEF RE!ApplicabilityDraft, RE!CurrencyDraft
<1>2. RE!normalizeCurrencyForSave(a.currency) \in Currencies \cup Fragments \cup {None}
  BY <1>1 DEF RE!normalizeCurrencyForSave
<1>3. RE!AsApplicability(a) \in RE!Applicability
  BY <1>1, <1>2, TrimTyped DEF RE!AsApplicability, RE!Applicability
<1> QED BY <1>2, <1>3, EditorNull DEF RE!buildApplicabilityFromDraft

DraftForm == [statement : RE!Text, class : RE!Classes, scope : [ScopeFields -> RE!Text],
              condition : RE!ConditionDraft, applicability : RE!ApplicabilityDraft,
              exceptions : Seq(RE!ExceptionDraft)]

LEMMA ValueTyped ==
  ASSUME NEW d \in DraftForm
  PROVE  RE!DraftValue(d) \in RE!RuleValue
<1>1. /\ d.statement \in RE!Text /\ d.class \in RE!Classes
      /\ \A f \in ScopeFields : d.scope[f] \in RE!Text
      /\ d.condition \in RE!ConditionDraft /\ d.applicability \in RE!ApplicabilityDraft
      /\ d.exceptions \in Seq(RE!ExceptionDraft)
  BY DEF DraftForm
<1>2. RE!buildScopeFromDraft(d.scope) \in [ScopeFields -> RE!Text \cup {None}]
  BY <1>1, TrimTyped DEF RE!buildScopeFromDraft
<1>3. RE!normalizeRequiredString(d.statement) \in RE!Text
  BY <1>1, TrimTyped
<1>4. RE!buildConditionFromDraft(d.condition) \in RE!ConditionDraft \cup {None}
  BY <1>1, ConditionTyped
<1>5. RE!buildApplicabilityFromDraft(d.applicability) \in RE!Applicability \cup {None}
  BY <1>1, ApplicabilityTyped
<1>6. RE!buildExceptionsFromDraft(d.exceptions) \in Seq(RE!ExceptionDraft)
  BY <1>1, BuiltTyped
<1> QED BY <1>1, <1>2, <1>3, <1>4, <1>5, <1>6 DEF RE!DraftValue, RE!RuleValue

LEMMA CreatedTyped ==
  ASSUME NEW r \in RE!RuleValue
  PROVE  /\ RE!createRuleDraft(r) \in DraftForm
         /\ RE!createRuleDraft(r).exceptions # <<>>
<1> DEFINE c == RE!createRuleDraft(r)
<1>1. /\ r.statement \in RE!Text /\ r.class \in RE!Classes
      /\ \A f \in ScopeFields : r.scope[f] \in RE!Text \cup {None}
      /\ r.condition \in RE!ConditionDraft \cup {None}
      /\ r.applicability \in RE!Applicability \cup {None}
      /\ r.exceptions \in Seq(RE!ExceptionDraft)
  BY DEF RE!RuleValue
<1>2. c.scope \in [ScopeFields -> RE!Text]
  BY <1>1, EditorNull DEF RE!createRuleDraft, RE!OrEmpty
<1>3. c.condition \in RE!ConditionDraft
  BY <1>1, EditorNull DEF RE!createRuleDraft, RE!ConditionDraft
<1>4. c.applicability \in RE!ApplicabilityDraft
  <2>1. CASE r.applicability = None
    BY <2>1, EditorNull DEF RE!createRuleDraft, RE!ApplicabilityDraft, RE!NoApplicability, RE!CurrencyDraft
  <2>2. CASE r.applicability # None
    <3> DEFINE a == r.applicability
    <3>1. /\ a.period \in Periods \cup {""} /\ a.unit \in RE!Text
          /\ a.currency \in Currencies \cup Fragments \cup {None}
          /\ a.basis \in RE!Text \cup {None}
      BY <1>1, <2>2 DEF RE!Applicability
    <3>2. RE!OrEmpty(a.basis) \in RE!Text
      BY <3>1, EditorNull DEF RE!OrEmpty
    <3>3. (IF a.currency = None THEN "" ELSE a.currency) \in {""} \cup Currencies \cup Fragments
      BY <3>1
    <3> QED BY <2>2, <3>1, <3>2, <3>3
            DEF RE!createRuleDraft, RE!ApplicabilityDraft, RE!CurrencyDraft
  <2> QED BY <2>1, <2>2
<1>5. c.exceptions \in Seq(RE!ExceptionDraft) /\ c.exceptions # <<>>
  <2>1. RE!EmptyException \in RE!ExceptionDraft
    <3>1. <<>> \in Seq(RE!Text)
      BY EmptySeq
    <3> QED BY <3>1, EditorNull DEF RE!EmptyException, RE!ExceptionDraft
  <2>2. <<RE!EmptyException>> \in Seq(RE!ExceptionDraft) /\ <<RE!EmptyException>> # <<>>
    <3> DEFINE e == RE!EmptyException
               E == RE!ExceptionDraft
    <3>1. e \in E
      BY <2>1
    <3> HIDE DEF e, E
    <3>2. <<e>> \in Seq(E) /\ Len(<<e>>) = 1
      BY <3>1
    <3>3. <<e>> # <<>>
      BY <3>2
    <3> QED BY <3>2, <3>3 DEF e, E
  <2> QED BY <1>1, <2>2 DEF RE!createRuleDraft
<1>6. c = [statement |-> r.statement, class |-> r.class, scope |-> c.scope,
           condition |-> c.condition, applicability |-> c.applicability,
           exceptions |-> c.exceptions]
  BY DEF RE!createRuleDraft
<1> HIDE DEF c
<1>7. c \in DraftForm
  BY <1>1, <1>2, <1>3, <1>4, <1>5, <1>6 DEF DraftForm
<1> QED BY <1>5, <1>7 DEF c

(* The draft holds nothing that a save would send.                         *)
CleanForm(d, r) == \A p \in RE!Parts : RE!DraftValue(d)[p] = RE!Normalized(r, p)

LEMMA NothingToSend ==
  ASSUME NEW d, NEW r
  PROVE  (Cardinality(DOMAIN RE!buildCandidateRuleUpdatePayload(d, r)) = 0) <=> CleanForm(d, r)
<1> DEFINE P == DOMAIN RE!buildCandidateRuleUpdatePayload(d, r)
<1>1. P = {p \in RE!Parts : RE!DraftValue(d)[p] # RE!Normalized(r, p)}
  BY DEF RE!buildCandidateRuleUpdatePayload
<1>2. IsFiniteSet(RE!Parts)
  <2>1. RE!Parts = {"statement"} \cup {"class"} \cup {"scope"} \cup {"condition"}
                     \cup {"applicability"} \cup {"exceptions"}
    BY DEF RE!Parts
  <2>2. \A x : IsFiniteSet({x})
    BY FS_Singleton
  <2> QED BY <2>1, <2>2, FS_Union
<1>3. IsFiniteSet(P)
  BY <1>1, <1>2, FS_Subset
<1>4. Cardinality(P) = 0 <=> P = {}
  BY <1>3, FS_EmptySet
<1>5. P = {} <=> CleanForm(d, r)
  BY <1>1 DEF CleanForm
<1> QED BY <1>4, <1>5

(* What the server stores of a body laid over a rule.                      *)
LEMMA PatchedParts ==
  ASSUME NEW r \in RE!RuleValue, NEW d \in DraftForm
  PROVE  LET new == RE!Patched(r, RE!buildCandidateRuleUpdatePayload(d, r))
             v == RE!DraftValue(d)
         IN /\ new \in RE!RuleValue
            /\ new.statement = v.statement /\ new.class = v.class
            /\ new.scope = v.scope /\ new.condition = v.condition
            /\ new.applicability = RE!StoredCurrency(v.applicability)
            /\ \/ new.exceptions = v.exceptions
               \/ v.exceptions = RE!normalizeExceptionPayload(new.exceptions)
<1> DEFINE body == RE!buildCandidateRuleUpdatePayload(d, r)
           new == RE!Patched(r, body)
           v == RE!DraftValue(d)
           merged == [p \in DOMAIN r |-> IF p \in DOMAIN body THEN body[p] ELSE r[p]]
           x == IF v.exceptions # RE!normalizeExceptionPayload(r.exceptions)
                THEN v.exceptions ELSE r.exceptions
<1>1. v \in RE!RuleValue
  BY ValueTyped
<1>2. DOMAIN r = RE!Parts /\ r = [p \in RE!Parts |-> r[p]]
  BY DEF RE!RuleValue, RE!Parts
<1>3. DOMAIN body = {p \in RE!Parts : v[p] # RE!Normalized(r, p)}
      /\ \A p \in DOMAIN body : body[p] = v[p]
  BY DEF RE!buildCandidateRuleUpdatePayload
<1> HIDE DEF body, v
<1>4. merged = [p \in RE!Parts |-> IF v[p] # RE!Normalized(r, p) THEN v[p] ELSE r[p]]
  BY <1>2, <1>3
<1>5. merged = [statement |-> v.statement, class |-> v.class, scope |-> v.scope,
                condition |-> v.condition, applicability |-> v.applicability,
                exceptions |-> x]
  BY <1>4 DEF RE!Parts, RE!Normalized
<1>6. x \in Seq(RE!ExceptionDraft)
  BY <1>1 DEF RE!RuleValue
<1> HIDE DEF x
<1>7. RE!StoredCurrency(v.applicability) \in RE!Applicability \cup {None}
  <2>1. CASE v.applicability = None
    BY <2>1 DEF RE!StoredCurrency
  <2>2. CASE v.applicability # None
    <3>1. v.applicability \in RE!Applicability
      BY <1>1, <2>2 DEF RE!RuleValue
    <3>2. [v.applicability EXCEPT !.currency = None] \in RE!Applicability
      BY <3>1 DEF RE!Applicability
    <3> QED BY <3>1, <3>2 DEF RE!StoredCurrency
  <2> QED BY <2>1, <2>2
<1>8. new = [merged EXCEPT !.applicability = RE!StoredCurrency(@)]
  BY DEF RE!Patched
<1> HIDE DEF merged, new
<1>9. new = [statement |-> v.statement, class |-> v.class, scope |-> v.scope,
             condition |-> v.condition, applicability |-> RE!StoredCurrency(v.applicability),
             exceptions |-> x]
  BY <1>5, <1>8
<1>10. new \in RE!RuleValue
  BY <1>1, <1>6, <1>7, <1>9 DEF RE!RuleValue
<1>11. new.exceptions = v.exceptions \/ v.exceptions = RE!normalizeExceptionPayload(new.exceptions)
  BY <1>9 DEF x
<1> QED BY <1>9, <1>10, <1>11 DEF new, v, body

(* Building the parts of a draft from what was built changes nothing.      *)
LEMMA ScopeAgain ==
  ASSUME NEW t \in RE!Text
  PROVE  RE!normalizeOptionalString(RE!OrEmpty(RE!normalizeOptionalString(t)))
           = RE!normalizeOptionalString(t)
<1>1. RE!OrEmpty(RE!normalizeOptionalString(t)) = RE!normalizeRequiredString(t)
  BY TrimTyped
<1>2. RE!normalizeRequiredString(t).word = t.word
  BY DEF RE!normalizeRequiredString, RE!Trimmed
<1> QED BY <1>1, <1>2 DEF RE!normalizeOptionalString, RE!normalizeRequiredString

LEMMA ConditionAgain ==
  ASSUME NEW d \in RE!ConditionDraft,
         NEW c, c = IF RE!buildConditionFromDraft(d) = None
                    THEN [field |-> RE!Empty, operator |-> RE!Empty, value |-> RE!Empty]
                    ELSE RE!buildConditionFromDraft(d)
  PROVE  RE!buildConditionFromDraft(c) = RE!buildConditionFromDraft(d)
<1>1. CASE RE!buildConditionFromDraft(d) = None
  <2>1. c = [field |-> RE!Empty, operator |-> RE!Empty, value |-> RE!Empty]
    BY <1>1
  <2>2. c \in RE!ConditionDraft
    <3>1. RE!Empty \in RE!Text
      BY EditorNull
    <3> QED BY <2>1, <3>1 DEF RE!ConditionDraft
  <2>3. \A k \in {"field", "operator", "value"} : c[k] = RE!Empty
    BY <2>1
  <2>4. RE!Empty.word = ""
    BY DEF RE!Empty, RE!Trimmed
  <2> QED BY <1>1, <2>2, <2>3, <2>4, ConditionTyped
<1>2. CASE RE!buildConditionFromDraft(d) # None
  <2>1. c = RE!buildRequiredConditionFromDraft(d)
    BY <1>2, ConditionTyped
  <2>2. \A k \in {"field", "operator", "value"} : c[k] = RE!normalizeRequiredString(d[k])
    BY <2>1 DEF RE!buildRequiredConditionFromDraft
  <2>3. \A k \in {"field", "operator", "value"} :
          RE!normalizeRequiredString(c[k]) = RE!normalizeRequiredString(d[k])
    <3>1. \A k : RE!normalizeRequiredString(RE!normalizeRequiredString(d[k]))
                  = RE!normalizeRequiredString(d[k])
      BY DEF RE!normalizeRequiredString, RE!Trimmed
    <3> QED BY <2>2, <3>1
  <2>4. RE!buildRequiredConditionFromDraft(c) = RE!buildRequiredConditionFromDraft(d)
    BY <2>3 DEF RE!buildRequiredConditionFromDraft
  <2> QED BY <2>4 DEF RE!buildConditionFromDraft
<1> QED BY <1>1, <1>2

DraftOf(n) == [period |-> n.period, unit |-> n.unit,
               currency |-> IF n.currency = None THEN "" ELSE n.currency,
               basis |-> RE!OrEmpty(n.basis)]
LEMMA ApplicabilityAgain ==
  ASSUME NEW a \in RE!ApplicabilityDraft,
         NEW n, n = RE!StoredCurrency(RE!buildApplicabilityFromDraft(a)),
         RE!ValidApplicability(n)
  PROVE  RE!buildApplicabilityFromDraft(IF n = None THEN RE!NoApplicability ELSE DraftOf(n)) = n
<1>1. CASE n = None
  <2>1. ~RE!ApplicabilityTouched(RE!NoApplicability)
    BY DEF RE!ApplicabilityTouched, RE!NoApplicability, RE!IsBlank, RE!Empty, RE!Trimmed
  <2> QED BY <1>1, <2>1 DEF RE!buildApplicabilityFromDraft
<1>2. CASE n # None
  <2> DEFINE b == RE!AsApplicability(a)
  <2>1. RE!buildApplicabilityFromDraft(a) = b
    BY <1>2 DEF RE!StoredCurrency, RE!buildApplicabilityFromDraft
  <2>2. /\ a.period \in Periods \cup {""} /\ a.unit \in RE!Text
        /\ a.currency \in {""} \cup Currencies \cup Fragments /\ a.basis \in RE!Text
    BY DEF RE!ApplicabilityDraft, RE!CurrencyDraft
  <2>3. b = [period |-> a.period, unit |-> RE!normalizeRequiredString(a.unit),
             currency |-> RE!normalizeCurrencyForSave(a.currency),
             basis |-> RE!normalizeOptionalString(a.basis)]
    BY DEF RE!AsApplicability
  <2>4. RE!normalizeCurrencyForSave(a.currency) \in Currencies \cup Fragments \cup {None}
    BY <2>2 DEF RE!normalizeCurrencyForSave
  <2> HIDE DEF b
  <2>5. n = b \/ n = [b EXCEPT !.currency = None]
    BY <1>2, <2>1 DEF RE!StoredCurrency
  <2>6. PICK y \in Currencies \cup Fragments \cup {None} :
          n = [period |-> a.period, unit |-> RE!normalizeRequiredString(a.unit),
               currency |-> y, basis |-> RE!normalizeOptionalString(a.basis)]
    <3>1. CASE n = b
      BY <2>3, <2>4, <3>1
    <3>2. CASE n = [b EXCEPT !.currency = None]
      BY <2>3, <3>2
    <3> QED BY <2>5, <3>1, <3>2
  <2>15. /\ n.period = a.period /\ n.unit = RE!normalizeRequiredString(a.unit)
         /\ n.currency = y /\ n.basis = RE!normalizeOptionalString(a.basis)
    BY <2>6
  <2>7. a.period # ""
    <3>1. n.period # ""
      BY <1>2 DEF RE!ValidApplicability
    <3> QED BY <2>15, <3>1
  <2>8. RE!OrEmpty(RE!normalizeOptionalString(a.basis)) = RE!normalizeRequiredString(a.basis)
    BY <2>2, TrimTyped
  <2> DEFINE e == DraftOf(n)
             z == IF y = None THEN "" ELSE y
  <2>9. e = [period |-> a.period, unit |-> RE!normalizeRequiredString(a.unit),
             currency |-> z, basis |-> RE!normalizeRequiredString(a.basis)]
    BY <2>15, <2>8 DEF DraftOf
  <2>10. RE!normalizeCurrencyForSave(z) = y
    BY EditorNull DEF RE!normalizeCurrencyForSave
  <2>11. /\ RE!normalizeRequiredString(RE!normalizeRequiredString(a.unit))
              = RE!normalizeRequiredString(a.unit)
         /\ RE!normalizeOptionalString(RE!normalizeRequiredString(a.basis))
              = RE!normalizeOptionalString(a.basis)
    BY DEF RE!normalizeOptionalString, RE!normalizeRequiredString, RE!Trimmed
  <2> HIDE DEF e, z
  <2>12. RE!AsApplicability(e) = n
    BY <2>6, <2>9, <2>10, <2>11 DEF RE!AsApplicability
  <2>13. RE!ApplicabilityTouched(e)
    BY <2>7, <2>9 DEF RE!ApplicabilityTouched
  <2>14. RE!buildApplicabilityFromDraft(e) = n
    BY <2>12, <2>13 DEF RE!buildApplicabilityFromDraft
  <2> QED BY <1>2, <2>14 DEF e
<1> QED BY <1>1, <1>2

LEMMA ExceptionsAgain ==
  ASSUME NEW es \in Seq(RE!ExceptionDraft), NEW x \in Seq(RE!ExceptionDraft),
         \/ x = RE!buildExceptionsFromDraft(es)
         \/ RE!buildExceptionsFromDraft(es) = RE!normalizeExceptionPayload(x),
         RE!ValidExceptions(x)
  PROVE  RE!buildExceptionsFromDraft(IF x = <<>> THEN <<RE!EmptyException>> ELSE x)
           = RE!normalizeExceptionPayload(x)
<1>1. CASE x = <<>>
  <2> DEFINE e == <<RE!EmptyException>>
  <2>1. RE!EmptyException \in RE!ExceptionDraft
    <3>1. <<>> \in Seq(RE!Text)
      BY EmptySeq
    <3> QED BY <3>1, EditorNull DEF RE!EmptyException, RE!ExceptionDraft
  <2>2. e \in Seq(RE!ExceptionDraft) /\ DOMAIN e = {1} /\ e[1] = RE!EmptyException
    <3> DEFINE y == RE!EmptyException
               E == RE!ExceptionDraft
    <3>1. y \in E
      BY <2>1
    <3> HIDE DEF y, E
    <3>2. <<y>> \in Seq(E) /\ DOMAIN <<y>> = {1} /\ <<y>>[1] = y
      BY <3>1
    <3> QED BY <3>2 DEF y, E
  <2> HIDE DEF e
  <2>3. RE!normalizeExceptionPayload(e)[1] = RE!NormalizedException(RE!EmptyException)
    BY <2>2, PayloadTyped
  <2>4. RE!NormalizedException(RE!EmptyException).description = RE!Empty
    BY DEF RE!NormalizedException, RE!EmptyException, RE!normalizeRequiredString, RE!Empty, RE!Trimmed
  <2>5. RE!NormalizedException(RE!EmptyException).evidence = <<>>
    <3>1. <<>> \in Seq(RE!Text) /\ DOMAIN <<>> = {}
      BY EmptySeq
    <3>2. RE!Evidence(<<>>) = <<>>
      BY <3>1, EvidenceTyped
    <3> QED BY <3>2 DEF RE!NormalizedException, RE!EmptyException
  <2>6. KeptAt(e) = {}
    BY <2>2, <2>3, <2>4, <2>5 DEF KeptAt
  <2>7. RE!buildExceptionsFromDraft(e) = <<>>
    BY <2>2, <2>6, BuiltTyped
  <2>8. RE!normalizeExceptionPayload(x) = <<>>
    <3>1. RE!normalizeExceptionPayload(x) \in Seq(RE!ExceptionDraft)
          /\ DOMAIN RE!normalizeExceptionPayload(x) = DOMAIN x
      BY PayloadTyped
    <3>2. DOMAIN x = {}
      BY <1>1
    <3> QED BY <3>1, <3>2, EmptySeq
  <2> QED BY <1>1, <2>7, <2>8 DEF e
<1>2. CASE x # <<>>
  <2> DEFINE built == RE!buildExceptionsFromDraft(es)
             norm == RE!normalizeExceptionPayload(x)
  <2>1. \A k \in DOMAIN built : built[k].description # RE!Empty \/ built[k].evidence # <<>>
    BY BuiltTyped DEF KeptAt
  <2>2. DOMAIN norm = DOMAIN x
        /\ \A k \in DOMAIN x : norm[k] = RE!NormalizedException(x[k])
    BY PayloadTyped
  <2>3. \A k \in DOMAIN x : norm[k].description # RE!Empty \/ norm[k].evidence # <<>>
    <3>1. CASE built = norm
      BY <2>1, <2>2, <3>1
    <3>2. CASE x = built
      <4> TAKE k \in DOMAIN x
      <4>1. PICK i \in KeptAt(es) : x[k] = RE!normalizeExceptionPayload(es)[i]
        BY <3>2, BuiltTyped
      <4>2. x[k] = RE!NormalizedException(es[i])
        BY <4>1, PayloadTyped DEF KeptAt
      <4>3. x[k].description = RE!normalizeRequiredString(es[i].description)
        BY <4>2 DEF RE!NormalizedException
      <4>4. x[k].description # RE!Empty
        BY DEF RE!ValidExceptions
      <4>5. norm[k].description = RE!normalizeRequiredString(x[k].description)
        BY <2>2 DEF RE!NormalizedException
      <4>6. RE!normalizeRequiredString(x[k].description) = x[k].description
        BY <4>3 DEF RE!normalizeRequiredString, RE!Trimmed
      <4> QED BY <4>4, <4>5, <4>6
    <3> QED BY <3>1, <3>2
  <2>4. KeptAt(x) = DOMAIN x
    BY <2>3 DEF KeptAt
  <2> QED BY <1>2, <2>4, BuiltTyped
<1> QED BY <1>1, <1>2

(* The form of a rule that was just saved shows it as it is stored.        *)
LEMMA SavedIsClean ==
  ASSUME NEW r \in RE!RuleValue, NEW d \in DraftForm,
         NEW new, new = RE!Patched(r, RE!buildCandidateRuleUpdatePayload(d, r)),
         RE!CandidateValueValid(new)
  PROVE  CleanForm(RE!createRuleDraft(new), new)
<1> DEFINE v == RE!DraftValue(d)
           c == RE!createRuleDraft(new)
           w == RE!DraftValue(c)
<1>1. /\ new \in RE!RuleValue
      /\ new.statement = v.statement /\ new.class = v.class
      /\ new.scope = v.scope /\ new.condition = v.condition
      /\ new.applicability = RE!StoredCurrency(v.applicability)
      /\ \/ new.exceptions = v.exceptions
         \/ v.exceptions = RE!normalizeExceptionPayload(new.exceptions)
  BY PatchedParts
<1>2. /\ d.statement \in RE!Text
      /\ \A f \in ScopeFields : d.scope[f] \in RE!Text
      /\ d.condition \in RE!ConditionDraft /\ d.applicability \in RE!ApplicabilityDraft
      /\ d.exceptions \in Seq(RE!ExceptionDraft)
  BY DEF DraftForm
<1>3. /\ RE!ValidApplicability(new.applicability) /\ RE!ValidExceptions(new.exceptions)
      /\ new.exceptions \in Seq(RE!ExceptionDraft)
  BY <1>1 DEF RE!CandidateValueValid, RE!RuleValue
<1>4. w.statement = RE!Normalized(new, "statement")
  <2>1. w.statement = RE!normalizeRequiredString(new.statement)
    BY DEF RE!DraftValue, RE!createRuleDraft
  <2>2. new.statement = RE!normalizeRequiredString(d.statement)
    BY <1>1 DEF RE!DraftValue
  <2>3. RE!normalizeRequiredString(RE!normalizeRequiredString(d.statement))
          = RE!normalizeRequiredString(d.statement)
    BY <1>2, TrimTyped
  <2> QED BY <2>1, <2>2, <2>3 DEF RE!Normalized
<1>5. w.class = RE!Normalized(new, "class")
  BY DEF RE!DraftValue, RE!createRuleDraft, RE!Normalized
<1>6. w.scope = RE!Normalized(new, "scope")
  <2>1. new.scope = [f \in ScopeFields |-> RE!normalizeOptionalString(d.scope[f])]
    BY <1>1 DEF RE!DraftValue, RE!buildScopeFromDraft
  <2>2. w.scope = [f \in ScopeFields |->
                     RE!normalizeOptionalString(RE!OrEmpty(new.scope[f]))]
    BY DEF RE!DraftValue, RE!buildScopeFromDraft, RE!createRuleDraft
  <2>3. \A f \in ScopeFields :
          RE!normalizeOptionalString(RE!OrEmpty(RE!normalizeOptionalString(d.scope[f])))
            = RE!normalizeOptionalString(d.scope[f])
    BY <1>2, ScopeAgain
  <2>4. w.scope = new.scope
    BY <2>1, <2>2, <2>3
  <2> QED BY <2>4 DEF RE!Normalized
<1>7. w.condition = RE!Normalized(new, "condition")
  <2>1. new.condition = RE!buildConditionFromDraft(d.condition)
    BY <1>1 DEF RE!DraftValue
  <2>2. c.condition = IF new.condition = None
                      THEN [field |-> RE!Empty, operator |-> RE!Empty, value |-> RE!Empty]
                      ELSE new.condition
    BY DEF RE!createRuleDraft
  <2>3. w.condition = RE!buildConditionFromDraft(c.condition)
    BY DEF RE!DraftValue
  <2> HIDE DEF c, w
  <2>4. w.condition = new.condition
    BY <1>2, <2>1, <2>2, <2>3, ConditionAgain
  <2> QED BY <2>4 DEF RE!Normalized
<1>8. w.applicability = RE!Normalized(new, "applicability")
  <2>1. new.applicability = RE!StoredCurrency(RE!buildApplicabilityFromDraft(d.applicability))
    BY <1>1 DEF RE!DraftValue
  <2>2. c.applicability = IF new.applicability = None THEN RE!NoApplicability
                          ELSE DraftOf(new.applicability)
    BY DEF RE!createRuleDraft, DraftOf
  <2>3. w.applicability = RE!buildApplicabilityFromDraft(c.applicability)
    BY DEF RE!DraftValue
  <2> HIDE DEF c, w
  <2>4. w.applicability = new.applicability
    BY <1>2, <1>3, <2>1, <2>2, <2>3, ApplicabilityAgain
  <2> QED BY <2>4 DEF RE!Normalized
<1>9. w.exceptions = RE!Normalized(new, "exceptions")
  <2>1. \/ new.exceptions = RE!buildExceptionsFromDraft(d.exceptions)
        \/ RE!buildExceptionsFromDraft(d.exceptions) = RE!normalizeExceptionPayload(new.exceptions)
    BY <1>1 DEF RE!DraftValue
  <2>2. c.exceptions = IF new.exceptions = <<>> THEN <<RE!EmptyException>> ELSE new.exceptions
    BY DEF RE!createRuleDraft
  <2>3. w.exceptions = RE!buildExceptionsFromDraft(c.exceptions)
    BY DEF RE!DraftValue
  <2> HIDE DEF c, w
  <2>4. w.exceptions = RE!normalizeExceptionPayload(new.exceptions)
    BY <1>2, <1>3, <2>1, <2>2, <2>3, ExceptionsAgain
  <2> QED BY <2>4 DEF RE!Normalized
<1> HIDE DEF c, w
<1>10. \A p \in RE!Parts : w[p] = RE!Normalized(new, p)
  BY <1>4, <1>5, <1>6, <1>7, <1>8, <1>9 DEF RE!Parts
<1> QED BY <1>10 DEF CleanForm, w, c

EditorInv ==
  /\ extracted \in RE!RuleValue
  /\ rule \in RE!RuleValue /\ RE!CandidateValueValid(rule)
  /\ draft \in DraftForm /\ draft.exceptions # <<>>
  /\ edits \in 0..MaxEdits
  /\ answer \in {"none", "saved", "refused"}
  /\ answer = "saved" => CleanForm(draft, rule)

LEMMA EditorInit == RE!Init => EditorInv
<1> SUFFICES ASSUME RE!Init PROVE EditorInv
  OBVIOUS
<1>1. /\ extracted \in ExtractedRules /\ rule = extracted
      /\ draft = RE!createRuleDraft(rule) /\ edits = 0 /\ answer = "none"
  BY DEF RE!Init
<1>2. MaxEdits \in Nat /\ rule \in RE!RuleValue /\ RE!CandidateValueValid(rule)
  BY <1>1, PagesAssumption DEF RE!EditorAssumption
<1> QED BY <1>1, <1>2, CreatedTyped DEF EditorInv

LEMMA EditStep ==
  ASSUME EditorInv, NEW new \in DraftForm, new.exceptions # <<>>, RE!Edit(new)
  PROVE  EditorInv'
<1>1. MaxEdits \in Nat
  BY PagesAssumption DEF RE!EditorAssumption
<1>2. /\ edits < MaxEdits /\ draft' = new /\ edits' = edits + 1 /\ answer' = "none"
      /\ UNCHANGED <<extracted, rule>>
  BY DEF RE!Edit
<1>3. edits' \in 0..MaxEdits
  BY <1>1, <1>2 DEF EditorInv
<1> QED BY <1>2, <1>3 DEF EditorInv

LEMMA FieldStep ==
  ASSUME EditorInv,
         RE!EditStatement \/ RE!EditScope \/ RE!EditClass \/ RE!EditCondition
           \/ RE!EditApplicability
  PROVE  EditorInv'
<1>0. draft \in DraftForm /\ draft.exceptions # <<>>
  BY DEF EditorInv
<1>1. CASE RE!EditStatement
  <2>1. PICK t \in RE!Text : RE!Edit([draft EXCEPT !.statement = t])
    BY <1>1 DEF RE!EditStatement
  <2>2. [draft EXCEPT !.statement = t] \in DraftForm
        /\ [draft EXCEPT !.statement = t].exceptions = draft.exceptions
    BY <1>0 DEF DraftForm
  <2> QED BY <1>0, <2>1, <2>2, EditStep
<1>2. CASE RE!EditScope
  <2>1. PICK f \in ScopeFields, t \in RE!Text : RE!Edit([draft EXCEPT !.scope[f] = t])
    BY <1>2 DEF RE!EditScope
  <2>2. [draft EXCEPT !.scope[f] = t] \in DraftForm
        /\ [draft EXCEPT !.scope[f] = t].exceptions = draft.exceptions
    BY <1>0 DEF DraftForm
  <2> QED BY <1>0, <2>1, <2>2, EditStep
<1>3. CASE RE!EditClass
  <2>1. PICK k \in RE!Classes : RE!Edit(RE!applyEnforceabilityChange(draft, k))
    BY <1>3 DEF RE!EditClass
  <2>2. RE!ResetCondition \in RE!ConditionDraft /\ RE!NoApplicability \in RE!ApplicabilityDraft
    BY EditorNull DEF RE!ResetCondition, RE!NoApplicability, RE!ConditionDraft,
       RE!ApplicabilityDraft, RE!CurrencyDraft
  <2>3. RE!applyEnforceabilityChange(draft, k) \in DraftForm
        /\ RE!applyEnforceabilityChange(draft, k).exceptions = draft.exceptions
    BY <1>0, <2>2 DEF DraftForm, RE!applyEnforceabilityChange
  <2> QED BY <1>0, <2>1, <2>3, EditStep
<1>4. CASE RE!EditCondition
  <2>1. PICK k \in {"field", "operator", "value"}, t \in RE!Text :
          RE!Edit([draft EXCEPT !.condition[k] = t])
    BY <1>4 DEF RE!EditCondition
  <2>2. [draft.condition EXCEPT ![k] = t] \in RE!ConditionDraft
    BY <1>0 DEF DraftForm, RE!ConditionDraft
  <2>3. [draft EXCEPT !.condition[k] = t] \in DraftForm
        /\ [draft EXCEPT !.condition[k] = t].exceptions = draft.exceptions
    BY <1>0, <2>2 DEF DraftForm
  <2> QED BY <1>0, <2>1, <2>3, EditStep
<1>5. CASE RE!EditApplicability
  <2>1. PICK a \in RE!ApplicabilityDraft : RE!Edit([draft EXCEPT !.applicability = a])
    <3> DEFINE a == draft.applicability
    <3>0. a \in RE!ApplicabilityDraft
      BY <1>0 DEF DraftForm
    <3>1. CASE \E p \in Periods \cup {""} : RE!Edit([draft EXCEPT !.applicability.period = p])
      <4>1. PICK p \in Periods \cup {""} : RE!Edit([draft EXCEPT !.applicability.period = p])
        BY <3>1
      <4>2. [a EXCEPT !.period = p] \in RE!ApplicabilityDraft
        BY <3>0 DEF RE!ApplicabilityDraft
      <4> QED BY <4>1, <4>2
    <3>2. CASE \E t \in RE!Text : RE!Edit([draft EXCEPT !.applicability.unit = t])
      <4>1. PICK t \in RE!Text : RE!Edit([draft EXCEPT !.applicability.unit = t])
        BY <3>2
      <4>2. [a EXCEPT !.unit = t] \in RE!ApplicabilityDraft
        BY <3>0 DEF RE!ApplicabilityDraft
      <4> QED BY <4>1, <4>2
    <3>3. CASE \E t \in RE!Text : RE!Edit([draft EXCEPT !.applicability.basis = t])
      <4>1. PICK t \in RE!Text : RE!Edit([draft EXCEPT !.applicability.basis = t])
        BY <3>3
      <4>2. [a EXCEPT !.basis = t] \in RE!ApplicabilityDraft
        BY <3>0 DEF RE!ApplicabilityDraft
      <4> QED BY <4>1, <4>2
    <3>4. CASE \E k \in RE!CurrencyDraft : RE!Edit([draft EXCEPT !.applicability.currency = k])
      <4>1. PICK k \in RE!CurrencyDraft : RE!Edit([draft EXCEPT !.applicability.currency = k])
        BY <3>4
      <4>2. [a EXCEPT !.currency = k] \in RE!ApplicabilityDraft
        BY <3>0 DEF RE!ApplicabilityDraft
      <4> QED BY <4>1, <4>2
    <3> QED BY <1>5, <3>1, <3>2, <3>3, <3>4 DEF RE!EditApplicability
  <2>2. [draft EXCEPT !.applicability = a] \in DraftForm
        /\ [draft EXCEPT !.applicability = a].exceptions = draft.exceptions
    BY <1>0 DEF DraftForm
  <2> QED BY <1>0, <2>1, <2>2, EditStep
<1> QED BY <1>1, <1>2, <1>3, <1>4, <1>5

LEMMA ExceptionsStep == EditorInv /\ RE!EditExceptions => EditorInv'
<1> SUFFICES ASSUME EditorInv, RE!EditExceptions PROVE EditorInv'
  OBVIOUS
<1> DEFINE E == RE!ExceptionDraft
           es == draft.exceptions
<1>1. draft \in DraftForm /\ es \in Seq(E) /\ es # <<>>
  BY DEF EditorInv, DraftForm
<1>2. RE!EmptyException \in E
  <2>1. <<>> \in Seq(RE!Text)
    BY EmptySeq
  <2> QED BY <2>1, EditorNull DEF RE!EmptyException, RE!ExceptionDraft
<1>3. \E x \in Seq(E) : x # <<>> /\ RE!Edit([draft EXCEPT !.exceptions = x])
  <2>1. CASE RE!Edit(RE!addExceptionToDraft(draft))
    <3> DEFINE e == RE!EmptyException
    <3>1. e \in E
      BY <1>2
    <3> HIDE DEF e, es, E
    <3>2. Append(es, e) \in Seq(E) /\ Append(es, e) # <<>>
      BY <1>1, <3>1
    <3> QED BY <2>1, <3>2 DEF RE!addExceptionToDraft, es, e
  <2>2. CASE \E i \in DOMAIN es : RE!Edit(RE!removeExceptionFromDraft(draft, i))
    <3>1. PICK i \in DOMAIN es : RE!Edit(RE!removeExceptionFromDraft(draft, i))
      BY <2>2
    <3> DEFINE x == IF Len(es) = 1 THEN <<RE!EmptyException>> ELSE RE!RemoveAt(es, i)
    <3>2. RE!removeExceptionFromDraft(draft, i) = [draft EXCEPT !.exceptions = x]
      BY DEF RE!removeExceptionFromDraft
    <3>3. RE!RemoveAt(es, i) = RC!RemoveAt(es, i)
      BY DEF RE!RemoveAt, RC!RemoveAt
    <3>4. RE!RemoveAt(es, i) \in Seq(E) /\ Len(RE!RemoveAt(es, i)) = Len(es) - 1
      <4> HIDE DEF es, E
      <4> QED BY <1>1, <3>1, <3>3, Removed DEF Without
    <3>5. x \in Seq(E) /\ x # <<>>
      <4> DEFINE e == RE!EmptyException
                 s == RE!RemoveAt(es, i)
      <4>1. e \in E /\ s \in Seq(E) /\ Len(s) = Len(es) - 1
        BY <1>2, <3>4
      <4> HIDE DEF e, s, es, E
      <4>2. <<e>> \in Seq(E) /\ <<e>> # <<>>
        BY <4>1
      <4>3. Len(es) \in Nat /\ Len(es) # 0
        BY <1>1
      <4>4. Len(es) # 1 => s # <<>>
        BY <4>1, <4>3
      <4> QED BY <4>1, <4>2, <4>4 DEF e, s
    <3> QED BY <3>1, <3>2, <3>5
  <2>3. CASE \E i \in DOMAIN es, t \in RE!Text :
               RE!Edit([draft EXCEPT !.exceptions[i].description = t])
    <3>1. PICK i \in DOMAIN es, t \in RE!Text :
            RE!Edit([draft EXCEPT !.exceptions[i].description = t])
      BY <2>3
    <3>6. es[i] \in E
      <4> HIDE DEF E, es
      <4> QED BY <1>1, <3>1
    <3>2. [es[i] EXCEPT !.description = t] \in E
      BY <3>6 DEF RE!ExceptionDraft
    <3>3. [es EXCEPT ![i] = [es[i] EXCEPT !.description = t]] \in Seq(E)
          /\ [es EXCEPT ![i] = [es[i] EXCEPT !.description = t]] # <<>>
      <4> DEFINE e == [es[i] EXCEPT !.description = t]
      <4>1. e \in E
        BY <3>2
      <4> HIDE DEF e, es, E
      <4>2. [es EXCEPT ![i] = e] \in Seq(E) /\ Len([es EXCEPT ![i] = e]) = Len(es)
        BY <1>1, <3>1, <4>1, ExceptSeq
      <4>3. Len(es) # 0
        BY <1>1
      <4> QED BY <4>2, <4>3 DEF e
    <3>4. [draft EXCEPT !.exceptions[i].description = t]
            = [draft EXCEPT !.exceptions = [es EXCEPT ![i] = [es[i] EXCEPT !.description = t]]]
      BY <1>1 DEF DraftForm
    <3> QED BY <3>1, <3>3, <3>4
  <2>4. CASE \E i \in DOMAIN es, t \in RE!Text :
               RE!Edit([draft EXCEPT !.exceptions[i].evidence = <<t>>])
    <3>1. PICK i \in DOMAIN es, t \in RE!Text :
            RE!Edit([draft EXCEPT !.exceptions[i].evidence = <<t>>])
      BY <2>4
    <3>5. <<t>> \in Seq(RE!Text)
      OBVIOUS
    <3>6. es[i] \in E
      <4> HIDE DEF E, es
      <4> QED BY <1>1, <3>1
    <3>2. [es[i] EXCEPT !.evidence = <<t>>] \in E
      BY <3>5, <3>6 DEF RE!ExceptionDraft
    <3>3. [es EXCEPT ![i] = [es[i] EXCEPT !.evidence = <<t>>]] \in Seq(E)
          /\ [es EXCEPT ![i] = [es[i] EXCEPT !.evidence = <<t>>]] # <<>>
      <4> DEFINE e == [es[i] EXCEPT !.evidence = <<t>>]
      <4>1. e \in E
        BY <3>2
      <4> HIDE DEF e, es, E
      <4>2. [es EXCEPT ![i] = e] \in Seq(E) /\ Len([es EXCEPT ![i] = e]) = Len(es)
        BY <1>1, <3>1, <4>1, ExceptSeq
      <4>3. Len(es) # 0
        BY <1>1
      <4> QED BY <4>2, <4>3 DEF e
    <3>4. [draft EXCEPT !.exceptions[i].evidence = <<t>>]
            = [draft EXCEPT !.exceptions = [es EXCEPT ![i] = [es[i] EXCEPT !.evidence = <<t>>]]]
      BY <1>1 DEF DraftForm
    <3> QED BY <3>1, <3>3, <3>4
  <2> QED BY <2>1, <2>2, <2>3, <2>4 DEF RE!EditExceptions
<1>4. PICK x \in Seq(E) : x # <<>> /\ RE!Edit([draft EXCEPT !.exceptions = x])
  BY <1>3
<1>5. [draft EXCEPT !.exceptions = x] \in DraftForm
      /\ [draft EXCEPT !.exceptions = x].exceptions = x
  BY <1>1, <1>4 DEF DraftForm
<1> QED BY <1>4, <1>5, EditStep

LEMMA SaveFormStep == EditorInv /\ RE!Save => EditorInv'
<1> SUFFICES ASSUME EditorInv, RE!Save PROVE EditorInv'
  OBVIOUS
<1> DEFINE new == RE!Patched(rule, RE!Payload)
<1>1. new = RE!Patched(rule, RE!buildCandidateRuleUpdatePayload(draft, rule))
  BY DEF RE!Payload
<1>2. /\ UNCHANGED <<extracted, edits>>
      /\ \/ /\ RE!CandidateValueValid(new) /\ rule' = new
            /\ draft' = RE!createRuleDraft(new) /\ answer' = "saved"
         \/ answer' = "refused" /\ UNCHANGED <<rule, draft>>
  BY DEF RE!Save, RE!DraftOfAnswer
<1>3. rule \in RE!RuleValue /\ draft \in DraftForm
  BY DEF EditorInv
<1> HIDE DEF new
<1>4. CASE RE!CandidateValueValid(new) /\ rule' = new
           /\ draft' = RE!createRuleDraft(new) /\ answer' = "saved"
  <2>1. new \in RE!RuleValue
    BY <1>1, <1>3, PatchedParts
  <2>2. RE!createRuleDraft(new) \in DraftForm /\ RE!createRuleDraft(new).exceptions # <<>>
    BY <2>1, CreatedTyped
  <2>3. CleanForm(RE!createRuleDraft(new), new)
    BY <1>1, <1>3, <1>4, SavedIsClean
  <2>4. (CleanForm(draft, rule))'
    BY <1>4, <2>3 DEF CleanForm
  <2>5. (RE!CandidateValueValid(rule))'
    BY <1>4
  <2> QED BY <1>2, <1>4, <2>1, <2>2, <2>4, <2>5 DEF EditorInv
<1>5. CASE answer' = "refused" /\ UNCHANGED <<rule, draft>>
  BY <1>2, <1>5 DEF EditorInv
<1> QED BY <1>2, <1>4, <1>5

LEMMA EditorStep == EditorInv /\ [RE!Next]_(RE!vars) => EditorInv'
<1> SUFFICES ASSUME EditorInv, [RE!Next]_(RE!vars) PROVE EditorInv'
  OBVIOUS
<1>1. CASE UNCHANGED RE!vars
  BY <1>1 DEF RE!vars, EditorInv, CleanForm
<1> QED BY <1>1, FieldStep, ExceptionsStep, SaveFormStep DEF RE!Next

LEMMA EditorTypes == EditorInv => RE!TypeOK
<1> SUFFICES ASSUME EditorInv PROVE RE!TypeOK
  OBVIOUS
<1>1. rule.condition \in RE!ConditionDraft \cup {None}
  BY DEF EditorInv, RE!RuleValue
<1>2. /\ draft.condition \in RE!ConditionDraft /\ draft.applicability \in RE!ApplicabilityDraft
      /\ draft.scope \in [ScopeFields -> RE!Text] /\ draft.class \in RE!Classes
  BY DEF EditorInv, DraftForm
<1> QED BY <1>1, <1>2 DEF EditorInv, RE!TypeOK

(* A form with nothing to save shows the parts of the stored rule.         *)
LEMMA CleanShows ==
  ASSUME NEW d \in DraftForm, NEW r \in RE!RuleValue,
         \A p \in RE!Parts \ {"scope"} : RE!DraftValue(d)[p] = RE!Normalized(r, p),
         \A f \in ScopeFields : RE!normalizeOptionalString(d.scope[f]) = r.scope[f]
  PROVE  /\ d.class = r.class /\ RE!normalizeRequiredString(d.statement) = r.statement
         /\ \A f \in ScopeFields : RE!normalizeRequiredString(d.scope[f]) = RE!OrEmpty(r.scope[f])
         /\ RE!buildConditionFromDraft(d.condition) = r.condition
         /\ RE!buildApplicabilityFromDraft(d.applicability) = r.applicability
         /\ RE!buildExceptionsFromDraft(d.exceptions)
              = RE!normalizeExceptionPayload(r.exceptions)
<1>1. /\ d.class = r.class /\ RE!normalizeRequiredString(d.statement) = r.statement
      /\ RE!buildConditionFromDraft(d.condition) = r.condition
      /\ RE!buildApplicabilityFromDraft(d.applicability) = r.applicability
      /\ RE!buildExceptionsFromDraft(d.exceptions)
           = RE!normalizeExceptionPayload(r.exceptions)
  BY DEF RE!Parts, RE!DraftValue, RE!Normalized
<1>2. \A f \in ScopeFields : RE!OrEmpty(RE!normalizeOptionalString(d.scope[f]))
                               = RE!normalizeRequiredString(d.scope[f])
  <2>1. \A f \in ScopeFields : d.scope[f] \in RE!Text
    BY DEF DraftForm
  <2> QED BY <2>1, TrimTyped
<1> QED BY <1>1, <1>2

LEMMA CleanScope ==
  ASSUME NEW d \in DraftForm, NEW r \in RE!RuleValue
  PROVE  RE!DraftValue(d)["scope"] = RE!Normalized(r, "scope")
           <=> \A f \in ScopeFields : RE!normalizeOptionalString(d.scope[f]) = r.scope[f]
<1>1. RE!DraftValue(d)["scope"] = [f \in ScopeFields |-> RE!normalizeOptionalString(d.scope[f])]
  BY DEF RE!DraftValue, RE!buildScopeFromDraft
<1>2. RE!Normalized(r, "scope") = r.scope /\ r.scope = [f \in ScopeFields |-> r.scope[f]]
  BY DEF RE!Normalized, RE!RuleValue
<1> QED BY <1>1, <1>2

LEMMA NothingUnsaved ==
  RE!unsavedChangeCount = 0 <=> CleanForm(draft, rule)
<1>1. \A S : RE!Cardinality(S) = Cardinality(S)
  BY DEF RE!Cardinality, Cardinality
<1> QED BY <1>1, NothingToSend DEF RE!unsavedChangeCount, RE!Payload

LEMMA ApproveShows ==
  ASSUME EditorInv, RE!ApproveEnabled
  PROVE  /\ draft.class = rule.class /\ RE!normalizeRequiredString(draft.statement) = rule.statement
         /\ \A f \in ScopeFields :
              RE!normalizeRequiredString(draft.scope[f]) = RE!OrEmpty(rule.scope[f])
         /\ RE!buildConditionFromDraft(draft.condition) = rule.condition
         /\ RE!buildApplicabilityFromDraft(draft.applicability) = rule.applicability
         /\ RE!buildExceptionsFromDraft(draft.exceptions)
              = RE!normalizeExceptionPayload(rule.exceptions)
<1>1. CleanForm(draft, rule)
  BY NothingUnsaved DEF RE!ApproveEnabled, RE!decisionBlockersFor
<1>2. draft \in DraftForm /\ rule \in RE!RuleValue
  BY DEF EditorInv
<1>3. RE!DraftValue(draft)["scope"] = RE!Normalized(rule, "scope")
      /\ \A p \in RE!Parts \ {"scope"} : RE!DraftValue(draft)[p] = RE!Normalized(rule, p)
  BY <1>1 DEF CleanForm, RE!Parts
<1> QED BY <1>2, <1>3, CleanScope, CleanShows

LEMMA EditorDecides == EditorInv => RE!DecidedAsShown /\ RE!ApproveIsAccepted
<1> SUFFICES ASSUME EditorInv, RE!ApproveEnabled
             PROVE  /\ draft.class = rule.class
                    /\ draft.statement.word = rule.statement.word
                    /\ \A f \in ScopeFields :
                         draft.scope[f].word = RE!OrEmpty(rule.scope[f]).word
                    /\ RE!buildConditionFromDraft(draft.condition) = rule.condition
                    /\ RE!ApplicabilityAsShown
                    /\ RE!buildExceptionsFromDraft(draft.exceptions)
                         = RE!normalizeExceptionPayload(rule.exceptions)
                    /\ rule.class = "enforceable" => rule.condition # None
  BY DEF RE!DecidedAsShown, RE!ApproveIsAccepted, EditorInv
<1>0. \A t : RE!normalizeRequiredString(t).word = t.word
  BY DEF RE!normalizeRequiredString, RE!Trimmed
<1>1. draft.statement.word = rule.statement.word
      /\ \A f \in ScopeFields : draft.scope[f].word = RE!OrEmpty(rule.scope[f]).word
  BY <1>0, ApproveShows
<1>2. RE!ApplicabilityAsShown
  <2> DEFINE d == draft.applicability
  <2>0. d \in RE!ApplicabilityDraft
    BY DEF EditorInv, DraftForm
  <2>1. CASE rule.applicability = None
    <3>1. ~RE!ApplicabilityTouched(d)
      BY <2>0, <2>1, ApproveShows, ApplicabilityTyped
    <3> QED BY <2>1, <3>1 DEF RE!ApplicabilityAsShown
  <2>2. CASE rule.applicability # None
    <3>1. rule.applicability = RE!AsApplicability(d)
      BY <2>2, ApproveShows DEF RE!buildApplicabilityFromDraft
    <3> HIDE DEF d
    <3>2. /\ rule.applicability.period = d.period
          /\ rule.applicability.unit = RE!normalizeRequiredString(d.unit)
          /\ rule.applicability.currency = RE!normalizeCurrencyForSave(d.currency)
          /\ rule.applicability.basis = RE!normalizeOptionalString(d.basis)
      BY <3>1 DEF RE!AsApplicability
    <3>3. RE!OrEmpty(rule.applicability.basis).word = d.basis.word
      <4>1. d.basis \in RE!Text
        BY <2>0 DEF RE!ApplicabilityDraft
      <4> DEFINE o == RE!OrEmpty(RE!normalizeOptionalString(d.basis))
      <4>2. o = RE!normalizeRequiredString(d.basis)
        BY <4>1, TrimTyped
      <4>3. RE!OrEmpty(rule.applicability.basis) = o
        BY <3>2
      <4> HIDE DEF o
      <4>4. o.word = d.basis.word
        BY <1>0, <4>2
      <4> QED BY <4>3, <4>4
    <3>4. rule.applicability.unit.word = d.unit.word
      BY <1>0, <3>2
    <3> QED BY <2>2, <3>2, <3>3, <3>4 DEF RE!ApplicabilityAsShown, d
  <2> QED BY <2>1, <2>2
<1>4. rule.class = "enforceable" => rule.condition # None
  <2> SUFFICES ASSUME rule.class = "enforceable", rule.condition = None PROVE FALSE
    OBVIOUS
  <2> DEFINE r == RE!draftAsRuleValue(draft, rule)
  <2>1. r = [rule EXCEPT !.statement = draft.statement, !.class = draft.class,
                         !.condition = RE!buildConditionFromDraft(draft.condition)]
    BY DEF RE!draftAsRuleValue
  <2>2. rule \in RE!RuleValue
    BY DEF EditorInv
  <2> HIDE DEF r
  <2>3. r.class = "enforceable" /\ r.condition = None
    BY <2>1, <2>2, ApproveShows DEF RE!RuleValue
  <2>4. "incomplete" \in RE!approvalBlockersForRule
    BY <2>3 DEF RE!approvalBlockersForRule, r
  <2> QED BY <2>4 DEF RE!ApproveEnabled
<1> QED BY <1>1, <1>2, <1>4, ApproveShows

LEMMA SavedClean == EditorInv => RE!SavedFormIsClean
BY NothingUnsaved DEF EditorInv, RE!SavedFormIsClean, RE!decisionBlockersFor

(* No difference is counted when nothing but white space differs.          *)
LEMMA CountedNone ==
  ASSUME NEW d \in DraftForm, NEW r \in RE!RuleValue
  PROVE  /\ RE!countRuleDraftDifferences(r, d) \in Nat
         /\ RE!countRuleDraftDifferences(r, d) = 0 <=> CleanForm(d, r)
<1> DEFINE A == {p \in RE!Parts \ {"scope"} : RE!DraftValue(d)[p] # RE!Normalized(r, p)}
           B == {f \in ScopeFields : RE!DraftValue(d).scope[f] # r.scope[f]}
<1>1. RE!countRuleDraftDifferences(r, d) = Cardinality(A) + Cardinality(B)
  <2>1. \A S : RE!Cardinality(S) = Cardinality(S)
    BY DEF RE!Cardinality, Cardinality
  <2> QED BY <2>1 DEF RE!countRuleDraftDifferences
<1>2. IsFiniteSet(A)
  <2>1. A \subseteq {"statement"} \cup {"class"} \cup {"condition"}
                      \cup {"applicability"} \cup {"exceptions"}
    BY DEF RE!Parts
  <2>2. \A x : IsFiniteSet({x})
    BY FS_Singleton
  <2>3. IsFiniteSet({"statement"} \cup {"class"} \cup {"condition"}
                      \cup {"applicability"} \cup {"exceptions"})
    BY <2>2, FS_Union
  <2> HIDE DEF A
  <2> QED BY <2>1, <2>3, FS_Subset
<1>3. IsFiniteSet(B)
  <2>1. RE!IsFiniteSet(ScopeFields)
    BY PagesAssumption DEF RE!DraftAssumption
  <2>2. IsFiniteSet(ScopeFields)
    BY <2>1 DEF RE!IsFiniteSet, IsFiniteSet
  <2> QED BY <2>2, FS_Subset
<1>4. Cardinality(A) \in Nat /\ Cardinality(B) \in Nat
      /\ (Cardinality(A) = 0 <=> A = {}) /\ (Cardinality(B) = 0 <=> B = {})
  <2> HIDE DEF A, B
  <2> QED BY <1>2, <1>3, FS_CardinalityType, FS_EmptySet
<1>5. B = {} <=> \A f \in ScopeFields : RE!normalizeOptionalString(d.scope[f]) = r.scope[f]
  <2>1. \A f \in ScopeFields : RE!DraftValue(d).scope[f] = RE!normalizeOptionalString(d.scope[f])
    BY DEF RE!DraftValue, RE!buildScopeFromDraft
  <2> QED BY <2>1
<1>6. CleanForm(d, r) <=> A = {} /\ RE!DraftValue(d)["scope"] = RE!Normalized(r, "scope")
  BY DEF CleanForm, RE!Parts
<1>7. CleanForm(d, r) <=> A = {} /\ B = {}
  BY <1>5, <1>6, CleanScope
<1> HIDE DEF A, B
<1> QED BY <1>1, <1>4, <1>7

LEMMA CountsAgree == EditorInv => RE!DivergenceMatchesPayload
<1> SUFFICES ASSUME EditorInv PROVE RE!DivergenceMatchesPayload
  OBVIOUS
<1>1. draft \in DraftForm /\ extracted \in RE!RuleValue
  BY DEF EditorInv
<1>2. CleanForm(draft, extracted)
        <=> DOMAIN RE!buildCandidateRuleUpdatePayload(draft, extracted) = {}
  BY DEF CleanForm, RE!buildCandidateRuleUpdatePayload
<1> QED BY <1>1, <1>2, CountedNone DEF RE!DivergenceMatchesPayload

LEMMA MarksAreCounted == EditorInv => RE!MarkedIsCounted
<1> SUFFICES ASSUME EditorInv, CleanForm(draft, extracted)
             PROVE  /\ RE!MarkedScope(extracted, draft) = {}
                    /\ RE!MarkedCondition(extracted, draft) = {}
                    /\ RE!MarkedApplicability(extracted, draft) = {}
  <2>1. ASSUME EditorInv
        PROVE  /\ RE!countRuleDraftDifferences(extracted, draft) \in Nat
               /\ RE!countRuleDraftDifferences(extracted, draft) = 0
                    => CleanForm(draft, extracted)
    BY <2>1, CountedNone DEF EditorInv
  <2> QED BY <2>1 DEF RE!MarkedIsCounted
<1>1. draft \in DraftForm /\ extracted \in RE!RuleValue
  BY DEF EditorInv
<1>2. RE!DraftValue(draft)["scope"] = RE!Normalized(extracted, "scope")
      /\ \A p \in RE!Parts \ {"scope"} : RE!DraftValue(draft)[p] = RE!Normalized(extracted, p)
  BY DEF CleanForm, RE!Parts
<1>3. \A f \in ScopeFields : RE!normalizeOptionalString(draft.scope[f]) = extracted.scope[f]
  BY <1>1, <1>2, CleanScope
<1>4. /\ RE!buildConditionFromDraft(draft.condition) = extracted.condition
      /\ RE!buildApplicabilityFromDraft(draft.applicability) = extracted.applicability
  BY <1>1, <1>2, <1>3, CleanShows
<1>5. RE!MarkedScope(extracted, draft) = {}
  BY <1>3 DEF RE!MarkedScope
<1>6. draft.condition \in RE!ConditionDraft /\ draft.applicability \in RE!ApplicabilityDraft
  BY <1>1 DEF DraftForm
<1>7. RE!MarkedCondition(extracted, draft) = {}
  <2>1. \A k \in {"field", "operator", "value"} : draft.condition[k] \in RE!Text
    BY <1>6 DEF RE!ConditionDraft
  <2>2. CASE extracted.condition = None
    <3>1. \A k \in {"field", "operator", "value"} : draft.condition[k].word = ""
      BY <1>4, <1>6, <2>2, ConditionTyped
    <3>2. \A k \in {"field", "operator", "value"} :
            RE!normalizeRequiredString(draft.condition[k]) = RE!Empty
      BY <2>1, <3>1, TrimTyped
    <3> QED BY <2>2, <3>2 DEF RE!MarkedCondition
  <2>3. CASE extracted.condition # None
    <3>1. extracted.condition = RE!buildRequiredConditionFromDraft(draft.condition)
      BY <1>4, <1>6, <2>3, ConditionTyped
    <3>2. \A k \in {"field", "operator", "value"} :
            extracted.condition[k] = RE!normalizeRequiredString(draft.condition[k])
      BY <3>1 DEF RE!buildRequiredConditionFromDraft
    <3> QED BY <2>3, <3>2 DEF RE!MarkedCondition
  <2> QED BY <2>2, <2>3
<1>8. RE!MarkedApplicability(extracted, draft) = {}
  <2>1. CASE extracted.applicability = None
    BY <2>1 DEF RE!MarkedApplicability
  <2>2. CASE extracted.applicability # None
    <3> DEFINE d == draft.applicability
               a == extracted.applicability
    <3>1. a = RE!AsApplicability(d)
      BY <1>4, <2>2 DEF RE!buildApplicabilityFromDraft
    <3>2. /\ a.period = d.period /\ a.unit = RE!normalizeRequiredString(d.unit)
          /\ a.currency = RE!normalizeCurrencyForSave(d.currency)
          /\ a.basis = RE!normalizeOptionalString(d.basis)
      BY <3>1 DEF RE!AsApplicability
    <3>3. d.basis \in RE!Text
      BY <1>6 DEF RE!ApplicabilityDraft
    <3>4. RE!OrEmpty(a.basis) = RE!normalizeRequiredString(d.basis)
      BY <3>2, <3>3, TrimTyped
    <3> QED BY <2>2, <3>2, <3>4 DEF RE!MarkedApplicability
  <2> QED BY <2>1, <2>2
<1> QED BY <1>5, <1>7, <1>8

LEMMA EditorMeans ==
  EditorInv => /\ RE!TypeOK /\ RE!DecidedAsShown /\ RE!SavedFormIsClean
               /\ RE!DivergenceMatchesPayload /\ RE!MarkedIsCounted /\ RE!ApproveIsAccepted
BY EditorTypes, EditorDecides, SavedClean, CountsAgree, MarksAreCounted
-----------------------------------------------------------------------------
(* The form of Manual Rules.  What the form lets through is valid and      *)
(* complete, so that the builders have nothing to leave out.               *)

LEMMA ManualTrim ==
  ASSUME NEW t \in MR!Text
  PROVE  /\ MR!normalizeRequiredString(t) \in MR!Text
         /\ MR!normalizeRequiredString(t) = MR!Empty <=> MR!IsBlank(t)
BY DEF MR!normalizeRequiredString, MR!Trimmed, MR!Text, MR!Empty, MR!IsBlank

LEMMA TrimKeeps == \A t : MR!normalizeRequiredString(t).word = t.word
BY DEF MR!normalizeRequiredString, MR!Trimmed

LEMMA ManualOptional ==
  ASSUME NEW t \in MR!Text
  PROVE  MR!OrEmpty(MR!normalizeOptionalString(t)).word = t.word
<1>1. MR!normalizeRequiredString(t) \in MR!Text /\ None \notin MR!Text
  BY ManualTrim, PagesAssumption DEF MR!DraftAssumption
<1>2. CASE t.word = ""
  BY <1>2 DEF MR!normalizeOptionalString, MR!OrEmpty, MR!Empty, MR!Trimmed
<1>3. CASE t.word # ""
  BY <1>1, <1>3, TrimKeeps DEF MR!normalizeOptionalString, MR!OrEmpty
<1> QED BY <1>2, <1>3

LEMMA ManualChosen ==
  \A s, P : MR!Chosen(s, P) = ChosenFrom(s, P)
BY DEF MR!Chosen, ChosenFrom, MR!Cardinality, Cardinality

LEMMA ManualEvidence ==
  ASSUME NEW items \in Seq(MR!Text)
  PROVE  /\ MR!Evidence(items) \in Seq(MR!Text)
         /\ MR!Evidence(items) # <<>> => \E i \in DOMAIN items : ~MR!IsBlank(items[i])
<1> DEFINE texts == [i \in DOMAIN items |-> MR!normalizeRequiredString(items[i])]
           P == {i \in DOMAIN items : texts[i] # MR!Empty}
<1>1. \A i \in DOMAIN items : items[i] \in MR!Text
  OBVIOUS
<1>2. texts \in Seq(MR!Text) /\ DOMAIN texts = DOMAIN items
  <2>1. \A i \in DOMAIN items : MR!normalizeRequiredString(items[i]) \in MR!Text
    BY <1>1, ManualTrim
  <2>2. DOMAIN items = 1..Len(items) /\ Len(items) \in Nat
    OBVIOUS
  <2> QED BY <2>1, <2>2
<1>3. MR!Evidence(items) = ChosenFrom(texts, P)
  BY ManualChosen DEF MR!Evidence
<1>4. \A i \in P : ~MR!IsBlank(items[i])
  BY <1>1, ManualTrim
<1>5. P \in SUBSET DOMAIN texts
  BY <1>2
<1> HIDE DEF texts
<1>6. ChosenFrom(texts, P) \in Seq(MR!Text) /\ (P = {} => ChosenFrom(texts, P) = <<>>)
  <2> HIDE DEF P
  <2> QED BY <1>2, <1>5, ChosenElements
<1> QED BY <1>3, <1>4, <1>6

(* Of the exceptions those with a description are sent, and all of them.   *)
LEMMA ManualExceptions ==
  ASSUME NEW es \in Seq(MR!ExceptionDraft)
  PROVE  /\ MR!ValidExceptions(MR!buildManualExceptionsFromDraft(es))
         /\ \A i \in DOMAIN es : ~MR!IsBlank(es[i].description) =>
              \E k \in DOMAIN MR!buildManualExceptionsFromDraft(es) :
                MR!buildManualExceptionsFromDraft(es)[k] = MR!NormalizedException(es[i])
<1> DEFINE whole == MR!normalizeExceptionPayload(es)
           P == {i \in DOMAIN es : whole[i].description # MR!Empty}
<1>0. \A i \in DOMAIN es : es[i] \in MR!ExceptionDraft
  OBVIOUS
<1>1. \A i \in DOMAIN es : MR!NormalizedException(es[i]) \in MR!ExceptionDraft
  <2> TAKE i \in DOMAIN es
  <2>1. es[i].description \in MR!Text /\ es[i].evidence \in Seq(MR!Text)
    BY <1>0 DEF MR!ExceptionDraft
  <2> QED BY <2>1, ManualTrim, ManualEvidence DEF MR!NormalizedException, MR!ExceptionDraft
<1>2. whole \in Seq(MR!ExceptionDraft) /\ DOMAIN whole = DOMAIN es
      /\ \A i \in DOMAIN es : whole[i] = MR!NormalizedException(es[i])
  BY <1>1 DEF MR!normalizeExceptionPayload
<1>3. MR!buildManualExceptionsFromDraft(es) = ChosenFrom(whole, P)
  BY ManualChosen DEF MR!buildManualExceptionsFromDraft
<1>4. P \in SUBSET DOMAIN whole
  BY <1>2
<1> HIDE DEF whole
<1>5. /\ \A k \in DOMAIN ChosenFrom(whole, P) : \E i \in P : ChosenFrom(whole, P)[k] = whole[i]
      /\ \A i \in P : \E k \in DOMAIN ChosenFrom(whole, P) : ChosenFrom(whole, P)[k] = whole[i]
  <2> HIDE DEF P
  <2> QED BY <1>2, <1>4, ChosenElements
<1>6. \A i \in DOMAIN es : ~MR!IsBlank(es[i].description) => i \in P
  <2> SUFFICES ASSUME NEW i \in DOMAIN es, ~MR!IsBlank(es[i].description)
               PROVE  whole[i].description # MR!Empty
    OBVIOUS
  <2>1. es[i].description \in MR!Text
    BY <1>0 DEF MR!ExceptionDraft
  <2>2. whole[i].description = MR!normalizeRequiredString(es[i].description)
    BY <1>2 DEF MR!NormalizedException
  <2> QED BY <2>1, <2>2, ManualTrim
<1>7. MR!ValidExceptions(ChosenFrom(whole, P))
  <2>1. \A i \in P : whole[i].description # MR!Empty
    OBVIOUS
  <2> HIDE DEF P
  <2>2. ASSUME NEW k \in DOMAIN ChosenFrom(whole, P)
        PROVE  ChosenFrom(whole, P)[k].description # MR!Empty
    <3>1. PICK i \in P : ChosenFrom(whole, P)[k] = whole[i]
      BY <1>5
    <3> QED BY <2>1, <3>1
  <2> QED BY <2>2 DEF MR!ValidExceptions
<1> DEFINE request == ChosenFrom(whole, P)
<1>8. ASSUME NEW i \in DOMAIN es, ~MR!IsBlank(es[i].description)
      PROVE  \E k \in DOMAIN request : request[k] = MR!NormalizedException(es[i])
  <2>1. i \in P /\ whole[i] = MR!NormalizedException(es[i])
    BY <1>2, <1>6, <1>8
  <2> HIDE DEF P
  <2> QED BY <2>1, <1>5
<1> HIDE DEF P, request
<1>9. MR!buildManualExceptionsFromDraft(es) = request /\ MR!ValidExceptions(request)
  BY <1>3, <1>7 DEF request
<1> QED BY <1>8, <1>9

LEMMA FormFacts ==
  ASSUME NEW f \in Forms
  PROVE  /\ f.rule_id \in MR!Text /\ f.statement \in MR!Text /\ f.rationale \in MR!Text
         /\ f.class \in MR!Classes /\ f.condition \in MR!ConditionDraft
         /\ \A k \in ScopeFields : f.scope[k] \in MR!Text
         /\ f.applicability \in MR!ApplicabilityDraft
         /\ f.exceptions \in Seq(MR!ExceptionDraft)
         /\ f.citation \in MR!Citation
         /\ f.class # "enforceable" => ~MR!ApplicabilityTouched(f.applicability)
         /\ f.rule_id = f["rule_id"] /\ f.statement = f["statement"]
         /\ f.rationale = f["rationale"]
<1>1. f \in MR!FormValue
      /\ (f.class # "enforceable" => ~MR!ApplicabilityTouched(f.applicability))
  BY PagesAssumption DEF MR!ManualAssumption
<1> QED BY <1>1 DEF MR!FormValue

(* What the form lets through leaves nothing out.                          *)
LEMMA NoErrors ==
  ASSUME NEW f \in Forms, MR!validateManualRuleDraft(f) = {}
  PROVE  /\ ~MR!IsBlank(f.rule_id) /\ ~MR!IsBlank(f.statement) /\ ~MR!IsBlank(f.rationale)
         /\ f.class = "enforceable" =>
              \A k \in {"field", "operator", "value"} : ~MR!IsBlank(f.condition[k])
         /\ MR!ApplicabilityTouched(f.applicability) =>
              ~MR!IsBlank(f.applicability.unit) /\ f.applicability.period # ""
         /\ MR!CitationErrors(f.citation) = {} /\ MR!ExceptionErrors(f.exceptions) = {}
<1>1. {k \in {"rule_id", "statement", "rationale"} : MR!IsBlank(f[k])} = {}
  BY DEF MR!validateManualRuleDraft
<1>2. f.class = "enforceable" =>
        {k \in {"field", "operator", "value"} : MR!IsBlank(f.condition[k])} = {}
  BY DEF MR!validateManualRuleDraft
<1>3. MR!ApplicabilityTouched(f.applicability) =>
        /\ {k \in {"unit"} : MR!IsBlank(f.applicability.unit)} = {}
        /\ {k \in {"period"} : f.applicability.period = ""} = {}
  BY DEF MR!validateManualRuleDraft
<1>4. MR!CitationErrors(f.citation) = {} /\ MR!ExceptionErrors(f.exceptions) = {}
  BY DEF MR!validateManualRuleDraft
<1>5. ~MR!IsBlank(f["rule_id"]) /\ ~MR!IsBlank(f["statement"]) /\ ~MR!IsBlank(f["rationale"])
  BY <1>1
<1> QED BY <1>2, <1>3, <1>4, <1>5, FormFacts

LEMMA SentCitation ==
  ASSUME NEW c \in MR!Citation, MR!CitationErrors(c) = {}, MR!citationTouched(c)
  PROVE  LET s == [c EXCEPT !.text = [k \in MR!CitationTexts |->
                                        MR!normalizeRequiredString(c.text[k])]]
         IN s # None /\ MR!CitationValid(s)
<1> DEFINE s == [c EXCEPT !.text = [k \in MR!CitationTexts |->
                                      MR!normalizeRequiredString(c.text[k])]]
<1>1. /\ \A k \in MR!CitationTexts : c.text[k] \in MR!Text
      /\ c.start \in Int /\ c.end \in Int
      /\ c.start = c["start"] /\ c.end = c["end"]
  BY DEF MR!Citation
<1>2. /\ \A k \in MR!CitationTexts : ~MR!IsBlank(c.text[k])
      /\ MR!IsOffset(c["start"]) /\ MR!IsOffset(c["end"])
      /\ ~(/\ MR!IsOffset(c.end) /\ c.start \notin {NotEntered, NotInteger}
           /\ c.end <= c.start)
  BY DEF MR!CitationErrors
<1>3. c.end > c.start
  BY <1>1, <1>2 DEF MR!IsOffset
<1>4. s \in MR!Citation /\ s.start = c.start /\ s.end = c.end
      /\ \A k \in MR!CitationTexts : s.text[k] = MR!normalizeRequiredString(c.text[k])
  <2>1. [k \in MR!CitationTexts |-> MR!normalizeRequiredString(c.text[k])]
          \in [MR!CitationTexts -> MR!Text]
    BY <1>1, ManualTrim
  <2> QED BY <2>1 DEF MR!Citation
<1>5. \A k \in MR!CitationTexts : s.text[k] # MR!Empty
  BY <1>1, <1>2, <1>4, ManualTrim
<1>6. s # None
  BY <1>4, PagesAssumption DEF MR!ManualAssumption
<1> HIDE DEF s
<1>7. MR!CitationValid(s)
  BY <1>1, <1>2, <1>3, <1>4, <1>5 DEF MR!CitationValid
<1> QED BY <1>6, <1>7 DEF s

(* What the form lets through the server accepts.                          *)
LEMMA LetThroughIsValid ==
  ASSUME NEW f \in Forms, MR!validateManualRuleDraft(f) = {}
  PROVE  MR!RequestValid(MR!buildManualRuleRequest(f))
<1> DEFINE r == MR!buildManualRuleRequest(f)
<1>1. /\ r.rule_id = f.rule_id.word
      /\ r.statement = MR!normalizeRequiredString(f.statement)
      /\ r.rationale = MR!normalizeRequiredString(f.rationale)
      /\ r.class = f.class
      /\ r.condition = IF f.class = "enforceable"
                       THEN MR!buildRequiredConditionFromDraft(f.condition) ELSE None
      /\ r.applicability = IF f.class = "enforceable"
                           THEN MR!buildManualApplicabilityFromDraft(f.applicability) ELSE None
      /\ r.exceptions = MR!buildManualExceptionsFromDraft(f.exceptions)
      /\ r.citation = IF MR!citationTouched(f.citation)
                      THEN [f.citation EXCEPT !.text = [k \in MR!CitationTexts |->
                              MR!normalizeRequiredString(f.citation.text[k])]]
                      ELSE None
  BY DEF MR!buildManualRuleRequest
<1> HIDE DEF r
<1>2. r.rule_id # "" /\ r.statement # MR!Empty /\ r.rationale # MR!Empty
  <2>1. f.rule_id.word # ""
    BY NoErrors DEF MR!IsBlank
  <2> QED BY <1>1, <2>1, NoErrors, FormFacts, ManualTrim
<1>3. MR!ValidCondition(r.condition) /\ (r.class = "enforceable" <=> r.condition # None)
  <2>1. CASE f.class = "enforceable"
    <3> DEFINE b == MR!buildRequiredConditionFromDraft(f.condition)
    <3>1. b = [k \in {"field", "operator", "value"} |->
                 MR!normalizeRequiredString(f.condition[k])]
      BY DEF MR!buildRequiredConditionFromDraft
    <3>2. \A k \in {"field", "operator", "value"} : f.condition[k] \in MR!Text
      BY FormFacts DEF MR!ConditionDraft
    <3>3. \A k \in {"field", "operator", "value"} :
            MR!normalizeRequiredString(f.condition[k]) # MR!Empty
            /\ MR!normalizeRequiredString(f.condition[k]) \in MR!Text
      BY <2>1, <3>2, NoErrors, ManualTrim
    <3>4. b = [field |-> MR!normalizeRequiredString(f.condition["field"]),
               operator |-> MR!normalizeRequiredString(f.condition["operator"]),
               value |-> MR!normalizeRequiredString(f.condition["value"])]
      BY <3>1
    <3>5. b \in MR!ConditionDraft
      BY <3>3, <3>4 DEF MR!ConditionDraft
    <3>6. b # None
      BY <3>5, PagesAssumption DEF MR!DraftAssumption
    <3>7. \A k \in DOMAIN b : b[k] # MR!Empty
      BY <3>1, <3>3
    <3> HIDE DEF b
    <3>8. r.condition = b
      BY <1>1, <2>1 DEF b
    <3> QED BY <1>1, <2>1, <3>6, <3>7, <3>8 DEF MR!ValidCondition
  <2>2. CASE f.class # "enforceable"
    BY <1>1, <2>2 DEF MR!ValidCondition
  <2> QED BY <2>1, <2>2
<1>4. MR!ValidApplicability(r.applicability)
  <2>1. CASE r.applicability = None
    BY <2>1 DEF MR!ValidApplicability
  <2>2. CASE r.applicability # None
    <3>1. r.applicability = MR!AsApplicability(f.applicability)
          /\ f.applicability.period # "" /\ ~MR!IsBlank(f.applicability.unit)
      BY <1>1, <2>2 DEF MR!buildManualApplicabilityFromDraft
    <3>2. f.applicability.unit \in MR!Text
      BY FormFacts DEF MR!ApplicabilityDraft
    <3>4. /\ MR!AsApplicability(f.applicability).period = f.applicability.period
          /\ MR!AsApplicability(f.applicability).unit
               = MR!normalizeRequiredString(f.applicability.unit)
      BY DEF MR!AsApplicability
    <3>5. MR!normalizeRequiredString(f.applicability.unit) # MR!Empty
      BY <3>1, <3>2, ManualTrim
    <3>3. r.applicability.period # "" /\ r.applicability.unit # MR!Empty
      BY <3>1, <3>4, <3>5
    <3> QED BY <3>3 DEF MR!ValidApplicability
  <2> QED BY <2>1, <2>2
<1>5. MR!ValidExceptions(r.exceptions)
  BY <1>1, FormFacts, ManualExceptions
<1>6. MR!CitationValid(r.citation)
  <2>1. CASE MR!citationTouched(f.citation)
    BY <1>1, <2>1, FormFacts, NoErrors, SentCitation
  <2>2. CASE ~MR!citationTouched(f.citation)
    BY <1>1, <2>2 DEF MR!CitationValid
  <2> QED BY <2>1, <2>2
<1>7. MR!RequestValid(r)
  BY <1>2, <1>3, <1>4, <1>5, <1>6 DEF MR!RequestValid
<1> QED BY <1>7 DEF r

(* What the server has of the Manual Rules, and what the form shows.       *)
Submitted == /\ draft \in Forms
             /\ MR!validateManualRuleDraft(draft) = {}
             /\ pending = MR!buildManualRuleRequest(draft)
ManualInv ==
  /\ draft \in Forms \cup {MR!EmptyManualRuleDraft}
  /\ pending # None => Submitted
  /\ answer \in {"none", "created", "error", "lost"}
  /\ createdRule \in stored \cup {None}
  /\ \A r \in stored : MR!RequestValid(r)
  /\ MR!OneRulePerId

LEMMA ManualInit == MR!Init => ManualInv
BY DEF MR!Init, ManualInv, MR!OneRulePerId

(* Storing a request drops a currency of one or two letters, no more.      *)
LEMMA StoredIsValid ==
  ASSUME NEW f \in Forms, MR!validateManualRuleDraft(f) = {}
  PROVE  /\ MR!RequestValid(MR!Store(MR!buildManualRuleRequest(f)))
         /\ MR!Store(MR!buildManualRuleRequest(f)).rule_id
              = MR!buildManualRuleRequest(f).rule_id
<1> DEFINE r == MR!buildManualRuleRequest(f)
           s == MR!Store(r)
           a == r.applicability
           kept == MR!StoredCurrency(a)
<1>0. MR!RequestValid(r)
  BY LetThroughIsValid
<1>1. DOMAIN r = {"rule_id", "statement", "rationale", "class", "scope", "condition",
                  "applicability", "exceptions", "citation"}
      /\ r = [k \in DOMAIN r |-> r[k]]
  BY DEF MR!buildManualRuleRequest
<1>a. a = None \/ a = MR!AsApplicability(f.applicability)
  BY DEF MR!buildManualRuleRequest, MR!buildManualApplicabilityFromDraft
<1>2. MR!ValidApplicability(kept)
  <2>1. MR!ValidApplicability(a)
    BY <1>0 DEF MR!RequestValid
  <2>2. CASE kept = a
    BY <2>1, <2>2
  <2>3. CASE kept # a
    <3>1. a # None /\ kept = [a EXCEPT !.currency = None]
      BY <2>3 DEF MR!StoredCurrency
    <3>2. a.period # "" /\ a.unit # MR!Empty
      BY <2>1, <3>1 DEF MR!ValidApplicability
    <3>3. a = MR!AsApplicability(f.applicability)
      BY <1>a, <3>1
    <3>4. kept.period = a.period /\ kept.unit = a.unit
      BY <3>1, <3>3 DEF MR!AsApplicability
    <3> QED BY <3>2, <3>4 DEF MR!ValidApplicability
  <2> QED BY <2>2, <2>3
<1>3. s = [r EXCEPT !.applicability = kept]
  BY DEF MR!Store
<1> HIDE DEF r, kept
<1>4. /\ s.rule_id = r.rule_id /\ s.statement = r.statement /\ s.rationale = r.rationale
      /\ s.class = r.class /\ s.condition = r.condition /\ s.applicability = kept
      /\ s.exceptions = r.exceptions /\ s.citation = r.citation
  BY <1>1, <1>3
<1> HIDE DEF s
<1>5. MR!RequestValid(s)
  BY <1>0, <1>2, <1>4 DEF MR!RequestValid
<1> QED BY <1>4, <1>5 DEF s, r

(* A form nobody has filled in is not sent.                                *)
LEMMA EmptyNotSent == MR!validateManualRuleDraft(MR!EmptyManualRuleDraft) # {}
<1> DEFINE e == MR!EmptyManualRuleDraft
<1>1. e["rule_id"] = MR!Empty
  BY DEF MR!EmptyManualRuleDraft
<1> HIDE DEF e
<1>2. MR!IsBlank(MR!Empty)
  BY DEF MR!IsBlank, MR!Empty, MR!Trimmed
<1>4. MR!IsBlank(e["rule_id"])
  BY <1>1, <1>2
<1>3. "rule_id" \in MR!validateManualRuleDraft(e)
  BY <1>4 DEF MR!validateManualRuleDraft
<1> QED BY <1>3 DEF e

LEMMA ManualStep ==
  ASSUME ManualInv, MR!Next
  PROVE  ManualInv'
<1> USE DEF ManualInv
<1>1. CASE MR!Type
  <2>1. pending' = None /\ draft' \in Forms /\ answer' = "none"
        /\ UNCHANGED <<createdRule, stored>>
    BY <1>1 DEF MR!Type
  <2> QED BY <2>1 DEF MR!OneRulePerId
<1>2. CASE MR!handleSubmit
  <2>1. /\ draft' = draft /\ answer' = "none" /\ UNCHANGED <<createdRule, stored>>
        /\ pending' = IF MR!validateManualRuleDraft(draft) = {}
                      THEN MR!buildManualRuleRequest(draft) ELSE None
    BY <1>2 DEF MR!handleSubmit
  <2>2. pending' # None => Submitted'
    BY <2>1, EmptyNotSent DEF Submitted
  <2> QED BY <2>1, <2>2 DEF MR!OneRulePerId
<1>3. CASE MR!Created
  <2> DEFINE s == MR!Store(pending)
  <2>1. /\ pending # None /\ ~MR!Conflict(pending.rule_id)
        /\ stored' = stored \cup {s} /\ pending' = None
        /\ MR!Succeed \/ MR!Fail("lost")
    BY <1>3 DEF MR!Created
  <2>2. MR!RequestValid(s) /\ s.rule_id = pending.rule_id
    BY <2>1, StoredIsValid DEF Submitted
  <2> HIDE DEF s
  <2>3. MR!OneRulePerId'
    BY <2>1, <2>2 DEF MR!OneRulePerId, MR!Conflict
  <2>4. \A r \in stored' : MR!RequestValid(r)
    BY <2>1, <2>2
  <2>5. CASE MR!Succeed
    <3>1. createdRule' = s /\ draft' = MR!EmptyManualRuleDraft /\ answer' = "created"
      BY <2>5 DEF MR!Succeed, s
    <3> QED BY <2>1, <2>3, <2>4, <3>1
  <2>6. CASE MR!Fail("lost")
    <3>1. createdRule' = createdRule /\ draft' = draft /\ answer' = "lost"
      BY <2>6 DEF MR!Fail
    <3> QED BY <2>1, <2>3, <2>4, <3>1
  <2> QED BY <2>1, <2>5, <2>6
<1>4. CASE MR!Refused
  <2>1. MR!RequestValid(pending)
    BY <1>4, LetThroughIsValid DEF MR!Refused, Submitted
  <2>2. \E how \in {"error", "lost"} : MR!Fail(how)
    BY <1>4, <2>1 DEF MR!Refused
  <2>3. draft' = draft /\ createdRule' = createdRule /\ answer' \in {"error", "lost"}
    BY <2>2 DEF MR!Fail
  <2>4. pending' = None /\ stored' = stored
    BY <1>4 DEF MR!Refused
  <2> QED BY <2>3, <2>4 DEF MR!OneRulePerId
<1> QED BY <1>1, <1>2, <1>3, <1>4 DEF MR!Next

(* An exception that says something has a description.                     *)
LEMMA SaysIsDescribed ==
  ASSUME NEW f \in Forms, MR!validateManualRuleDraft(f) = {},
         NEW i \in DOMAIN f.exceptions,
         MR!NormalizedException(f.exceptions[i]) # MR!EmptyException
  PROVE  ~MR!IsBlank(f.exceptions[i].description)
<1> DEFINE e == f.exceptions[i]
<1>1. e \in MR!ExceptionDraft
  BY FormFacts
<1>2. e.description \in MR!Text /\ e.evidence \in Seq(MR!Text)
  BY <1>1 DEF MR!ExceptionDraft
<1>3. ~(MR!HasEvidence(e) /\ MR!IsBlank(e.description))
  BY NoErrors DEF MR!ExceptionErrors
<1> HIDE DEF e
<1>4. SUFFICES ASSUME MR!IsBlank(e.description) PROVE FALSE
  BY DEF e
<1>5. MR!normalizeRequiredString(e.description) = MR!Empty
  BY <1>2, <1>4, ManualTrim
<1>6. MR!Evidence(e.evidence) = <<>>
  BY <1>2, <1>3, <1>4, ManualEvidence DEF MR!HasEvidence
<1>7. MR!NormalizedException(e) = MR!EmptyException
  BY <1>5, <1>6 DEF MR!NormalizedException, MR!EmptyException
<1> QED BY <1>7 DEF e

LEMMA ManualMeans ==
  ASSUME ManualInv
  PROVE  /\ MR!TypeOK /\ MR!ValidatedRequestAccepted
         /\ MR!NothingTypedIsDropped /\ MR!OneRulePerId
<1> USE DEF ManualInv
<1>1. MR!TypeOK
  BY DEF MR!TypeOK, Submitted
<1>2. MR!ValidatedRequestAccepted
  BY LetThroughIsValid DEF MR!ValidatedRequestAccepted, Submitted
<1>3. MR!NothingTypedIsDropped
  <2> SUFFICES ASSUME pending # None PROVE MR!NothingTypedIsDropped
    BY DEF MR!NothingTypedIsDropped
  <2>0. Submitted
    OBVIOUS
  <2> DEFINE request == MR!buildManualRuleRequest(draft)
  <2>1. ASSUME NEW i \in DOMAIN draft.exceptions,
               MR!NormalizedException(draft.exceptions[i]) # MR!EmptyException
        PROVE  \E j \in DOMAIN request.exceptions :
                 request.exceptions[j] = MR!NormalizedException(draft.exceptions[i])
    <3>1. ~MR!IsBlank(draft.exceptions[i].description)
      BY <2>0, <2>1, SaysIsDescribed DEF Submitted
    <3>2. draft.exceptions \in Seq(MR!ExceptionDraft)
      BY <2>0, FormFacts DEF Submitted
    <3>3. request.exceptions = MR!buildManualExceptionsFromDraft(draft.exceptions)
      BY DEF MR!buildManualRuleRequest
    <3> HIDE DEF request
    <3> QED BY <3>1, <3>2, <3>3, ManualExceptions
  <2>2. ASSUME MR!ApplicabilityTouched(draft.applicability)
        PROVE  request.applicability = MR!AsApplicability(draft.applicability)
    <3>1. /\ draft.applicability.period # "" /\ ~MR!IsBlank(draft.applicability.unit)
          /\ draft.class = "enforceable" /\ draft.applicability \in MR!ApplicabilityDraft
      BY <2>0, <2>2, FormFacts, NoErrors DEF Submitted
    <3> QED BY <3>1 DEF MR!buildManualRuleRequest, MR!buildManualApplicabilityFromDraft
  <2>3. ASSUME MR!citationTouched(draft.citation)
        PROVE  /\ request.citation # None
               /\ \A k \in MR!CitationTexts :
                    request.citation.text[k].word = draft.citation.text[k].word
               /\ request.citation.start = draft.citation.start
               /\ request.citation.end = draft.citation.end
    <3>1. draft.citation \in MR!Citation /\ MR!CitationErrors(draft.citation) = {}
      BY <2>0, FormFacts, NoErrors DEF Submitted
    <3>2. request.citation = [draft.citation EXCEPT !.text = [k \in MR!CitationTexts |->
                             MR!normalizeRequiredString(draft.citation.text[k])]]
      BY <2>3 DEF MR!buildManualRuleRequest
    <3> HIDE DEF request
    <3>3. request.citation # None
      BY <2>3, <3>1, <3>2, SentCitation
    <3>4. /\ request.citation.start = draft.citation.start
          /\ request.citation.end = draft.citation.end
          /\ \A k \in MR!CitationTexts : request.citation.text[k]
               = MR!normalizeRequiredString(draft.citation.text[k])
      BY <3>1, <3>2 DEF MR!Citation
    <3> QED BY <3>3, <3>4, TrimKeeps
  <2>4. pending = request
    BY <2>0 DEF Submitted
  <2>5. MR!SentAsTyped
    <3>1. /\ request.rule_id = draft.rule_id.word
          /\ request.statement = MR!normalizeRequiredString(draft.statement)
          /\ request.rationale = MR!normalizeRequiredString(draft.rationale)
          /\ request.class = draft.class
          /\ request.scope = MR!buildScopeFromDraft(draft.scope)
          /\ draft.class = "enforceable" =>
               request.condition = MR!buildRequiredConditionFromDraft(draft.condition)
      BY DEF MR!buildManualRuleRequest
    <3> HIDE DEF request
    <3>2. ASSUME NEW f \in ScopeFields
          PROVE  MR!OrEmpty(request.scope[f]).word = draft.scope[f].word
      <4>1. draft.scope[f] \in MR!Text
        BY <2>0, FormFacts DEF Submitted
      <4>2. request.scope[f] = MR!normalizeOptionalString(draft.scope[f])
        BY <3>1 DEF MR!buildScopeFromDraft
      <4> QED BY <4>1, <4>2, ManualOptional
    <3>3. ASSUME draft.class = "enforceable", NEW k \in {"field", "operator", "value"}
          PROVE  request.condition[k].word = draft.condition[k].word
      <4>1. request.condition[k] = MR!normalizeRequiredString(draft.condition[k])
        BY <3>1, <3>3 DEF MR!buildRequiredConditionFromDraft
      <4> QED BY <4>1, TrimKeeps
    <3> QED BY <2>4, <3>1, <3>2, <3>3, TrimKeeps DEF MR!SentAsTyped
  <2> HIDE DEF request
  <2> QED BY <2>1, <2>2, <2>3, <2>4, <2>5 DEF MR!NothingTypedIsDropped
<1> QED BY <1>1, <1>2, <1>3
-----------------------------------------------------------------------------
(* The pages together: the one that is mounted keeps its invariant, and no *)
(* step mounts another.                                                    *)
PagesInv == /\ mounted \in Pages
            /\ mounted = "picker" => PickerInv
            /\ mounted = "list"   => ListInv
            /\ mounted = "review" => ReviewInv
            /\ mounted = "source" => SourceInv
            /\ mounted = "editor" => EditorInv
            /\ mounted = "manual" => ManualInv

LEMMA PagesStart == PagesInit => PagesInv
<1> SUFFICES ASSUME PagesInit PROVE PagesInv
  OBVIOUS
<1>0. mounted \in Pages
  BY DEF PagesInit
<1>1. CASE mounted = "picker"
  BY <1>1, <1>0, PickerInit DEF PagesInit, PagesInv
<1>2. CASE mounted = "list"
  BY <1>2, <1>0, ListInit DEF PagesInit, PagesInv
<1>3. CASE mounted = "review"
  BY <1>3, <1>0, ReviewInit DEF PagesInit, PagesInv
<1>4. CASE mounted = "source"
  BY <1>4, <1>0, SourceInit DEF PagesInit, PagesInv
<1>5. CASE mounted = "editor"
  BY <1>5, <1>0, EditorInit DEF PagesInit, PagesInv
<1>6. CASE mounted = "manual"
  BY <1>6, <1>0, ManualInit DEF PagesInit, PagesInv
<1> QED BY <1>0, <1>1, <1>2, <1>3, <1>4, <1>5, <1>6 DEF Pages

LEMMA PagesStep == PagesInv /\ PagesNext => PagesInv'
<1> SUFFICES ASSUME PagesInv, PagesNext PROVE PagesInv'
  OBVIOUS
<1>0. mounted \in Pages /\ mounted' = mounted
  BY DEF PagesInv, PagesNext
<1>1. CASE mounted = "picker"
  <2>1. PickerInv'
    BY <1>1, PickerStep DEF PagesInv, PagesNext
  <2> QED BY <1>0, <1>1, <2>1 DEF PagesInv
<1>2. CASE mounted = "list"
  <2>1. ListInv'
    BY <1>2, ListStep DEF PagesInv, PagesNext
  <2> QED BY <1>0, <1>2, <2>1 DEF PagesInv
<1>3. CASE mounted = "review"
  <2>1. ReviewInv'
    BY <1>3, ReviewStep DEF PagesInv, PagesNext
  <2> QED BY <1>0, <1>3, <2>1 DEF PagesInv
<1>4. CASE mounted = "source"
  <2>1. SourceInv'
    BY <1>4, SourceStep DEF PagesInv, PagesNext
  <2> QED BY <1>0, <1>4, <2>1 DEF PagesInv
<1>5. CASE mounted = "editor"
  <2>1. EditorInv'
    BY <1>5, EditorStep DEF PagesInv, PagesNext
  <2> QED BY <1>0, <1>5, <2>1 DEF PagesInv
<1>6. CASE mounted = "manual"
  <2>1. ManualInv'
    BY <1>6, ManualStep DEF PagesInv, PagesNext
  <2> QED BY <1>0, <1>6, <2>1 DEF PagesInv
<1> QED BY <1>0, <1>1, <1>2, <1>3, <1>4, <1>5, <1>6 DEF Pages

(* Nothing changes: the invariant of each page is about its variables.     *)
LEMMA PagesStay == PagesInv /\ UNCHANGED pageVars => PagesInv'
<1> SUFFICES ASSUME PagesInv, UNCHANGED pageVars PROVE PagesInv'
  OBVIOUS
<1>0. mounted' = mounted
  BY DEF pageVars
<1>1. PickerInv => PickerInv'
  <2>1. UNCHANGED vars
    BY DEF pageVars, vars
  <2> QED BY <2>1, PickerStep
<1>2. ListInv => ListInv'
  <2>1. UNCHANGED RC!vars
    BY DEF pageVars, RC!vars
  <2> QED BY <2>1, ListStep
<1>3. ReviewInv => ReviewInv'
  <2>1. UNCHANGED RD!vars
    BY DEF pageVars, RD!vars
  <2> QED BY <2>1, ReviewStep
<1>4. SourceInv => SourceInv'
  <2>1. UNCHANGED SV!vars
    BY DEF pageVars, SV!vars
  <2> QED BY <2>1, SourceStep
<1>5. EditorInv => EditorInv'
  <2>1. UNCHANGED RE!vars
    BY DEF pageVars, RE!vars
  <2> QED BY <2>1, EditorStep
<1>6. ManualInv => ManualInv'
  <2>1. UNCHANGED <<draft, pending, answer, createdRule, stored>>
    BY DEF pageVars
  <2> QED BY <2>1 DEF ManualInv, Submitted, MR!OneRulePerId
<1> QED BY <1>0, <1>1, <1>2, <1>3, <1>4, <1>5, <1>6 DEF PagesInv

LEMMA PagesInvariance == PagesSpec => []PagesInv
<1>1. PagesInit => PagesInv
  BY PagesStart
<1>2. PagesInv /\ [PagesNext]_pageVars => PagesInv'
  BY PagesStep, PagesStay
<1> QED BY <1>1, <1>2, PTL DEF PagesSpec

(* The state of every page is of its types.                                *)
THEOREM PagesTypes == PagesSpec => []PagesTypeOK
<1>1. PagesInv => PagesTypeOK
  <2> SUFFICES ASSUME PagesInv PROVE PagesTypeOK
    OBVIOUS
  <2>0. mounted \in Pages
    BY DEF PagesInv
  <2>1. CASE mounted = "picker"
    BY <2>1 DEF PagesInv, PickerInv, PagesTypeOK
  <2>2. CASE mounted = "list"
    BY <2>2, ListMeans DEF PagesInv, PagesTypeOK
  <2>3. CASE mounted = "review"
    BY <2>3, ReviewMeans DEF PagesInv, PagesTypeOK
  <2>4. CASE mounted = "source"
    BY <2>4, SourceMeans DEF PagesInv, PagesTypeOK
  <2>5. CASE mounted = "editor"
    BY <2>5, EditorMeans DEF PagesInv, PagesTypeOK
  <2>6. CASE mounted = "manual"
    BY <2>6, ManualMeans DEF PagesInv, PagesTypeOK
  <2> QED BY <2>0, <2>1, <2>2, <2>3, <2>4, <2>5, <2>6 DEF Pages
<1> QED BY <1>1, PagesInvariance, PTL

(* What is decided, picked or read is what is shown: for any queue and any *)
(* requests that cross in it, any options, some of which may share their   *)
(* texts, and any documents, some characters of which may take two code    *)
(* units.                                                                  *)
THEOREM DecisionsAreAsShown == PagesSpec => []DecidedIsShown
<1>1. PagesInv => DecidedIsShown
  <2> SUFFICES ASSUME PagesInv PROVE DecidedIsShown
    OBVIOUS
  <2>0. mounted \in Pages
    BY DEF PagesInv
  <2>1. CASE mounted = "picker"
    BY <2>1, PickerMeans DEF PagesInv, PickerInv, DecidedIsShown
  <2>2. CASE mounted = "list"
    BY <2>2, ListMeans DEF PagesInv, DecidedIsShown
  <2>3. CASE mounted = "review"
    BY <2>3, ReviewMeans DEF PagesInv, DecidedIsShown
  <2>4. CASE mounted = "source"
    BY <2>4, SourceMeans DEF PagesInv, DecidedIsShown
  <2>5. CASE mounted \in {"editor", "manual"}
    BY <2>5 DEF DecidedIsShown
  <2> QED BY <2>0, <2>1, <2>2, <2>3, <2>4, <2>5 DEF Pages
<1> QED BY <1>1, PagesInvariance, PTL

(* A form sends what it shows: for any rule that was extracted, anything   *)
(* that is typed and any edits, a saved form has nothing unsaved, what is  *)
(* marked is counted, what may be approved the server accepts, no part of  *)
(* a Manual Rule is dropped and none is stored twice.                      *)
THEOREM FormsAreHonest == PagesSpec => []FormsSendWhatTheyShow
<1>1. PagesInv => FormsSendWhatTheyShow
  <2> SUFFICES ASSUME PagesInv PROVE FormsSendWhatTheyShow
    OBVIOUS
  <2>0. mounted \in Pages
    BY DEF PagesInv
  <2>1. CASE mounted = "editor"
    BY <2>1, EditorMeans DEF PagesInv, FormsSendWhatTheyShow
  <2>2. CASE mounted = "manual"
    BY <2>2, ManualMeans DEF PagesInv, FormsSendWhatTheyShow
  <2>3. CASE mounted \notin {"editor", "manual"}
    BY <2>3 DEF FormsSendWhatTheyShow
  <2> QED BY <2>1, <2>2, <2>3
<1> QED BY <1>1, PagesInvariance, PTL
=============================================================================

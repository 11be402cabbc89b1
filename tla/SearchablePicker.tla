--------------------------- MODULE SearchablePicker ---------------------------
(***************************************************************************)
(* The field every list is picked with                                     *)
(* (client/src/shared/ui/SearchablePicker.tsx): an input that searches its *)
(* options while it is open and shows the picked one while it is closed.   *)
(* Whatever the way it is left, what its input shows is resolved into a    *)
(* value again, also when nobody typed.  A text is a member of Texts,      *)
(* without blanks around it; Lower is how it is compared.                  *)
(***************************************************************************)
EXTENDS Integers, Sequences, FiniteSets

CONSTANTS Blank,      \* the empty text
          Texts,
          Lower,      \* a text in lower case
          Contains,   \* pairs of texts: the first contains the second
          Loaded      \* the options, a sequence of [value, label]

VARIABLES free, all,    \* allowFreeText and showAllOnOpen of this field
          options,      \* none before they are loaded
          value,        \* of the parent
          open, query, highlight, focused,
          entered,      \* history: the value the field was entered with
          touched       \* history: typed, picked or cleared since then
props == <<free, all>>
vars == <<free, all, options, value, open, query, highlight, focused, entered, touched>>

Offered == {Loaded[i].value : i \in DOMAIN Loaded}
(* Values are keys of the list; labels (titles, shortened ids) may agree.  *)
ASSUME PickerAssumption ==
  /\ Blank \notin Texts
  /\ Lower \in [Texts \cup {Blank} -> Texts \cup {Blank}]
  /\ \A t \in Texts \cup {Blank} : Lower[t] = Blank <=> t = Blank
  /\ Loaded \in Seq([value : Texts \cup {Blank}, label : Texts])
  /\ \A i, j \in DOMAIN Loaded : i # j => Loaded[i].value # Loaded[j].value

Matching(opts, text) ==
  {i \in DOMAIN opts : \E t \in {opts[i].value, opts[i].label} : <<t, text>> \in Contains}
ByValue(opts, text) == {i \in DOMAIN opts : Lower[opts[i].value] = Lower[text]}
ByLabel(opts, text) == {i \in DOMAIN opts : Lower[opts[i].label] = Lower[text]}
Selected(opts, v) == {i \in DOMAIN opts : opts[i].value = v}
First(S) == CHOOSE i \in S : \A j \in S : i <= j

(* mutant: a label is searched for, not looked up.                         *)
ResolveByValue(text, opts, freely, current) ==
  IF text = Blank THEN IF freely THEN Blank ELSE current
  ELSE IF ByValue(opts, text) # {} THEN opts[First(ByValue(opts, text))].value
  ELSE IF freely THEN text
  ELSE IF Matching(opts, text) # {} THEN opts[First(Matching(opts, text))].value
  ELSE current

(* resolvePickerQuery: the value that a text stands for.                   *)
Resolve(text, opts, freely, current) ==
  IF text = Blank THEN IF freely THEN Blank ELSE current
  ELSE IF ByValue(opts, text) # {} THEN opts[First(ByValue(opts, text))].value
  ELSE IF ByLabel(opts, text) # {} THEN opts[First(ByLabel(opts, text))].value
  ELSE IF freely THEN text
  ELSE IF Matching(opts, text) # {} THEN opts[First(Matching(opts, text))].value
  ELSE current

ClosedText(opts, v) ==
  IF v = Blank THEN Blank
  ELSE IF Selected(opts, v) # {} THEN opts[First(Selected(opts, v))].label
  ELSE v
Display == IF open THEN query ELSE ClosedText(options, value)

(* The options that are listed, and the one at a place from 0.             *)
Filtered == IF query = Blank THEN DOMAIN options ELSE Matching(options, query)
Listed(n) == {i \in Filtered : Cardinality({j \in Filtered : j < i}) = n}
-----------------------------------------------------------------------------
Init ==
  /\ free \in BOOLEAN /\ all = ~free
  /\ options \in {<<>>, Loaded}
  /\ value \in (IF free THEN Texts ELSE Offered) \cup {Blank}
  /\ open = FALSE /\ query = Blank /\ highlight = 0
  /\ focused = FALSE
  /\ entered = value /\ touched = FALSE

OptionsArrive ==
  /\ options' = Loaded
  /\ UNCHANGED <<props, value, open, query, highlight, focused, entered, touched>>

(* The parent clears its filters; the field has been left by then.         *)
ParentResets ==
  /\ ~open /\ ~focused
  /\ value' = Blank /\ entered' = Blank /\ touched' = FALSE
  /\ UNCHANGED <<props, options, open, query, highlight, focused>>
-----------------------------------------------------------------------------
Opens ==
  /\ open' = TRUE
  /\ query' = IF all THEN Blank ELSE ClosedText(options, value)
  /\ highlight' = 0
(* Closed, the field forgets what it searched.                             *)
ClosesOnly == open' = FALSE /\ UNCHANGED <<query, highlight>> \* mutant: it does not
Closes == open' = FALSE /\ query' = Blank /\ highlight' = 0
Enters == entered' = value /\ touched' = FALSE

Focus ==
  /\ ~focused
  /\ focused' = TRUE
  /\ Opens /\ Enters
  /\ UNCHANGED <<props, options, value>>

Type ==
  /\ focused
  /\ \E t \in Texts \cup {Blank} :
       /\ query' = t
       /\ value' = IF free THEN t ELSE value
  /\ open' = TRUE /\ highlight' = 0 /\ touched' = TRUE
  /\ UNCHANGED <<props, options, focused, entered>>

ArrowDown ==
  /\ focused
  /\ IF open
     THEN /\ highlight' = IF highlight + 1 < Cardinality(Filtered) THEN highlight + 1
                          ELSE Cardinality(Filtered) - 1
          /\ UNCHANGED <<open, query>>
     ELSE Opens
  /\ UNCHANGED <<props, options, value, focused, entered, touched>>
ArrowUp ==
  /\ focused
  /\ highlight' = IF highlight > 0 THEN highlight - 1 ELSE 0
  /\ UNCHANGED <<props, options, value, open, query, focused, entered, touched>>

selectOption(i) ==
  /\ value' = options[i].value
  /\ Closes /\ touched' = TRUE
  /\ UNCHANGED <<props, options, focused, entered>>
Enter == focused /\ open /\ \E i \in Listed(highlight) : selectOption(i)
Click == open /\ \E i \in Filtered : selectOption(i)

Escape ==
  /\ Closes
  /\ UNCHANGED <<props, options, value, focused, entered, touched>>

Clear ==
  /\ value # Blank
  /\ value' = Blank
  /\ Closes /\ touched' = TRUE
  /\ UNCHANGED <<props, options, focused, entered>>

(* The button behind the field leaves the focus where it is.               *)
Toggle ==
  /\ IF open
     THEN /\ value' = Resolve(query, options, free, value)
          /\ Closes
          /\ UNCHANGED <<entered, touched>>
     ELSE /\ Opens
          /\ IF focused THEN UNCHANGED <<entered, touched>> ELSE Enters
          /\ UNCHANGED value
  /\ UNCHANGED <<props, options, focused>>

Blur ==
  /\ focused
  /\ focused' = FALSE
  /\ value' = Resolve(Display, options, free, value)
  /\ Closes
  /\ UNCHANGED <<props, options, entered, touched>>

(* A press elsewhere resolves the query, and the blur that follows the     *)
(* text the closed field shows for it.                                     *)
PointerDown ==
  /\ open
  /\ LET picked == Resolve(query, options, free, value) IN
     value' = IF focused THEN Resolve(ClosedText(options, picked), options, free, picked)
              ELSE picked
  /\ focused' = FALSE
  /\ Closes
  /\ UNCHANGED <<props, options, entered, touched>>

Next ==
  \/ OptionsArrive \/ ParentResets \/ Focus \/ Type \/ ArrowDown \/ ArrowUp
  \/ Enter \/ Click \/ Escape \/ Clear \/ Toggle \/ Blur \/ PointerDown
Spec == Init /\ [][Next]_vars
-----------------------------------------------------------------------------
(* The variables hold what their comments say; a listed option can only be *)
(* missed by the highlight when nothing was listed (-1).                   *)
TypeOK ==
  /\ free \in BOOLEAN /\ all = ~free
  /\ options \in {<<>>, Loaded}
  /\ value \in Texts \cup {Blank} /\ entered \in Texts \cup {Blank}
  /\ query \in Texts \cup {Blank}
  /\ open \in BOOLEAN /\ focused \in BOOLEAN /\ touched \in BOOLEAN
  /\ highlight \in -1..Len(Loaded)
  /\ ~open => query = Blank

(* The options a text names, by their values or their labels; what a value *)
(* stands for, an option for itself and a text for the option it names;    *)
(* and whether each of the texts it is shown as names one option at most.  *)
NamedBy(t) == {i \in DOMAIN Loaded :
                 Lower[t] \in {Lower[Loaded[i].value], Lower[Loaded[i].label]}}
Means(v) == IF v \in Offered \/ NamedBy(v) = {} THEN v
            ELSE Loaded[First(NamedBy(v))].value
Distinct(v) == \A t \in {v, Means(v), ClosedText(Loaded, Means(v))} :
                 \A i, j \in NamedBy(t) : i = j

(* However often the field is opened, escaped, toggled and left, and       *)
(* whenever the options arrive: a user who types, picks and clears nothing *)
(* leaves the filter or the draft with the meaning it had, if no other     *)
(* option shares the texts of the one it had.                              *)
UntouchedKeeps == ~touched /\ Distinct(entered) => Means(value) = Means(entered)

(* The same whatever the options are called.  Violated: a field that holds *)
(* the second of two options with one label holds the first when it has    *)
(* been entered and left (SearchablePicker.tsx:405).                       *)
AnyUntouchedKeeps == ~touched => Means(value) = Means(entered)

(* A field without free text holds one of its options, or nothing.         *)
OnlyOffered == ~free => value \in Offered \cup {Blank}
=============================================================================

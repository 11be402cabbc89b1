---------------------------- MODULE SourceView ----------------------------
(***************************************************************************)
(* The source of a Candidate Rule beside its form: the citation strip of   *)
(* CandidateRuleDetail.tsx (CitationStrip, SourceCitationView,             *)
(* UnresolvedCitationSource) and the section browser.  When a review is    *)
(* loaded, saved and decided is ReviewDetail.  The offsets of a Citation   *)
(* count characters; the browser slices a string by UTF-16 code units, of  *)
(* which some characters take two.                                         *)
(***************************************************************************)
EXTENDS Naturals, Sequences, FiniteSets, SequencesExt

CONSTANTS Sections, \* in the order of the document: [id, start_char, end_char, content]
          Wide,     \* characters of two code units
          Blank,    \* characters that count as white space
          Queries,  \* texts typed into the search field
          Found,    \* the sections each of them is found in
          None

SectionAssumption ==
  /\ Sections \in Seq(Range(Sections))
  /\ \A i \in DOMAIN Sections :
       LET s == Sections[i]
       IN /\ s.content \in Seq(Range(s.content))
          /\ s.start_char \in Nat
          /\ s.end_char = s.start_char + Len(s.content)
  /\ \A i, j \in DOMAIN Sections : Sections[i].id = Sections[j].id => i = j

Ids == {Sections[i].id : i \in DOMAIN Sections}
SectionOf(s) == Sections[CHOOSE i \in DOMAIN Sections : Sections[i].id = s]

(* Anchors the server resolves: a span of one section, its text the quote. *)
Anchor(s, from, to) == [section |-> s.id,
                        start_char |-> s.start_char + from,
                        end_char |-> s.start_char + to,
                        quote |-> SubSeq(s.content, from + 1, to)]
Citations ==
  UNION {{Anchor(Sections[i], p[1], p[2]) :
            p \in {q \in (0..Len(Sections[i].content)) \X
                         (0..Len(Sections[i].content)) : q[1] < q[2]}} :
         i \in DOMAIN Sections}

VARIABLES citation, \* of the review that was loaded, None for none
          matches,  \* statementsMatch(quote, statement of the form)
          status,   \* of the sections
          selected, filter, open, full,
          picked    \* history: the reviewer chose a section, or a save anchored
vars == <<citation, matches, status, selected, filter, open, full, picked>>
-----------------------------------------------------------------------------
Units(chars) == FlattenSeq([i \in DOMAIN chars |->
                  IF chars[i] \in Wide THEN <<<<chars[i], 1>>, <<chars[i], 2>>>>
                  ELSE <<<<chars[i], 1>>>>])

slice(units, a, b) == SubSeq(units, a + 1, IF b < Len(units) THEN b ELSE Len(units))

(* What is displayed of a fragment: trimmed.                               *)
cleanSourceFragment(units) ==
  LET text == {i \in DOMAIN units : units[i][1] \notin Blank}
  IN IF text = {} THEN <<>>
     ELSE SubSeq(units, CHOOSE i \in text : \A j \in text : i <= j,
                        CHOOSE i \in text : \A j \in text : i >= j)

splitSectionCitation(section, cit) ==
  LET from == IF cit.start_char > section.start_char THEN cit.start_char
              ELSE section.start_char
      to == IF cit.end_char < section.end_char THEN cit.end_char
            ELSE section.end_char
      units == Units(section.content)
      cleaned == cleanSourceFragment(slice(units, from - section.start_char,
                                                  to - section.start_char))
  IN [split |-> from < to,
      highlight |-> IF cleaned = <<>> THEN Units(cit.quote) ELSE cleaned]

viewingCitedSection == /\ citation # None
                       /\ status = "ready"
                       /\ selected = citation.section

SourceCitationView ==
  LET split == splitSectionCitation(SectionOf(selected), citation)
  IN IF matches THEN <<>>
     ELSE IF full /\ split.split THEN split.highlight
     ELSE Units(citation.quote)

(* The passage the strip displays; a section the reviewer browses to is    *)
(* displayed as a whole instead.                                           *)
CitationStrip ==
  IF status \in {"loading", "error"} \/ selected = None \/ status = "idle"
  THEN IF matches THEN <<>> ELSE Units(citation.quote)
  ELSE IF viewingCitedSection THEN SourceCitationView
  ELSE Units(SectionOf(selected).content)

UnresolvedCitationSource ==
  IF status = "ready" /\ selected # None THEN Units(SectionOf(selected).content)
  ELSE <<>>

canBrowse == status = "ready" /\ Sections # <<>>
-----------------------------------------------------------------------------
Init == /\ citation = None /\ matches = FALSE
        /\ status = "idle" /\ selected = None
        /\ filter \in Queries
        /\ open = FALSE /\ full = FALSE /\ picked = FALSE

loadReview(cit, same) ==
  /\ citation' = cit /\ matches' = same
  /\ status' = "loading" /\ selected' = None /\ picked' = FALSE
  /\ filter' \in Queries
  /\ open' = FALSE /\ full' = FALSE

loadSourceDocumentSections ==
  /\ status = "loading"
  /\ \/ /\ status' = "ready"
        /\ selected' = IF citation # None THEN citation.section
                       ELSE IF Sections = <<>> THEN None ELSE Sections[1].id
     \/ /\ status' = "error"
        /\ UNCHANGED selected
  /\ UNCHANGED <<citation, matches, filter, open, full, picked>>

Browse(b) == /\ canBrowse
             /\ open' = b
             /\ UNCHANGED <<citation, matches, status, selected, filter, full,
                            picked>>

setSectionFilter(q) == /\ open
                       /\ filter' = q
                       /\ UNCHANGED <<citation, matches, status, selected, open,
                                      full, picked>>

handleSectionSelect(s) ==
  /\ open /\ s \in Found[filter]
  /\ selected' = s /\ picked' = TRUE
  /\ full' = FALSE
  /\ UNCHANGED <<citation, matches, status, filter, open>>

toggleContext == /\ viewingCitedSection
                 /\ full' = ~full
                 /\ UNCHANGED <<citation, matches, status, selected, filter,
                                open, picked>>

EditStatement(same) == /\ citation # None
                       /\ matches' = same
                       /\ UNCHANGED <<citation, status, selected, filter, open,
                                      full, picked>>

(* A save anchors a rule without a citation; the section stays as it is.   *)
SaveAnchors(cit, same) ==
  /\ citation = None
  /\ citation' = cit /\ matches' = same /\ picked' = TRUE
  /\ UNCHANGED <<status, selected, filter, open, full>>

Next == \/ \E cit \in Citations \cup {None}, same \in BOOLEAN :
             loadReview(cit, cit # None /\ same)
        \/ loadSourceDocumentSections
        \/ \E b \in BOOLEAN : Browse(b)
        \/ \E q \in Queries : setSectionFilter(q)
        \/ \E s \in Ids : handleSectionSelect(s)
        \/ toggleContext
        \/ \E same \in BOOLEAN : EditStatement(same)
        \/ \E cit \in Citations, same \in BOOLEAN : SaveAnchors(cit, same)
Spec == Init /\ [][Next]_vars
-----------------------------------------------------------------------------
(* Types; the section browser is open over sections only.                  *)
TypeOK == /\ citation \in Citations \cup {None}
          /\ status \in {"idle", "loading", "ready", "error"}
          /\ selected \in Ids \cup {None}
          /\ filter \in Queries
          /\ open => canBrowse

(* Up to its end a Citation is of characters of one code unit.             *)
Narrow(cit) == LET s == SectionOf(cit.section)
               IN \A i \in 1..(cit.end_char - s.start_char) : s.content[i] \notin Wide

(* A Citation is a "verbatim quote, and character offsets" (CONTEXT.md:32):*)
(* until the reviewer browses elsewhere the passage in view is the quote,  *)
(* whatever the section holds, while it is shown without its context; with *)
(* its context, when it is cut out of the section, as long as the section  *)
(* is Narrow up to there, whatever follows.                                *)
QuoteInView ==
  citation # None /\ ~matches /\ ~picked /\ (full => Narrow(citation)) =>
    cleanSourceFragment(CitationStrip) = cleanSourceFragment(Units(citation.quote))

(* The same whatever comes before the passage.  Violated: a character of   *)
(* two code units before its end moves the passage that is highlighted     *)
(* (CandidateRuleDetail.tsx:114).                                          *)
CitedTextInView ==
  citation # None /\ ~matches /\ ~picked =>
    cleanSourceFragment(CitationStrip) = cleanSourceFragment(Units(citation.quote))

(* The context of a passage is on for the cited section only, wherever the *)
(* reviewer browsed and whatever a save anchored in between.               *)
ContextIsCited == full => viewingCitedSection
=============================================================================

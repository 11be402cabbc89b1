----------------------------- MODULE MCRulePages -----------------------------
(* Small instances of RulePages: a list of five options; three rules of    *)
(* two documents, two of which may be approved in a batch; a queue of      *)
(* three; a document of two sections; three extracted rules; every way to  *)
(* fill one part of the Manual Rule form, the other parts being complete.  *)
EXTENDS RulePages
CONSTANTS short, shortTitle, twin, twice, twinTitle, long, none, other

(* Five options: one has its value as its label and contains the texts of  *)
(* the next, two have one label, and one stands for no value.  Another     *)
(* text is the value of an option in capitals.                             *)
MCTexts == {short, shortTitle, twin, twice, twinTitle, long, none, other}
MCLower == [t \in MCTexts \cup {Blank} |-> IF t = other THEN short ELSE t]
MCLoaded == <<[value |-> long, label |-> long],
              [value |-> short, label |-> shortTitle],
              [value |-> twin, label |-> twinTitle],
              [value |-> twice, label |-> twinTitle],
              [value |-> Blank, label |-> none]>>
MCContains == {<<t, t>> : t \in MCTexts} \cup
              {<<short, other>>, <<other, short>>, <<twinTitle, twin>>} \cup
              {<<shortTitle, short>>, <<shortTitle, other>>} \cup
              {<<long, short>>, <<long, other>>, <<long, shortTitle>>}
MCDocOf == [r1 |-> "d1", r2 |-> "d2", r3 |-> "d2"]
MCQueue == <<"r1", "r2", "r3">>
(* Two sections, the second begins after a gap and has a wide character.   *)
MCSections == <<[id |-> "s1", start_char |-> 0, end_char |-> 3,
                 content |-> <<"a", " ", "b">>],
                [id |-> "s2", start_char |-> 5, end_char |-> 9,
                 content |-> <<"w", "c", " ", "d">>]>>
MCFoundIn == [q \in {"", "w"} |-> IF q = "" THEN {"s1", "s2"} ELSE {"s2"}]
-----------------------------------------------------------------------------
T(w) == [word |-> w, pad |-> FALSE]
Blanks == [word |-> "", pad |-> TRUE]

(* An extracted rule may carry white space.                                *)
Complete ==
  [statement |-> T("a"), class |-> "enforceable",
   scope |-> [f \in {"country"} |-> None],
   condition |-> [field |-> T("a"), operator |-> T("<="), value |-> T("a")],
   applicability |-> [period |-> "day", unit |-> T("a"), currency |-> None,
                      basis |-> None],
   exceptions |-> <<[description |-> T("a"), evidence |-> <<T("a")>>]>>]
Bare == [Complete EXCEPT !.class = "guidance", !.condition = None,
                         !.applicability = None, !.exceptions = <<>>]
Padded == [Complete EXCEPT !.statement.pad = TRUE,
             !.scope = [f \in {"country"} |-> [word |-> "a", pad |-> TRUE]],
             !.applicability.unit.pad = TRUE]

MCNotEntered == -9
MCNotInteger == -8
CitationFields == {"document", "version", "section", "quote"}
Uncited == [text |-> [k \in CitationFields |-> T("")],
            start |-> MCNotEntered, end |-> MCNotEntered]
Filled ==
  [rule_id |-> T("r1"), statement |-> T("a"), rationale |-> T("a"),
   class |-> "enforceable", scope |-> [f \in {"country"} |-> T("")],
   condition |-> [k \in {"field", "operator", "value"} |-> T("a")],
   applicability |-> [period |-> "", unit |-> T(""), currency |-> "",
                      basis |-> T("")],
   exceptions |-> <<[description |-> T(""), evidence |-> <<>>]>>,
   citation |-> Uncited]
Classed(c) ==
  [Filled EXCEPT !.class = c,
     !.condition = IF c = "enforceable" THEN @
                   ELSE [field |-> T(""), operator |-> T("<="), value |-> T("")]]
Heads ==
  {Classed(c) : c \in {"enforceable", "guidance", "subjective"}}
  \cup {[Filled EXCEPT ![k] = Blanks] : k \in {"rule_id", "statement", "rationale"}}
  \cup {[Filled EXCEPT !.rule_id = [word |-> "r2", pad |-> TRUE]]}
  \cup {[Filled EXCEPT !.condition[k] = Blanks] : k \in {"field", "value"}}
Scopes ==
  {[Filled EXCEPT !.scope = [f \in {"country"} |-> t]] :
     t \in {Blanks, [word |-> "a", pad |-> TRUE]}}
Applicabilities ==
  {[Filled EXCEPT !.applicability.period = p, !.applicability.unit = u,
                  !.applicability.currency = c] :
     p \in {"", "day"}, u \in {Blanks, T("a")}, c \in {"", "US", "USD"}}
Exceptions ==
  {[Filled EXCEPT !.exceptions = <<[description |-> d, evidence |-> e],
                                   [description |-> x, evidence |-> <<>>]>>] :
     d \in {Blanks, T("a")}, e \in {<<Blanks>>, <<T("a"), Blanks>>},
     x \in {T(""), T("r1")}}
Cited == [k \in CitationFields |-> T("a")]
Citations ==
  {[Filled EXCEPT !.citation = [text |-> t, start |-> s, end |-> e]] :
     t \in {Cited, Uncited.text, [Cited EXCEPT !["quote"] = Blanks]},
     s \in {MCNotEntered, 0}, e \in {MCNotInteger, 0, 1}}
MCForms == Heads \cup Scopes \cup Applicabilities \cup Exceptions \cup Citations
MCExtractedRules == {Complete, Bare, Padded}
=============================================================================

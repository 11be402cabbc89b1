SPECIFICATION PagesSpec
CONSTANTS
  None = None
  Blank = Blank
  short = short
  shortTitle = shortTitle
  twin = twin
  twice = twice
  twinTitle = twinTitle
  long = long
  none = none
  other = other
  AllDocs = AllDocs
  Texts <- MCTexts
  Lower <- MCLower
  Contains <- MCContains
  Loaded <- MCLoaded
  Candidates = {"r1", "r2", "r3"}
  Docs = {"d1", "d2"}
  DocOf <- MCDocOf
  Flagged = {"r3"}
  Changed = {"r3"}
  Blocked = {"r3"}
  MaxLoads = 2
  MaxDecisions = 2
  Queue <- MCQueue
  MaxMounts = 2
  Sections <- MCSections
  Wide = {"c"}
  Spaces = {" "}
  Queries = {"", "w"}
  FoundIn <- MCFoundIn
  EditorWords = {"a", "<="}
  Words = {"a", "r1", "r2", "<="}
  ScopeFields = {"country"}
  Periods = {"day"}
  Currencies = {"USD"}
  Fragments = {"US"}
  ExtractedRules <- MCExtractedRules
  Unresolvable = FALSE
  MaxEdits = 2
  Forms <- MCForms
  NotEntered <- MCNotEntered
  NotInteger <- MCNotInteger
  MaxRules = 2
INVARIANTS
  PagesTypeOK
  DecidedIsShown
  FormsSendWhatTheyShow
PROPERTIES
  PagesComeToRest
CHECK_DEADLOCK FALSE

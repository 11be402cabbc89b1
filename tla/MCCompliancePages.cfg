SPECIFICATION Spec
CONSTANTS
  None = None
  Cases = {"c1"}
  RuleOf <- MCRuleOf
  MaxTestRuns = 2
  MaxTestActs = 2
  TestOthers = 1
  Flags = {"approval"}
  Decimals = {"50"}
  Words = {"fifty"}
  Purposes = {"travel"}
  Days = {"0"}
  Versions = {"v1", "v2", "v3"}
  Newest = "v1"
  Enforceable = {"v1"}
  Evaluable = {"v1", "v2"}
  EvaluationActs = 2
  EvaluationOthers = 1
  Good = {"f1"}
  Bad = {"f2"}
  MaxReports = 3
  ImportActs = 4
  CatalogReports = {"p1", "p2"}
  RowCount <- MCRowCount
  PageSize = 2
  InitRuns = 2
  MaxRuns = 3
  MaxVisits = 2
  Reviews = {"q1", "q2"}
  ReviewRuns = {"a", "b"}
  ReviewedIn <- MCReviewedIn
  Violations = {"q2"}
  Types = {"upheld"}
  MaxOpens = 2
  MaxConfirms = 1
  MaxScopes = 1
  MaxOthers = 1
  RuleSets <- MCRuleSets
  Reports <- MCReports
INVARIANTS
  TypeOK
  GateIsServers
  ShownIsOpened
  OutcomeExplained
PROPERTIES
  PagesComeToRest
CHECK_DEADLOCK FALSE

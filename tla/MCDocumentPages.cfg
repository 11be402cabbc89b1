SPECIFICATION PagesSpec
CONSTANTS
  None = None
  v1 = v1
  Versions = {v1, v2}
  MaxClock = 1
  MaxSubmits = 2
  MaxOthers = 0
  MaxEdits = 1
  MaxLoads = 0
  SwitchClock = 0
  SwitchSubmits = 1
  SwitchOthers = 1
  SwitchEdits = 0
  SwitchLoads = 1
  Docs = {d1, d2}
  MaxDeposits = 2
  CatalogOthers = 1
  InitVersions = 1
  MaxVersions = 2
  MaxActs = 1
  DetailOthers = 1
  Typed = Typed
  Files = {f1, f2}
  Prompts = {p1}
  Models = {m1}
  MaxSecond = 1
  MaxWizards = 3
  MaxReingestions = 2
  Ids = {v1, v2}
  Published <- MCPublished
  Role = "admin"
  MaxVisits = 1
  MaxPublishes = 1
  PublicationOthers = 1
  admin_token = admin_token
  viewer_token = viewer_token
  bad_token = bad_token
  Tokens = {admin_token, viewer_token, bad_token}
  RolesOf <- MCRolesOf
  Runs = {x1}
  MaxSessions = 2
  Sections = {"dashboard", "documents", "rule-test-cases", "expense-reports",
              "evaluation-runs", "compliance-review", "extraction-runs", "review",
              "policy-versions", "compliance", "manual-rules", "audit"}
INVARIANTS
  PagesTypeOK
  ShownIsOpened
  AgreesWithServer
PROPERTIES
  DrawersAreSafe
  PagesComeToRest
CHECK_DEADLOCK FALSE

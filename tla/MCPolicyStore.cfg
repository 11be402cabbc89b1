SPECIFICATION Spec
CONSTANTS
  none = none
  MCRequests = {q1, q2, q3, q4}
  Requests <- MCRequests
  None <- MCNone
  RuleIds <- MCRuleIds
  RuleOrder <- MCRuleOrder
  VersionIds <- MCVersionIds
  Documents <- MCDocuments
  Runs <- MCRuns
  RunDocument <- MCRunDocument
  Statements <- MCStatements
  ShapeOf <- MCShapeOf
  Anchor <- MCAnchor
  Seed <- MCSeed
  Extractions <- MCExtractions
  Edits <- MCEdits
  ManualValues <- MCManualValues
SYMMETRY RequestSymmetry
INVARIANTS TypeOK SnapshotRulesApproved ApprovedRowsPublishable
  PublishedIsInSomeSnapshot PayloadsConsistent AuditIsTheRecord
PROPERTIES SnapshotsImmutable ExtractedValuesPreserved FreshWritesFollowLifecycle
  ImplementsApprovedPolicy
CHECK_DEADLOCK FALSE

SPECIFICATION Spec
CONSTANTS
  Readers = {me, other}
  Me = me
  me = me
  other = other
  TTL <- MCTTL
  MaxFetch = 1
  Scenarios <- MCScenarios
  Answers <- MCAnswers
  Tcodes = {"MIGO", "VK12"}
INVARIANTS
  Consistent
  SubmittedWithinThreshold
  PlanAgreesWithRules
  GoodsReceiptNamesOrder
  UngroundedNeverPosts
  PreviewNotMilder
PROPERTIES
  ReadsAsPromised
CHECK_DEADLOCK FALSE

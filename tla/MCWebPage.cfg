SPECIFICATION FairPagesSpec
CONSTANTS
  Pages = {p1, p2}
  Settings = {c1, c2}
  Mixture = Mixture
  MaxTokens = 2
  MaxLosses = 1
INVARIANTS
  PagesTypeOK
  OperationRunsOwnConfig
  OperationBlocksButtons
PROPERTIES
  PendingEnds
  ButtonsComeBack

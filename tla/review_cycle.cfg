SPECIFICATION FairReviewSpec
CONSTANTS
  MaxHeads = 2
  CheckRuns = {"lint", "test"}
  PageSize = 1
  MaxRuns = 3
  EditLabels = {"approved", "done"}
  MaxEdits = 1
  MaxAborts = 1
INVARIANTS ReviewTypeOK LabelTellsVerdict
PROPERTIES NoApprovalAgainstRed EveryHeadIsReviewed
CHECK_DEADLOCK FALSE

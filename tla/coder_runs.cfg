SPECIFICATION CoderSpec
CONSTANTS
  Issues = {1, 2}
  N = 2
  Profiles = {"plain", "qwen"}
  MaxRetries = 2
  MaxPatches = 2
  HasFixModel = TRUE
  MaxRuns = 3
  MaxAborts = 2
INVARIANTS CoderTypeOK PushedIsTested PullRequestHoldsOwnItem TickedIsInReview
PROPERTY ContextIsCurrent
CHECK_DEADLOCK FALSE

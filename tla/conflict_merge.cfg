SPECIFICATION ResolverSpec
CONSTANTS
  Files = {"app.py", "util.py"}
  MayFix = TRUE
  MaxBase = 2
  MaxRuns = 3
  MaxAborts = 2
INVARIANT ResolverTypeOK
PROPERTIES ReviewHasBase ResolutionPushedIsTested ContextIsOfMerge
CHECK_DEADLOCK FALSE

SPECIFICATION FairArchitectSpec
CONSTANTS
  Answers <- MCAnswers
  Base = 3
  MaxIssues = 5
  MaxAborts = 1
INVARIANTS ArchitectTypeOK EpicTracksItsPlan
PROPERTIES CopiedLinesHold OnlyStuckIssuesWait
CHECK_DEADLOCK FALSE

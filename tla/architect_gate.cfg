SPECIFICATION ArchitectSpec
CONSTANTS
  Answers <- MCAnswers
  Base = 10
  MaxIssues = 4
  MaxAborts = 0
PROPERTY SubIssuesInOrder
CHECK_DEADLOCK FALSE

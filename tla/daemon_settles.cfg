SPECIFICATION FairSpec
CONSTANTS
  e1 = e1  e2 = e2  e3 = e3  e4 = e4  i1 = i1  i2 = i2  none = none
  Events = {e1, e2, e3}
  Issues = {i1, i2}
  NoEvent = none
  IssueOf <- LiveIssueOf
  KindOf <- LiveKindOf
  DependsOn <- LiveDependsOn
  InitialLabel <- LiveLabels
  EditLabels <- LiveEdits
  MaxEdits = 1
  MaxInterrupts = 1
PROPERTIES EveryEventSettles NoZombies

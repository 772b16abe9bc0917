SPECIFICATION Spec
CONSTANTS
  e1 = e1  e2 = e2  e3 = e3  e4 = e4  i1 = i1  i2 = i2  none = none
  Events = {e1, e2, e3, e4}
  Issues = {i1, i2}
  NoEvent = none
  IssueOf <- SafetyIssueOf
  KindOf <- SafetyKindOf
  DependsOn <- SafetyDependsOn
  InitialLabel <- SafetyLabels
  EditLabels <- SafetyEdits
  MaxEdits = 1
  MaxInterrupts = 1
INVARIANTS TypeOK NoDoubleDelivery
PROPERTIES OnlyDeathStrands FollowsLifecycle LabelStepsValid

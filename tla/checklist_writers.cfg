SPECIFICATION ChecklistSpec
CONSTANTS
  m1 = m1  m2 = m2  m3 = m3  w = w
  N = 3
  TextOf <- Texts
  Managers = {m1, m2, m3}
  Coders = {w}
  ItemOf <- Targeted
  MarkOf <- AllTick
  MaxTries = 3
  PeopleMarks = {"x"}
  MaxEdits = 1
INVARIANTS ChecklistTypeOK DoneMeansAllChecked LastTickLabels NobodyStarves
PROPERTY NoLostUpdate
CHECK_DEADLOCK FALSE

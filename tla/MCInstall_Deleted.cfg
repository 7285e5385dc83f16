SPECIFICATION Spec
CONSTANTS
  None = None
  r1 = r1
  r2 = r2
  r3 = r3
  r4 = r4
  Runs = {r1, r2, r3}
  Projects = {"here"}
  Packages = {"a", "b"}
  Versions = {"1", "2"}
  ProjectOf <- InOneProject
  NbFiles = 2
  Locks <- TwoLocks
  Alone = TRUE
  Patient = TRUE
  HandDeletes = TRUE
  MaxEdits = 1
CHECK_DEADLOCK FALSE
PROPERTIES RunConverges

SPECIFICATION Spec
CONSTANTS
  None = None
  r1 = r1
  r2 = r2
  r3 = r3
  r4 = r4
  Runs = {r1, r2, r3}
  Projects = {"here", "there"}
  Packages = {"a"}
  Versions = {"1", "2"}
  ProjectOf <- InTwoProjects
  NbFiles = 2
  Locks <- OnePackageLocks
  Alone = TRUE
  Patient = FALSE
  HandDeletes = TRUE
  MaxEdits = 2
CHECK_DEADLOCK FALSE
PROPERTIES ProjectsApart

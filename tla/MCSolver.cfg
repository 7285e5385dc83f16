SPECIFICATION Spec
CONSTANTS
  Versions = {1, 2, 3}
  PlatformNames = {"php"}
  Family <- MCFamily
  Instances <- MCInstances
  SelectPreferred <- MCSelect
INVARIANTS
  WellFormed ProblemsReal StacksAgree ReasonsHold NothingMissed
PROPERTIES
  LevelOneStays ImplementsResolution

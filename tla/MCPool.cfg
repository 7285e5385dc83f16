CONSTANTS
  Families = {"partial", "updates", "aliases", "advisories", "malware", "odd"}
  Versions = {1, 2, 3}
  PlatformNames = {"php"}
  PackagistIds = {"PKSA-1"}
  LOAD_BATCH_SIZE = 2
  Inputs <- MCInputs
SPECIFICATION PipelineSpec
CHECK_DEADLOCK FALSE
INVARIANTS
  PoolIsClosed BuilderInStep InstallAcceptsUpdate RulesAccumulate
PROPERTIES
  UnlocksOnlyWhenAllowed BuilderEnds OptimizerKeepsSolvable FiltersDecide

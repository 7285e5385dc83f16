CONSTANTS
  Families = {"flagged"}
  Versions = {1, 2, 3}
  PlatformNames = {"php"}
  PackagistIds = {"PKSA-1"}
  LOAD_BATCH_SIZE = 2
  Inputs <- MCInputs
SPECIFICATION PipelineSpec
CHECK_DEADLOCK FALSE
INVARIANT AliasedInPool

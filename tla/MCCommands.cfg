SPECIFICATION PartsSpec
CONSTANTS
  alpha = alpha
  beta = beta
  Packages = {alpha, beta}
  NoFile = NoFile
  Broken = Broken
  MaxCommands = 2
  Versions = {1, 2, 3}
  PlatformNames = {"php"}
  NameOrder <- MCNameOrder
  Instances <- MCInstances
CHECK_DEADLOCK FALSE
INVARIANTS
  LockFollowsJson RequireKeepsMatched FailureRestores DryRunIsDry
  OperationsInOrder LockAsResolved
PROPERTIES
  Terminates

SPECIFICATION DataSpec
CONSTANTS
  Infinity = 1000
  Base = 3
  Probes <- MCProbes
  Absent = Absent
  Carriers = {"a", "b", "c"}
  Releases = {"1", "2"}
  Names = {"lint", "test", "own", "gone"}
  LockOrder <- MCLockOrder
  Declared <- MCDeclared
  Shipped <- MCShipped
CHECK_DEADLOCK FALSE
INVARIANTS
  IntervalsStand RangesAsWritten RepositoriesInOrder
  EditsAreExact RequiredIsAutoloaded DumpsAgree
PROPERTIES
  BinariesKept

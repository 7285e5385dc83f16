SPECIFICATION CachesSpec
CONSTANTS
  p1 = p1
  p2 = p2
  p3 = p3
  first = first
  second = second
  broken = broken
  Absent = Absent
  Procs = {p1, p2, p3}
  Entries = {"v1", "v2"}
  Archives = {first, second, broken}
  Damaged = {broken}
  FilesOf <- MCFilesOf
  w1 = w1
  w2 = w2
  w3 = w3
  w4 = w4
  None = None
  Writers = {w1, w2, w3, w4}
  Names = {"pid1", "pid2", "pid3"}
  NameOf <- MCNameOf
  Exclusive = TRUE
  Tidy = TRUE
  Versions = {"old", "new"}
  Chunks = 2
  Runs = {"update", "audit", "offline"}
  Root = "packages.json"
  Packages = {"a", "b"}
  Stamped = {"packages.json", "a"}
  Offline = {"offline"}
  Plan <- MCPlan
  Together = {{"update", "audit"}, {"update", "offline"}}
  Changes = 1
SYMMETRY Symmetry
CHECK_DEADLOCK FALSE
INVARIANTS
  EntriesWhole OnlyCrashesLeak EntryWhole DistAnswers MetadataServed
PROPERTIES
  KeepsPromise OneVersionPerRun

SPECIFICATION Spec
CONSTANTS
  w1 = w1
  w2 = w2
  w3 = w3
  w4 = w4
  None = None
  Writers = {w1, w2, w3, w4}
  Names = {"zip.vivacity-tmp"}
  NameOf <- MCNameOf
  Exclusive = FALSE
  Tidy = FALSE
  Versions = {"good", "other"}
  Expected = "good"
  Checked = {w1, w4}
  Offline = {w4}
  Attempts = 2
  Chunks = 2
CHECK_DEADLOCK FALSE
INVARIANT AnswersWhole

SPECIFICATION MCSpec
CONSTANTS
  Sources = {"manual", "errata"}
  Pin <- MCPin
  MayCommit <- MCCommit
  Served = {"manual", "page"}
  Nothing = "none"
  Fetchers = {"f1", "f2"}
  Commits = {"k1", "k2"}
  TreeOf <- MCTree
  Edits <- MCEdits
  Gates = 2
  LintGate = 2
  Area <- MCArea
  Criteria = {"lint"}
  Required = {"LICENSE"}
  Writers = {"w1", "w2"}
INVARIANTS PassedOnRecordedTree

SPECIFICATION ToolsSpec
CONSTANTS
  Sources = {"manual", "errata"}
  Pin <- MCPin
  MayCommit <- MCCommit
  Served = {"manual", "page"}
  Nothing = "none"
  Fetchers = {"f1", "f2"}
  Commits = {"k1", "k2"}
  TreeOf <- MCTree
  Edits <- MCEdits
  Gates = 2
  LintGate = 2
  Area <- MCArea
  Criteria = {"lint"}
  Required = {"LICENSE"}
  Writers = {"w1", "w2"}
  Absent = Absent
  AbsentCount = 1
  ValidCount = 2
  HoldMin = 2
  SetupMin = 3
  FallMax = 2
  Minimum = 2
  ColdMinimum = 1
  HoldTargets = {2, 3}
  Recordings <- MCRecordings
  Rerecordings <- MCRerecordings
  Sidecars <- MCSidecars
  Registers <- MCRegisters
  StageReports <- MCStageReports
INVARIANTS ReleaseTypeOK CacheIntact ReceiptSound SoundReport 

SPECIFICATION CaptureSpec
CONSTANTS
  Absent = Absent
  AbsentCount = 1
  ValidCount = 2
  HoldMin = 2
  SetupMin = 3
  FallMax = 2
  Minimum = 2
  ColdMinimum = 1
  HoldTargets = {2, 3}
  Recordings <- MCRecordings
  Rerecordings <- MCRerecordings
  Sidecars <- MCSidecars
  Registers <- MCRegisters
  StageReports <- MCStageReports
INVARIANTS NamedBytes
CHECK_DEADLOCK FALSE

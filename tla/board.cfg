SPECIFICATION MCSpec
CONSTANTS
  RamAddrs = {8, 9}
  Words = {0, 1}
  ResetAddr = 8
  HostCycles <- MCHostCycles
  Requests <- MCRequests
  ResetMachineCycles = 2
  Boxes = {"mainToSound", "soundToMain"}
  Messages = {"m1", "m2"}
  ZeroWord = "m1"
  LastLane = 2
  HoldTicks = 2
  InhibitTicks = 1
  RamSize = 2
  DataWords = {0, 1}
  AddressLimit = 3
INVARIANTS
  BoardTypeOK
  FreshRead
  HostReadFresh
  AnsweredOnce
  ResetReaches
  MailTruthful
  LanesTrue
  IgnoredOnlyWhileHeld
  OperandCurrent
PROPERTIES
  CyclesFinish
  StrobesHeld
  MainCyclesEnd

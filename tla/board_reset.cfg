SPECIFICATION HeldSpec
CONSTANTS
  RamAddrs = {8}
  Words = {0, 1}
  ResetAddr = 8
  HostCycles <- MCHostCycles
  Requests <- MCRequests
  ResetMachineCycles = 5
PROPERTY
  FullResetHold

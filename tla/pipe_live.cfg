SPECIFICATION RunSpec
CONSTANTS
  PcMod = 3
  WordMod = 32
  CtrMod = 4
  DaMod = 4
  PageWords = 2
  SstWords = 1
  Words <- LiveWords
  StatusBit <- MCStatusBit
  BitAnd <- MCAnd
  BitOr <- MCOr
  BitXor <- MCXor
  InferredComputed = TRUE
  RamStart <- MCRamZero
  IoValues = {0}
  LastPhase = 3
PROPERTIES InterruptServed TransactionsFinish
CHECK_DEADLOCK FALSE

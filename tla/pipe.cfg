SPECIFICATION MenuSpec
CONSTANTS
  PcMod = 3
  WordMod = 32
  CtrMod = 4
  DaMod = 4
  PageWords = 2
  SstWords = 1
  Words <- MenuWords
  StatusBit <- MCStatusBit
  BitAnd <- MCAnd
  BitOr <- MCOr
  BitXor <- MCXor
  InferredComputed = TRUE
  RamStart <- MCRamZero
  IoValues = {1}
  LastPhase = 1
INVARIANTS TypeOK SequentialAgreement TargetAgreement TransferAgreement
  InterruptAgreement ParksBeforeEffects
PROPERTIES DummyFetchResumes SlotExecutes

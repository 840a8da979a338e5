SPECIFICATION Spec
CONSTANTS
  PcMod = 3
  WordMod = 32
  CtrMod = 4
  DaMod = 4
  PageWords = 2
  SstWords = 1
  Words <- BranchWords
  StatusBit <- MCStatusBit
  BitAnd <- MCAnd
  BitOr <- MCOr
  BitXor <- MCXor
  InferredComputed = TRUE
  RamStart <- MCRamZero
  IoValues = {0}
  LastPhase = 1
PROPERTIES CompletionFetches

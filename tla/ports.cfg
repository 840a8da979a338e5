SPECIFICATION PortsSpec
CONSTANTS
  ComSize = 2
  ComWords = {0, 1}
  CountMod = 4
INVARIANTS PortReadExact RequestSurvives

\* Two runs over one directory, of one or two brokers.
CONSTANTS
  Inputs <- MCInputs
  Flags <- MCFlags
  MaxRuns = 2
  MaxCut = 1
SPECIFICATION Spec
INVARIANTS
  ConversionInv
  CompletedRunFitsTogether
  EveryUserKeepsItsPassword
  SecureYamlAuthenticates
CHECK_DEADLOCK FALSE

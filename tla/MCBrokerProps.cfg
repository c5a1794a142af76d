\* Authorizer, mechanisms and keystores: two runs and the edits between them.
CONSTANTS
  Blank = Blank
  Absent = Absent
  Order <- MCOrder
  Files <- MCFiles
  Stems = {"x", "y", "placeholder"}
  Listeners = {"a", "b"}
  Stripped = {"gone"}
  Protocols = {"PLAINTEXT", "SASL_SSL", "CUSTOM"}
  OtherSecurity <- MCOtherSecurity
  MaxRuns = 2
SPECIFICATION Spec
INVARIANTS
  BrokerPropsInv
  InertLoadsNoFile
  RerunKeepsActiveLines
  ResolvedIsAccepted
  RefusedGoToUnsupported
CHECK_DEADLOCK FALSE

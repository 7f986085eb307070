SPECIFICATION Spec
CONSTANTS
  MaxDuration = 7
  Unrepresentable <- MCSentinel
  Models = {m1}
  Configs <- MCOneConfig
  Reports <- MCPlain
  MaxTime = 6
  MaxStrikes = 3
PROPERTIES
  FailureCools

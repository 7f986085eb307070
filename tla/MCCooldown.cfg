SPECIFICATION Spec
CONSTANTS
  MaxDuration = 100
  Unrepresentable <- MCOneSentinel
  Models = {m1}
  Configs <- MCConfigs
  Reports <- MCReports
  MaxTime = 3
  MaxStrikes = 3
INVARIANTS
  TypeOK
  DeadlineCapped
  ReasonRecorded
  HostHintOnlyExtends
  ResetTimeExact
PROPERTIES
  NeverShortened
  FailureCools

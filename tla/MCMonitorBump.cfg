CONSTANTS
  Digits <- MCDigits
  Usages <- MCUsages
  ServedNames <- MCBump
  MaxModels = 2
  MaxServedModels = 2
  MaxTime = 0
  MaxRequests = 2
SPECIFICATION Spec
INVARIANTS
  RateExact

CONSTANTS
  Digits <- MCDigits
  Usages <- MCUsages
  ServedNames <- MCServed
  MaxModels = 2
  MaxServedModels = 2
  MaxTime = 1
  MaxRequests = 3
SPECIFICATION Spec
INVARIANTS
  TypeOK
  RateExact

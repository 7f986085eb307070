SPECIFICATION Spec
SYMMETRY Twins
CONSTANTS
  MaxDuration = 100
  Unrepresentable <- MCOverflow
  Leaves = {"a", "b", "c"}
  Groups = {"root", "pool"}
  Requests = {r1, r2}
  Configs <- MCRotation
  Replies <- MCFew
  NameMarks <- MCPlainNames
  Histories <- MCFresh
  Transports = {FALSE}
  Resettable = {"a"}
  MaxGroupDepth = 2
  SafetyBudget = 4
  MaxConcurrent = 2
  MaxTime = 2
INVARIANTS
  ActiveBalanced
  EvenRotation
PROPERTIES
  TableSpec

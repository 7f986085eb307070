SPECIFICATION Spec
CONSTANTS
  MaxDuration = 100
  Unrepresentable <- MCOverflow
  Leaves = {"a", "b", "c"}
  Groups = {"root", "pool", "sub"}
  Requests = {r1}
  Configs <- MCTrees
  Replies <- MCReplies
  NameMarks <- MCNames
  Histories <- MCFresh
  Transports = {TRUE, FALSE}
  Resettable = {}
  MaxGroupDepth = 3
  SafetyBudget = 3
  MaxConcurrent = 2
  MaxTime = 2
INVARIANTS
  TypeOK
  NotSubstituted
  WithinBudgets
  ChargedBeforeMovingOn
  NoRuntimeClash
  JudgedAlike
PROPERTIES
  RoutingSpec

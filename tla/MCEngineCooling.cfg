SPECIFICATION FairSpec
CONSTANTS
  MaxDuration = 100
  Unrepresentable <- MCOverflow
  Leaves = {"a", "b", "c", "d"}
  Groups = {"root", "pool", "sub"}
  Requests = {r1}
  Configs <- MCCooling
  Replies <- MCFew
  NameMarks <- MCPlainNames
  Histories <- MCAnyTable
  Transports = {FALSE}
  Resettable = {}
  MaxGroupDepth = 2
  SafetyBudget = 5
  MaxConcurrent = 2
  MaxTime = 1
PROPERTIES
  ReadyFirst
  CoolingSkipped
  Answered

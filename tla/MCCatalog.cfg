CONSTANTS
  Refreshers = {scheduler, operator}
  MaxVersion = 2
  MaxCrashes = 2
  MaxStuck = 1
SPECIFICATION FairSpec
INVARIANTS
  TypeOK
  Durable
  ReportHonest
  NoLitter
PROPERTIES
  NeverOlder
  MutexFreed

CONSTANTS
  Pieces <- MCPieces
  Expectations <- MCExpectations
  MaxProbeChunks = 2
  MaxProbeBytes = 3
  MaxAttempts = 2
  MaxPieces = 4
SPECIFICATION FairSpec
CHECK_DEADLOCK FALSE
INVARIANTS
  TypeOK
  NothingLostOrLeaked
  VerdictRight
  ProbeBounded
  StreamsClosed
PROPERTIES
  ClientSpec
  ClientTold

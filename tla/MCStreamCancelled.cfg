CONSTANTS
  Pieces <- MCPieces
  Expectations <- MCExpectations
  MaxProbeChunks = 2
  MaxProbeBytes = 3
  MaxAttempts = 2
  MaxPieces = 2
SPECIFICATION Spec
CHECK_DEADLOCK FALSE
PROPERTIES
  CancellationEnds

SPECIFICATION Spec
CONSTANTS
  MinBytes = 32
  MaxClass = 2
  Chunk = 4
  FlnCount = 4
  Requests <- MCRequests
  Freeable <- Everywhere
INVARIANT LiveFreeable

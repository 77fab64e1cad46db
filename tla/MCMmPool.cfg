SPECIFICATION Spec
CONSTANTS
  MinBytes = 32
  MaxClass = 2
  Chunk = 8
  FlnCount = 8
  Requests <- MCRequests
  Freeable <- AfterTheFirst
INVARIANTS
  BlocksTile
  FlnsExact
  LiveServed
  Coalesced
  FailsOnlyWithoutFit
  FreesExactlyLive
PROPERTY
  ImplementsPageAlloc

SPECIFICATION Spec
CONSTANTS
  ChunkPgcount = 11
  MaxPg = 4
  Requests <- MCRequests
INVARIANTS
  TypeOK
  NodesTile
  FreeListsExact
  DescriptorsSuffice
  LiveServed
  FailsOnlyWithoutFit
PROPERTY
  ImplementsPageAlloc

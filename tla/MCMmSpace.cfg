SPECIFICATION Spec
CONSTANTS
  Areas <- MCAreas
  Slots <- MCSlots
  Largest <- MCLargest
  Sizes = {1, 2, 3}
  AreaOf <- MCAreaOf
  Direct = {"stack"}
  Guarded = {"stack"}
  MaxShmm = 5
  KeySpan = 6
INVARIANTS
  SpaceSound
  LiveFreeable
PROPERTY
  AllocEnds

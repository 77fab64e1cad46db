SPECIFICATION RbSpec
CONSTANT Keys <- MCKeys
INVARIANTS
  WellLinked
  RedBlack
  LooksUpInOrder
PROPERTIES
  CallsEnd
  ImplementsOrderedSet

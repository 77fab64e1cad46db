SPECIFICATION Spec
CONSTANTS
  Tasks = {t1, t2, t3}
  Host = host
  PoolSize = 11
  NodeSize = 1
  FrmSize = 4
  MaxDepth = 1
  Careful = TRUE
INVARIANTS
  TasksSound
  StacksExact
PROPERTY
  ImplementsCoroutines
SYMMETRY Symmetry

SPECIFICATION Spec
CONSTANTS
  PoolSize = 9
  SIZE_MAX = 15
  Data = data
  Sizes = {1, 2, 3, 15}
INVARIANTS
  TiledUntilFault
  AllFreeIsOneBlock

  
\* A wrapped size may end the process, and nothing moves then.
CHECK_DEADLOCK FALSE

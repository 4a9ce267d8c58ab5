SPECIFICATION Spec
CONSTANTS
  PoolSize = 8
  SIZE_MAX = 15
  Data = data
  Sizes = {1, 2}
INVARIANTS
  FreeMemoryIsNobodys

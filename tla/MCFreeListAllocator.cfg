SPECIFICATION Spec
CONSTANTS
  Threads = {t1, t2}
  BlockCount = 5
  None = none
INVARIANTS
  ListInv
PROPERTIES
  ImplementsAllocator
  CallsReturn

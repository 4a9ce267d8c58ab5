SPECIFICATION Spec
CONSTANTS
  Threads = {t1, t2, t3}
  Main = main
  None = none
  IntMin <- MCIntMin
  IntMax <- MCIntMax
INVARIANTS
  BarrierInv
  CountedOnce
  NoLostWakeup
  DestroySucceeds
PROPERTY ImplementsBarrier

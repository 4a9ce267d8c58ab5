SPECIFICATION Spec
CONSTANTS
  ConsumerCount = 3
  ElementCount = 3
  Main = main
  None = none
  INT_MAX = 100
INVARIANTS
  PopFindsSomething
  SentinelsComeLast
  NoValueIsStranded
  FinalSum
PROPERTY Termination

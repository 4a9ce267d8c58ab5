SPECIFICATION Spec
CONSTANTS
  Width = 3
  Height = 2
  BeeCount = 2
  None = none
INVARIANTS
  NoFlowerForgotten
  LeaveTogether
  FieldFinishedUnlessDestroyed
PROPERTIES
  Termination

SPECIFICATION Spec
CONSTANTS
  PlayerCount = 3
  Results <- MCResults
INVARIANTS
  NobodyRollsDuringElimination
  SomebodyIsLeft
  LeaveTogether
  OneAnnouncement
PROPERTIES
  DecidedGameEnds

SPECIFICATION Spec
CONSTANTS
  PlayerCount = 3
  Results <- MCResults
INVARIANT WinnerIsTheOneLeft

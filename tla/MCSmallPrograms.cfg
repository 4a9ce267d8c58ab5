SPECIFICATION Spec
CONSTANTS
  None = none
  Request <- MCRequest
  MSG_SIZE = 8
  Stack <- MCStack
  MaxSignals = 2
  Second = 2
  Eyes = 2
  Argv <- MCArgv
  N = 3
  Upper <- MCUpper
  NUM_THREADS = 3
  Iterations = 3
  Files <- MCFiles
  NoFile = NoFile
  Ones = 5
  FieldSizes <- MCFieldSizes
  Steps <- MCSteps
  Numbers = {1, 2, 3}
  MaxSize = 4
  Configs <- MCConfigs
  ALLOCATION_BUFFER_SIZE = 2
  NumAllocations = 3
  PoolBlocks = 4
  BLOCK_SIZE = 5
  TestBlocks = 9
  TestPool = 32
  KiB = 2
  SIZE_MAX = 63
  Data = data
INVARIANTS
  OwnNumbers
  StaleRoundIsLast
  NoPhantomLine
  EachDoesItsOwn
  NothingLost
  EveryOneCounts
  FramesAreGenerations
  SortedInTheEnd
  EveryBlockOnce
  TestsPass
PROPERTIES
  ShutdownIsHeeded
  InterruptReenables
  ProgramsEnd
CHECK_DEADLOCK FALSE

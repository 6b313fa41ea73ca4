SPECIFICATION FairSpec
CONSTANTS
  BufSize = 6
  MaxFrames = 2
  MaxNoise = 1
INVARIANTS TypeOK CommandsInOrder
PROPERTIES CleanFramesExecuted
\* The line may fall silent.
CHECK_DEADLOCK FALSE

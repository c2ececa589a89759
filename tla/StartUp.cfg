SPECIFICATION FairSpec
CONSTANTS
  None = None
  Names <- Words
  Width <- Byte
  MaxInt <- LargestInt
  Configs <- Files
CHECK_DEADLOCK FALSE
INVARIANTS
  TypeOK
  ManagerMayStart
  PoolsFollowConfiguration
  ServesUnlessBroken
PROPERTIES
  StartUpEnds

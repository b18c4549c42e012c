SPECIFICATION FairSpec
CONSTANTS
  Descriptors <- MCDescriptors
  Builds <- MCBuilds
  PlainBelow = 4
  MaxSize <- MCMaxSize
  MaxBuffers = 7
  MaxLines = 5
  MaxRuns = 2
INVARIANT TypeOK
INVARIANT KernelIntact
INVARIANT ImagesIntact
INVARIANT HandlesOwned
PROPERTY NothingLeft
PROPERTY AttemptEnds
CHECK_DEADLOCK FALSE

\* Every call may fail, signals come at any time, both threads go on.
SPECIFICATION FairSpec
INVARIANTS
  TypeOK
  ThreadHasItsFiles
  NotKilledAttached
  AbortIsFailure
  StatusTellsFailure
  LeftoversAreExplained
  OutputIsOpen
PROPERTIES
  ForeignQdiscStays
  InterruptEnds
  CleanupFailureEnds
CHECK_DEADLOCK FALSE

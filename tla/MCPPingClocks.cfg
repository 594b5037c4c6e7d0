\* Two CPUs and the cleaner, with readings of the clock that grow old.
SPECIFICATION Spec
CONSTANTS
  CPUs = {c1, c2}
  Ids = {i1, i2}
  Slots = {s1}
  W = 16
  MaxClock = 4
  RateLimit = 2
  WarnInterval = 2
  FlowLife = 1
  TimestampLife = 1
  None = None
SYMMETRY Symmetric
INVARIANTS
  StampsAreSpaced
  WarningsAreSpaced
  FailuresAreWarned
  
  ForgottenIsOld

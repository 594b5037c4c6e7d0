\* Two flows over a map that holds one, leaving by two transmit queues at once.
SPECIFICATION Spec
CONSTANTS
  None = None
  Flows = {f1, f2}
  HostFlows = {f2}
  CPUs = {c1, c2}
  Slots = {s1, s2, s3}
  Time <- TimesUpTo4
  U32 = 8
  U64 = 16
  Unit = 1
  Cap = 2
  Byte = 4
  Adaptive = TRUE
  Cvalue = 0
SYMMETRY Symmetric
INVARIANTS
  TypeOK
  LastPairIsOneDequeue
  OooEdtWasUndercut
\* The clock is bounded: at its end nothing more happens.
CHECK_DEADLOCK FALSE

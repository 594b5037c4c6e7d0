\* Two flows, one of the host itself, none of them on two queues at once.
SPECIFICATION SerialSpec
CONSTANTS
  None = None
  Flows = {f1, f2}
  HostFlows = {f2}
  CPUs = {c1, c2}
  Slots = {s1, s2, s3, s4}
  Time <- TimesUpTo4
  U32 = 8
  U64 = 16
  Unit = 1
  Cap = 2
  Byte = 4
  Adaptive = TRUE
  Cvalue = 0
SYMMETRY Symmetric
INVARIANTS
  InversionsAreReal
  CompensationNeedsInversion
PROPERTIES
  CompensationIsSticky
  ImplementsTracker
\* The clock is bounded: at its end nothing more happens.
CHECK_DEADLOCK FALSE

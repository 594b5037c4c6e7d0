\* What the computed compensation is, against the comment that describes it.
SPECIFICATION SerialSpec
CONSTANTS
  None = None
  Flows = {f1}
  HostFlows = {}
  CPUs = {c1, c2}
  Slots = {s1, s2, s3}
  Time <- TimesUpTo5
  U32 = 8
  U64 = 16
  Unit = 1
  Cap = 2
  Byte = 4
  Adaptive = TRUE
  Cvalue = 0
PROPERTIES
  CvalueIsOffsetDifference
SYMMETRY Symmetric
\* The clock is bounded: at its end nothing more happens.
CHECK_DEADLOCK FALSE

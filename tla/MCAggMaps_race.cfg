\* A single prefix; programs on two CPUs and the report overlap.
SPECIFICATION FairSpec
CONSTANTS
  None = None
  CPUs = {c1, c2}
  Versions = {"v4"}
  PrefixesV4 = {a}
  PrefixesV6 = {}
  Backup = backup
  Prefixed = {}
  MaxEntries = 1
  BatchSize = 1
  AggByDst = TRUE
  MaxRtts = 1
INVARIANTS
  TypeOK
  InactiveIsQuiet
PROPERTIES
  ImplementsReports
  RttsArePrinted
CHECK_DEADLOCK FALSE

\* Two prefixes of which one fits beside the backup entry; entries are pruned.
SPECIFICATION Spec
CONSTANTS
  None = None
  CPUs = {c1}
  Versions = {"v4"}
  PrefixesV4 = {a, b}
  PrefixesV6 = {}
  Backup = backup
  Prefixed = {"v4"}
  MaxEntries = 2
  BatchSize = 1
  AggByDst = FALSE
  MaxRtts = 1
SYMMETRY Symmetric
INVARIANTS
  BackupStays
  EntriesInUseStay
PROPERTIES
  ImplementsReports
CHECK_DEADLOCK FALSE

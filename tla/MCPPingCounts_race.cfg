\* One side sends TCP data: its packets, the ACKs and the cleaner overlap.
SPECIFICATION CountsSpec
CONSTANTS
  None = None
  CPUs = {cpu1, cpu2}
  Dirs = {dir1, dir2}
  Senders = {dir1}
  Elements = {e1}
  Ids = {0}
  Events = {"none", "opening"}
  IdMod = 8
  CtrMod = 2
  Proto = "tcp"
  Old = 1
  TimestampLife = 0
  UnopenedLife = 0
  IcmpLife = 0
  FlowLife = 0
  Span = 0
  Parallel = TRUE
SYMMETRY Alike
VIEW CountsView
INVARIANTS
  TypeOK
  OutstandingIsExact
PROPERTIES
  NoSecondSample

\* The lives of TCP flows over one tuple, one program at a time.
SPECIFICATION FlowsSpec
CONSTANTS
  None = None
  CPUs = {cpu}
  Dirs = {dir1, dir2}
  Senders = {dir1, dir2}
  Elements = {e1}
  Ids = {0}
  Events = {"none", "opening", "closing", "closing_both"}
  IdMod = 8
  CtrMod = 4
  Proto = "tcp"
  Old = 2
  TimestampLife = 0
  UnopenedLife = 0
  IcmpLife = 0
  FlowLife = 1
  Span = 0
  Parallel = FALSE
VIEW FlowsView
SYMMETRY Symmetric
INVARIANTS
  ReportedIsOpen
PROPERTIES
  OpeningTimeIsOwn

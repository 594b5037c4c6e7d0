\* TCP data around the wrap of its TSval, reordered and sent again.
SPECIFICATION SamplesSpec
CONSTANTS
  None = None
  CPUs = {cpu}
  Dirs = {dir1, dir2}
  Senders = {dir1}
  Elements = {e1}
  Ids = {7, 0, 1}
  Events = {"none", "opening", "closing_both"}
  IdMod = 8
  CtrMod = 4
  Proto = "tcp"
  Old = 1
  TimestampLife = 0
  UnopenedLife = 0
  IcmpLife = 0
  FlowLife = 0
  Span = 0
  Parallel = FALSE
VIEW SamplesView

PROPERTIES
  FirstEdgeOnly

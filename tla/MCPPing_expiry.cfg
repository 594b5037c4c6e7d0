\* Everything that packets leave behind is cleaned up.
SPECIFICATION FairSpec
CONSTANTS
  None = None
  CPUs = {cpu}
  Dirs = {dir1, dir2}
  Senders = {dir1, dir2}
  Elements = {e1}
  Ids = {0}
  Events = {"opening", "closing"}
  IdMod = 8
  CtrMod = 2
  Proto = "tcp"
  Old = 1
  TimestampLife = 0
  UnopenedLife = 0
  IcmpLife = 0
  FlowLife = 0
  Span = 0
  Parallel = FALSE
PROPERTIES
  TimestampsExpire
  FlowsExpire

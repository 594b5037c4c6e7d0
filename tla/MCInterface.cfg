\* A croffset and a croffset-codel on one interface; maps of two of four flows.
SPECIFICATION InterfaceSpec
CONSTANTS
  a = a
  b = b
  host = host
  vxlan = vxlan
  geneve = geneve
  forwarded = forwarded
  Instances = {a, b}
  MaxFilters = 2
  None = None
  Program <- OneOfEach
  Flows = {host, vxlan, geneve, forwarded}
  Kind <- OneOfEachKind
  Sockets = {host, geneve}
  MapSize = 2
INVARIANTS
  WaitingIsComplete
  AckFindsFlow

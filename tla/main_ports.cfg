CONSTANTS
  o1 = o1 o2 = o2 o3 = o3
  a = a
  r1 = r1 r2 = r2
  Objects = {o1, o2, o3}
  LocalAddrs = {a}
  Remotes = {r1, r2}
  Ports = {2, 3}
  PortStart = 2
  PortEnd = 4
  MaxConnId = 3
  Unspecified = Unspecified
  Blank = Blank
  None = None
SPECIFICATION MainSpec
SYMMETRY Interchangeable
INVARIANTS
  MainTypeOK
  SockPairsAgree
  ConnIdsAgree
  PortsCounted
  ConfiguredBeyondListen
PROPERTIES
  ListenerStays
CHECK_DEADLOCK FALSE

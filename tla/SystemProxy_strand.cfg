SPECIFICATION Spec
CONSTANTS
  p1 = p1
  p2 = p2
  p3 = p3
  none = none
  vpn = vpn
  Pids <- MCPids
  Foreign = p3
  Own = own
  Servers <- MCServers
  Nothing = Nothing
  MaxMishaps = 1
  Faults = {"restart"}
INVARIANTS UndoRecorded

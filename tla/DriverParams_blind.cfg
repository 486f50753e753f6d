SPECIFICATION Spec
CONSTANTS
  Files <- FileSet
  Ips <- ListedIps
  NoIp = NoIp
  NumDevices = 2
INVARIANT BlindSpotKept
CHECK_DEADLOCK FALSE

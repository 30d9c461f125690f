SPECIFICATION FairSpec
CONSTANTS
  Procs = {p1, p2}
  Addrs = {a1}
  None = none
  MaxClicks = 1
  MaxConnects = 1
  MaxExits = 1
  MaxLate = 0
  MaxQueue = 1
  BridgeMayFail = FALSE
PROPERTY DeadProcessCleaned

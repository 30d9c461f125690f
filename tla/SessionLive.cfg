SPECIFICATION FairSpec
CONSTANTS
  Procs = {p1, p2}
  Addrs = {a1}
  None = none
  MaxClicks = 3
  MaxConnects = 1
  MaxExits = 1
  MaxLate = 0
  MaxQueue = 2
  BridgeMayFail = FALSE
INVARIANT ModulesFollow
PROPERTY ViewCatchesUp

SPECIFICATION Spec
CONSTANTS
  Procs = {p1, p2}
  Addrs = {a1}
  None = none
  MaxClicks = 3
  MaxConnects = 2
  MaxExits = 1
  MaxLate = 1
  MaxQueue = 3
  BridgeMayFail = TRUE
SYMMETRY ProcSymmetry
INVARIANT TypeOK
INVARIANT RefreshNotLost
INVARIANT AttachAgrees

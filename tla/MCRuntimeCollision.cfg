CONSTANTS
  c0 = c0
  c1 = c1
  c2 = c2
  c3 = c3
  p1 = p1
  p2 = p2
  Core = {c0, c1, c2}
  Master = c0
  Port = {p1, p2}
  KniPort = {p1, p2}
  PortCores <- Shared
  MayFail = {}
  ChanMax = 2
SPECIFICATION Spec
CHECK_DEADLOCK FALSE
INVARIANT EveryKniHasItsTx

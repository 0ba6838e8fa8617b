CONSTANTS
  c0 = c0
  c1 = c1
  c2 = c2
  c3 = c3
  p1 = p1
  p2 = p2
  Core = {c0, c1, c2, c3}
  Master = c0
  Port = {p1, p2}
  KniPort = {p1, p2}
  PortCores <- Apart
  MayFail = {"build", "install", "start"}
  ChanMax = 2
SPECIFICATION FairSpec
CHECK_DEADLOCK FALSE
INVARIANTS
  TypeOK
  RunsOnLiveDevices
  BuffersReturnedFirst
  EveryKniHasItsTx
PROPERTY ShutdownCompletes

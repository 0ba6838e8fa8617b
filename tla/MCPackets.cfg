CONSTANTS
  WordBits = 4
  Room = 15
  Addresses = {6, 9}
  Values = {0, 1}
  Number <- McNumber
  Ipv6MinMtu = 10
  Ipv4MinMtu = 3
  Mtus = {9, 10}
  Frames <- AllFrames
  SegsMax = 2
  DataMax = 2
  ViewsMax = 5
  MaxCalls = 4
CHECK_DEADLOCK FALSE
SPECIFICATION Spec
INVARIANTS
  TypeOK
  HeadersInPlace
  FreedOnce
PROPERTIES
  ChainKept
  ReconcileSettles
  ChecksumCarried
  ErrorLeavesPacket

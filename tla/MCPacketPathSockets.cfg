CONSTANTS
  m1 = m1
  m2 = m2
  m3 = m3
  m4 = m4
  m5 = m5
  c1 = c1
  c2 = c2
  Mbuf = {m1, m2, m3, m4, m5}
  Core = {c1, c2}
  Pool <- Sockets
  Home <- HomeMixed
  RxPool <- AllOnZero
  CorePool <- Aligned
  TxKind <- ToPort
  KniCore = c1
  RingSize = 2
  BurstMax = 2
  U16 = 3
SPECIFICATION Spec
CHECK_DEADLOCK FALSE
INVARIANT UsedCountsAllocated

CONSTANTS
  m1 = m1
  m2 = m2
  m3 = m3
  m4 = m4
  Mbuf = {m1, m2, m3, m4}
  Node <- Nodes
  Kind <- NodeKind
  Up <- NodeUp
  Branches <- NodeBranches
  Catchall <- NodeCatchall
  Chain <- NodeChain
  Root = "last"
  RingSize = 1
  BurstMax = 2
SPECIFICATION FairSpec
INVARIANTS
  TypeOK
  OwnedOnce
  NothingLeftBehind
  GroupYields
  TransmitInOrder
  Accounting
PROPERTIES
  PathSpec
  RunEnds

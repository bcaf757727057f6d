CONSTANTS
  DataMax = 1
  AudioMax = 1
  Pushers = {p1, p2}
  Node = node
  Nobody = nobody
  Offers <- MCOffers
  MaxPushes = 3
SPECIFICATION Spec
INVARIANT NoLostWakeup
PROPERTY ImplementsInbox
SYMMETRY Symmetry
CHECK_DEADLOCK FALSE

CONSTANTS
  DataMax = 1
  AudioMax = 1
  Pushers = {p1, p2}
  Node = node
  Nobody = nobody
  Offers <- LiveOffers
  MaxPushes = 2
SPECIFICATION Spec
PROPERTIES ImplementsFairness PushReturns AcceptedLeaves
CHECK_DEADLOCK FALSE

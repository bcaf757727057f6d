CONSTANTS
  DataMax = 2
  AudioMax = 2
  Pushers = {p1, p2}
  Offers <- MCOffers
  MaxPushes = 4
SYMMETRY Symmetry
SPECIFICATION Spec
INVARIANTS AudioAccounted DownBounded LaneOrder NothingStale NothingLost
CHECK_DEADLOCK FALSE

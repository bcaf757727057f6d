CONSTANTS
  Programs <- AllPrograms
  Speech = 2
  Tracks = 2
SPECIFICATION Spec
INVARIANT TornDownInOrder
PROPERTIES IntentIsSilent SessionEnds
CHECK_DEADLOCK FALSE

CONSTANTS
  DataMax = 1
  AudioMax = 1
  N = 2
  Script <- Call
  Behaviours = {"relay", "hang"}
  MayCancel = TRUE
  ParentMayEnd = TRUE
  SetupMayFail = FALSE
  MaxRequests = 0
  MaxFaults = 0
SPECIFICATION Spec
INVARIANT AckedByAll
PROPERTIES CancelStops EndStops
CHECK_DEADLOCK FALSE

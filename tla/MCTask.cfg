CONSTANTS
  DataMax = 1
  AudioMax = 1
  N = 2
  Script <- Brief
  Behaviours = {"relay", "down", "fail", "panic"}
  MayCancel = TRUE
  ParentMayEnd = FALSE
  SetupMayFail = TRUE
  MaxRequests = 1
  MaxFaults = 1
SPECIFICATION Spec
INVARIANTS EndIsLast ArrivalOrder NilMeansDelivered CleanupLast ErrorReportedOnce
PROPERTY StoppedTaskRefuses
CHECK_DEADLOCK FALSE

CONSTANTS
  DataMax = 1
  AudioMax = 1
  Fans <- NestedFans
  Joins <- NestedJoins
  Procs = {"a"}
  HeadNode = "fan"
  Down <- InnerDown
  Up <- InnerUp
  BranchOf <- InnerBranch
  FanOf <- NestedFanOf
  Width <- InnerWidth
  Script <- BargeIn
  Behaviours = {"relay", "absorb", "fail"}
  MaxFaults = 1
SPECIFICATION Spec
INVARIANT ErrorsReportedOnce
PROPERTY WavesReleased
CHECK_DEADLOCK FALSE

CONSTANTS
  DataMax = 1
  AudioMax = 1
  Fans = {"fan"}
  Joins = {"join"}
  Procs = {"a", "b"}
  HeadNode = "fan"
  Down <- FlatDown
  Up <- FlatUp
  BranchOf <- FlatBranch
  FanOf <- OneFanOf
  Width <- OneWidth
  Script <- BargeIn
  Behaviours = {"relay", "side"}
  MaxFaults = 0
SPECIFICATION Spec
INVARIANTS WavesInOrder OncePerWave SyncPlaced WaveComplete
CHECK_DEADLOCK FALSE

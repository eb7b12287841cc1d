SPECIFICATION GateSpec
CONSTANTS
  Labels = {"bug", "feature", "docs"}
  Golden <- MCGolden
  Questions = 2
  Sweep <- MCSweep
  Files <- MCFiles
  Values = {5000, 9000}
INVARIANTS
  DeadServiceIsNoticed
  BetterNeverFails

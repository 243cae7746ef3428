SPECIFICATION BenchSpec
CONSTANTS
  Benches = {"replay", "encoder", "vendor", "runners"}
  Top = 64
  MaxRecorded = 32
  Plans <- MCPlans
  MaxBo = 8
  MaxTasks = 2
  MaxTries = 2
  Places <- MCPlaces
  Knobs <- MCKnobs
  NumFrames = 3
  Stages = 12
  Sizes <- MCSizes
  NumRuns = 4
  Bytes = {0, 17, 127, 128, 255}
  ZeroPoints <- MCZeroPoints
INVARIANTS
  ReplaysTheSame
  ShowsOwnOutput
  SuccessIsEveryFrame
  HardwareGetsTheFrame
  VerdictsHold
CHECK_DEADLOCK FALSE

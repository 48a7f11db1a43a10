CONSTANTS
  Payloads = {p1}
  ObsBytes = 2
  CommitBytes = 2
  SealBytes = 1
  ReserveBytes = 2
  MaxBytes = 10
  MaxU64 = 9
  MaxQuarantine = 2
  MaxIoErrors = 0
  MaxPowerLosses = 1
  TearableKinds = {"obs", "commit", "seal"}
SPECIFICATION Spec
INVARIANT AckedRecovered

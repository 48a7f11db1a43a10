CONSTANTS
  Payloads = {p1}
  ObsBytes = 2
  CommitBytes = 2
  SealBytes = 1
  ReserveBytes = 2
  MaxBytes = 12
  MaxU64 = 3
  MaxQuarantine = 1
  MaxIoErrors = 1
  MaxPowerLosses = 1
  TearableKinds = {"obs", "commit", "seal"}
CHECK_DEADLOCK FALSE
SPECIFICATION Spec
INVARIANT AckedRetained
INVARIANT CommittedGapFree
INVARIANT RecoveryIdempotent

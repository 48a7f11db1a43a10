\* Two I/O errors and one power loss; a commit record is whole or absent.
CONSTANTS
  Payloads = {p1, p2}
  ObsBytes = 2
  CommitBytes = 2
  SealBytes = 1
  ReserveBytes = 2
  MaxBytes = 16
  MaxU64 = 3
  MaxQuarantine = 1
  MaxIoErrors = 2
  MaxPowerLosses = 1
  TearableKinds = {"obs"}
SPECIFICATION CaptureSpec
INVARIANT NeverQuarantined
PROPERTY CaptureImplementsLog

SPECIFICATION Spec
CONSTANTS
  Tasks = {t1, t2}
  NoTask = NoTask
  MaxId = 3
  MinCount = 1
  InitialCount = 2
  MaxRetries = 1
  MaxReceipts = 1
  MaxBreaks = 1
SYMMETRY Symmetry
CONSTRAINT OneHardship
INVARIANT OneKeyPerId
INVARIANT ServedAreHeld
INVARIANT UploadedAreTracked
INVARIANT OnlyHeldAreSent
CHECK_DEADLOCK FALSE

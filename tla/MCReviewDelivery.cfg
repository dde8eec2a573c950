CHECK_DEADLOCK FALSE
SPECIFICATION Spec
CONSTANTS
  Events = {a, r}
  Regular = {r}
  SyncEvents = {a, r}
  Rejected = {}
  Unrecoverable = {}
  Flushers = {f1, f2}
  MaxCrashes = 1
INVARIANTS
  CompletedWasAccepted
  FinalIsBacked
  WorkIsExclusive
SYMMETRY FlusherSymmetry

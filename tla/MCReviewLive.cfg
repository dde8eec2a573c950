CHECK_DEADLOCK FALSE
SPECIFICATION FairSpec
CONSTANTS
  Events = {a, r}
  Regular = {r}
  SyncEvents = {a, r}
  Rejected = {}
  Unrecoverable = {}
  Flushers = {f1}
  MaxCrashes = 0
INVARIANTS
  OpenReviewHasOwner
PROPERTIES
  ReviewsOnlyImprove
  EveryRowIsReviewed
  LateFinalIsAdopted

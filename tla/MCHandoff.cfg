SPECIFICATION Spec
CONSTANTS
  Submissions <- MCSubmissions
  Callers = {c1, c2}
  Instances = {i1}
  BatchLimit = 2
  MaxStops = 1
  NoInstance = NoInstance
  NoSubmission = NoSubmission
INVARIANTS
  AcceptedIsDurable
  JournalIsReplayable
PROPERTIES
  ImplementsDurableAccept
SYMMETRY CallerSymmetry

SPECIFICATION FairSpec
CONSTANTS
  Submissions <- HonestSubmissions
  Callers = {c1, c2}
  Instances = {i1}
  BatchLimit = 1
  MaxStops = 1
  NoInstance = NoInstance
  NoSubmission = NoSubmission
PROPERTIES
  AcceptedReachesOutbox
  ReservationEnds

SPECIFICATION FairSpec
CONSTANTS
  Groups = {"g1", "g2", "g3"}
  Members = {"a", "b", "c"}
  Submissions <- MCSubmissions
  Workers = {w1, w2}
  BatchLimit = 2
  BadGroups = {"g3"}
  MayCrash = TRUE
  NoPolicy = NoPolicy
INVARIANTS
  FinalCoversEveryMember
  NoUnsupportedConfirmation
  NoStrandedEvidence
PROPERTIES
  ImplementsGroupJoin
  AnswersNeverGoBack
  CompleteGroupBecomesFinal
  MinimumGetsResult

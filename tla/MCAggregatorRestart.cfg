SPECIFICATION FairSpec
CONSTANTS
  Groups = {"g1", "g2", "g3"}
  Members = {"a", "b", "c"}
  Submissions <- HonestSubmissions
  Workers = {w1}
  BatchLimit = 2
  BadGroups = {}
  MayCrash = TRUE
  NoPolicy = NoPolicy
PROPERTIES
  RestartRecoversInflightGroups

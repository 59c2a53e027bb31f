SPECIFICATION FairSpec
CONSTANTS
  Dir <- MCDir
  Task = {"pipeline"}
  BootDir = "d1"
  ChanCap = 2
  MaxSaves = 2
  MaxRules = 2
CHECK_DEADLOCK FALSE
INVARIANTS
  NoChangeIsLost
  RulesChangeIsOnTheWay
PROPERTIES
  FollowsFeed
  ConfigTakesEffect
  RulesTakeEffect

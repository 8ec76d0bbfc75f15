\* A budget of seven values and a depth of three, which nested payloads exceed.
CONSTANTS
  normalizeKey <- Normal
  Budget = 7
  MaxDepth = 3
  Question <- Questions
  NoAnswer = NoAnswer
  NoId = NoId
SPECIFICATION Spec
INVARIANTS
  SecretsStay
  OnlySecretsLost
  EventReachesItsActor
  TreeShowsEveryChain
  PagesCover
CHECK_DEADLOCK FALSE

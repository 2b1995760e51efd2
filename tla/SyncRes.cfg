SPECIFICATION Spec
CONSTANTS
  Labels = {"c", "m", "n", "o", "r", "w", "x", "y", "z"}
  ZoneData <- MCZoneData
  Muddled <- MCMuddled
  MuddledReplies <- MCMuddledReplies
  Questions <- MCQuestions
  TTL = 2
  GlueTime = 1
  AgeTime = 1
  MaxDepth = 4
  LongThrottle = 2
  ShortThrottle = 1
  ManyTries = 2
  TimeoutTries = 1
  FailTries = 0
  MaxResolves = 2
  MaxLosses = 1
INVARIANTS
  OthersUnaffected
  AnswersTrue
  NotAskedAgain
PROPERTIES
  ResolvesEnd
CHECK_DEADLOCK FALSE

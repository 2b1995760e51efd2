SPECIFICATION FairSpec
CONSTANTS
  Threads = {t1, t2}
  NumThreads = 2
  OtherBackends = 2
  OverloadLength = 3
  ResetDivisor = 1
  CheckEvery = 2
  MaxQueueLength = 4
  MaxQuestions = 6
  MaxDeaths = 2
INVARIANTS
  TypeOK
  WakeupPerQuestion
  HandledOnce
PROPERTIES
  TakenUp
  
\* The process may exit, and the questions are bounded.
CHECK_DEADLOCK FALSE

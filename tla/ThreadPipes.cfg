SPECIFICATION FairPipesSpec
CONSTANTS
  NumThreads = 4
  Distributes = TRUE
  Capacity = 2
  MaxCalls = 2
  MaxQuestions = 8
INVARIANT OneAnswerEach
PROPERTY CallsEnd
\* nobody asks any more
CHECK_DEADLOCK FALSE

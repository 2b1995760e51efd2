SPECIFICATION Spec
CONSTANTS
  Label <- MCLabel
  Databases <- MCDatabases
  Securities <- MCSecurities
  Requests <- MCRequests
  Recursion = TRUE
  RootReferral = TRUE
  MaxRetargets = 2
  MaxQuestions = 1
INVARIANTS
  AnswersRight
  CacheRight
  DenialProved
PROPERTIES
  ChasesEnd
CHECK_DEADLOCK FALSE

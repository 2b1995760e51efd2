SPECIFICATION Spec
CONSTANTS
  Clients = {c1, c2, c3}
  Recursing = {c1, c2}
  ClientIds = {7}
  Questions = {qa, qb}
  N = 2
  Timeout = 1
  Mask <- MCMask
  MaxTime = 4
  MaxAsks = 3
INVARIANTS
  TypeOK
  AnsweredAsAsked
PROPERTIES
  WaitingQuestionsKept
  ForwardsQuestions

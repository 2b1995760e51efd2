SPECIFICATION FairSpec
CONSTANTS
  MaxThreads = 3
  Questions = {qa, qb}
  Ids = {1, 2}
  MaxFd = 2
  Timeout = 1
  MaxAsks = 4
INVARIANTS
  OneOutstanding
  SocketsOwned
  ResentToAll
PROPERTY QueriesEnd
\* every thread may end
CHECK_DEADLOCK FALSE

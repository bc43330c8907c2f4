CONSTANTS
  x1 = x1
  x2 = x2
  None = None
  Transports = {x1, x2}
  CallLists <- MCCallLists
  SearchLimit = 1
  MaxBatches = 3
  MaxVersion = 2
SPECIFICATION FairSpec
INVARIANT TypeOK
INVARIANT AnswersGoHome
INVARIANT StateTellsTheChain
PROPERTY CancelledStaysSilent
PROPERTY ImplementsQueue
PROPERTY ReachedOrCancelled
CHECK_DEADLOCK FALSE

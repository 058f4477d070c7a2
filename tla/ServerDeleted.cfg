SPECIFICATION FairSpec
CONSTANTS
  Client <- MCClient
  None = "none"
  Candidates = 2
  Descriptors = 3
  Backlog = 2
PROPERTY DeleteReturns
\* The constructor may throw, and the destructor may have returned.
CHECK_DEADLOCK FALSE

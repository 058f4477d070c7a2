SPECIFICATION MCSpec
CONSTANTS
  Object <- MCObject
  Thread <- MCThread
  Unread <- MCUnread
  None = "none"
  Inherited = "inherited"
  Candidates = 2
  Descriptors = 2
INVARIANTS TypeOK ResourcesAccounted OwnConnection
PROPERTY DestructorReturns
\* Every Client may be gone.
CHECK_DEADLOCK FALSE

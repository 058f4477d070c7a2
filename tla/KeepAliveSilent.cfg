SPECIFICATION FairSpec
CONSTANTS
  Endpoint <- MCLone
  Peer <- MCRemote
  Connected <- MCServer
  Script <- MCScript
  Client <- MCNone
  Destroyed <- MCLone
  Fragment = FALSE
  BufferSize = 96
  StartTime = 2
  MaxAge = 8
  MaxQueue = 3
  MaxLag = 0
INVARIANTS DetectionBound SupervisorEnds
PROPERTIES WindsDown DestroyReturns

SPECIFICATION Spec
CONSTANTS
  Endpoint <- MCServer
  Peer <- MCRemote
  Connected <- MCServer
  Script <- MCAnnounced
  Client <- MCNone
  Destroyed <- MCNone
  Fragment = TRUE
  BufferSize = 24
  StartTime = 2
  MaxAge = 0
  MaxQueue = 1
INVARIANT MisreadIsFinal

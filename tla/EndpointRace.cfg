SPECIFICATION Spec
CONSTANTS
  Endpoint <- MCClient
  Peer <- MCRemote
  Connected <- MCClient
  Script <- MCEager
  Client <- MCClient
  Destroyed <- MCClient
  Fragment = FALSE
  BufferSize = 24
  StartTime = 1
  MaxAge = 3
  MaxQueue = 2
INVARIANTS TypeOK SendsFront
PROPERTY ImplementsLifecycle

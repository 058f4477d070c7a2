SPECIFICATION Spec
CONSTANTS
  Endpoint <- MCPair
  Peer <- MCPeer
  Connected <- MCPair
  Script <- MCNone
  Client <- MCClient
  Destroyed <- MCClient
  Fragment = FALSE
  BufferSize = 24
  StartTime = 0
  MaxAge = 0
  MaxQueue = 1
INVARIANT OnePusher
PROPERTY ImplementsPipe

SPECIFICATION TimedSpec
CONSTANTS
  Endpoint <- MCPair
  Peer <- MCPeer
  Connected <- MCPair
  Script <- MCNone
  Client <- MCClient
  Destroyed <- MCClient
  Fragment = FALSE
  BufferSize = 96
  StartTime = 2
  MaxAge = 8
  MaxQueue = 3
  MaxLag = 0
INVARIANT SendFailureIsReported

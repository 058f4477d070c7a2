SPECIFICATION TimedSpec
CONSTANTS
  Endpoint <- MCPair
  Peer <- MCPeer
  Connected <- MCPair
  Script <- MCNone
  Client <- MCClient
  Destroyed <- MCNone
  Fragment = FALSE
  BufferSize = 96
  StartTime = 3
  MaxAge = 12
  MaxQueue = 3
  MaxLag = 2
INVARIANTS NoFalseTimeout SendGap Agreement

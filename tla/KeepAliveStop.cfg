SPECIFICATION FairSpec
CONSTANTS
  Endpoint <- MCPair
  Peer <- MCPeer
  Connected <- MCPair
  Script <- MCNone
  Client <- MCClient
  Destroyed <- MCServer
  Fragment = FALSE
  BufferSize = 96
  StartTime = 2
  MaxAge = 6
  MaxQueue = 3
  MaxLag = 0
PROPERTIES BothSupervised DestroyReturns ImplementsPipe

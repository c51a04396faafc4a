SPECIFICATION TLSSpec
CONSTANTS
  h1 = h1
  h2 = h2
  Handshake <- MCHandshake
  RootsLimit = 1
  MaxVersion = 2
PROPERTIES
  HandshakeEnds
CHECK_DEADLOCK FALSE

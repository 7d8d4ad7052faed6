SPECIFICATION FairSpec
CONSTANTS
  maxSelfConnectRetries = 2
INVARIANTS
  ConnIsReady
  SocketsClosed
  VerdictBeatsContext
PROPERTIES
  DialEnds

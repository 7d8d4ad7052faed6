SPECIFICATION FairSendSpec
CONSTANTS
  s1 = s1
  Senders <- OneSender
  SetValues <- SomeDeadline
INVARIANTS
  SendLeavesNoTrace
  ShutdownReachesParked
  ErrorIsTrue
PROPERTIES
  WokenSendReturns

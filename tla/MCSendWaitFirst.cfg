SPECIFICATION SendSpec
CONSTANTS
  s1 = s1
  Senders <- OneSender
  SetValues <- AnyDeadline
INVARIANTS
  DeadlineNeverContext

SPECIFICATION FairSpec
CONSTANTS
  r1 = r1
  r2 = r2
  s1 = s1
  Senders <- OneSender
  Readers <- TwoReaders
  MaxArrivals = 1
INVARIANTS
  VerdictAgreed
PROPERTIES
  NothingLeftUnread
  GracefulEndIsReal
  EndedReadReturns

SPECIFICATION FairSpec
CONSTANTS
  c1 = c1
  c2 = c2
  Callers <- TwoCallers
INVARIANTS
  ChannelsClosedOnce
  NilCloseEndsAssoc
  NoWaitOnUntouchedAssoc
PROPERTIES
  ImplementsDescriptor
  EveryCallReturns

SPECIFICATION FairSpec
CONSTANTS
  Makers = {p1, p2}
  Assocs = {a1}
  Handed = h
  Nothing = Nothing
INVARIANTS OneOwner EndLosesNothing LiveConnIsWhole
PROPERTY CloseEndsAccept

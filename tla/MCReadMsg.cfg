SPECIFICATION FairSpec
CONSTANTS
  r1 = r1
  r2 = r2
  Readers <- OneReader
  Calls = {"ReadMsg"}
  Kinds <- AllKinds
  Forms = {"whole"}
  MaxMessages = 2
  MsgLen = 2
  MaxNotes = 3
  Maxes = {1, 2}
  QueueLimit = 1
PROPERTIES
  NotesReachHandler
  InterruptedReturns

SPECIFICATION Spec
CONSTANTS
  r1 = r1
  r2 = r2
  Readers <- TwoReaders
  Calls <- AllCalls
  Kinds = {"PartialDelivery", "Restart", "Complete", "Untyped"}
  Forms <- AllForms
  MaxMessages = 2
  MsgLen = 2
  MaxNotes = 1
  Maxes = {1, 2}
  QueueLimit = 1
SYMMETRY ReaderSymmetry
INVARIANTS
  MessageWhole
PROPERTIES
  NoOrphanPiece
  AbortReported

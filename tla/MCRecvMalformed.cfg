CONSTANTS
  r1 = r1
  r2 = r2
  Readers <- OneReader
  Calls = {"Read"}
  Kinds = {"PartialDelivery"}
  Forms = {"whole", "malformed"}
  MaxMessages = 2
  MsgLen = 2
  MaxNotes = 1
  Maxes = {1}
  QueueLimit = 1
SPECIFICATION Spec
PROPERTY AbandonedReported

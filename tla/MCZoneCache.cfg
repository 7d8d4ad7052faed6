SPECIFICATION PartsSpec
CONSTANTS
  Parts = {"zones"}
  g1 = g1
  g2 = g2
  a1 = a1
  a2 = a2
  Calls <- SetupCalls
  AuthMaxChunks = 3
  NumChunkTypes = 4
  MaxControl = 2
  Callers <- Goroutines
  Starts <- SocketStarts
  Snds = {"x", "y"}
  Policies = {"ttl"}
  Limits = {1, 2}
  Changes <- OneOrAll
  Addrs <- Local
  Lists <- BindLists
  Peers <- Remote
  ZoneOf <- Zones
  Holders <- HeldBy
  Lookers <- Goroutines
  Nobody = "no one"
  Names <- ZoneNames
  Number <- Decimals
  TTL = 2
  ReadTicks = 2
  MaxTime = 4
  MaxIndex = 2
  Readers <- Goroutines
  Sizes <- ClassSizes
  Slots = 1
  First = 1
  Chunk = 2
  Maxes = {3, 5}
  Header = 2
  Prefix = 3
  NoteLimit = 5
  Declares <- Lengths
  MaxTotal = 6
  Peelers <- Goroutines
  Assocs <- TwoAssocs
  Pieces = 2
  MaxRecords = 2
  FreeLimit = 2
SYMMETRY Symmetry
INVARIANTS
  FoundAtOnce

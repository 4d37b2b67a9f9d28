CONSTANTS
  Paths = {"two", "one", "empty", "large", "missing", "longname"}
  Name <- MCName
  Data <- MCData
  Missing = {"missing"}
  MaxName = 2
  MaxArgs = 3
  Chunk = 2
  SizeLimit = 6
  Crc <- MCCrc
  CardFails = TRUE
SPECIFICATION FairSpec
INVARIANTS TypeOK GotIsSent ShortBatchShows
PROPERTIES SendEnds
CHECK_DEADLOCK FALSE

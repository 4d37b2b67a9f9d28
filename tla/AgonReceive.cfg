CONSTANTS
  Counts = 4
  Batch <- MCBatch
  Packet = 2
  IntBytes = 2
  UintBytes = 1
  NameSize = 5
  BufferSize = 2
  Crc <- MCCrc
  Resolve <- MCResolve
  Dirs <- MCDirs
  Strewn <- MCStrewn
  OwnFiles <- MCOwnFiles
  DiskMayFail = TRUE
  MaxOverruns = 2
SPECIFICATION FairSpec
INVARIANTS TypeOK LatestByteSeen VerifiedIsSent CountIsKept OnlyLastUnverified OthersKept AllReceived
PROPERTIES ReceiveEnds
CHECK_DEADLOCK FALSE

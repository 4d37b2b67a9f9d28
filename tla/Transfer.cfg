CONSTANTS
  Block128 = 4
  Block1K = 5
  SeqCount = 4
  Crc <- MCCrc
  MaxRetry = 3
  MaxErrors = 3
  MaxFiles = 2
  HostFails = FALSE
  Uninit = 99
  Files <- TwoFiles
  Noise <- Control
  Troubles <- Losses
SPECIFICATION FairSpec
INVARIANTS NeverAhead  EndsOnClosingBlock
PROPERTIES ImplementsDelivery OrphanGivesUp HeardDoneIsWritten SenderEnds
CHECK_DEADLOCK FALSE

CONSTANTS
  Block128 = 4
  Block1K = 5
  SeqCount = 8
  Crc <- MCCrc
  MaxRetry = 3
  MaxErrors = 3
  MaxFiles = 2
  HostFails = FALSE
  Uninit = 99
  Files <- TwoFiles
  Noise <- Control
  Troubles <- Wild
SPECIFICATION Spec
INVARIANTS  WholeFilesWritten
CHECK_DEADLOCK FALSE

CONSTANTS
  Block128 = 2
  Block1K = 3
  SeqCount = 4
  Crc <- MCCrc
  MaxRetry = 2
  MaxErrors = 2
  MaxFiles = 2
  HostFails = TRUE
  Uninit = 99
  Units <- MCUnits
  MaxLine = 7
SPECIFICATION HSpec
INVARIANTS TypeOK StoreSound CancelledByTwo DiskFromSession
PROPERTIES AckedIsStored FilesOnlyGrow
CHECK_DEADLOCK FALSE

CONSTANTS
  Block128 = 2
  Block1K = 5
  SeqCount = 4
  Crc <- MCCrc
  MaxRetry = 3
  Files <- MCFiles
  Answers <- MCAnswers
  MaxQueue = 3
SPECIFICATION FairSpec
INVARIANTS TypeOK NumberMatchesOffset EotAfterAll
PROPERTIES SessionEnds
CHECK_DEADLOCK FALSE

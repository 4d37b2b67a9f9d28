CONSTANTS
  Paths <- AllWords
  Basename <- AfterSlash
  Content <- MCContent
  Unreadable <- NotReadable
  MaxArgs = 3
  MaxFiles = 2
  HostFails = TRUE
  Uninit = 99
  NameMax = 2
  SizeDigits = 3
  SizeCount = 16
  HeaderSize = 12
  MaxNameLength = 2
  Scratch = 3
  MaxMatches = 2
  Hosts = {"linux", "macos", "agon"}
  Words <- AllWords
  MaxWords = 4
  Directories <- Receivable
  Attachments <- MCAttachments
  Speeds <- MCSpeeds
SPECIFICATION ProgramSpec
INVARIANTS OneFileHeld NoSpillBehindLargest AllOrNothing FilesInOrder AutodetectedIsOnly HeaderArrives
CHECK_DEADLOCK FALSE

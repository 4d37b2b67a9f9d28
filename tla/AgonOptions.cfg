CONSTANTS
  Paths <- FewWords
  Basename <- AfterSlash
  Content <- MCContent
  Unreadable = {}
  MaxArgs = 3
  MaxFiles = 2
  HostFails = FALSE
  Uninit = 99
  NameMax = 2
  SizeDigits = 3
  SizeCount = 16
  HeaderSize = 12
  MaxNameLength = 2
  Scratch = 3
  MaxMatches = 2
  Hosts = {"agon"}
  Words <- FewWords
  MaxWords = 3
  Directories = {}
  Attachments <- MCAttachments
  Speeds <- MCSpeeds
SPECIFICATION ProgramSpec
INVARIANTS OperandsComeLast
CHECK_DEADLOCK FALSE

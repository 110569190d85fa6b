SPECIFICATION InstallSpec
CONSTANTS
  NumEntries = 26
  KeyMax = 30
  TypeSize = 1
  ValueMax = 96
  PageSize = 256
  Pages = 16
  KeyLen <- MCKeyLen
  Values <- MCValues
  Defaults <- MCDefaults
  Puts <- MCPuts
  CutErases <- MCCutErases
  NoTable = NoTable
  Erased = Erased
  Torn = Torn
  PAYLOAD_SIZE = 2
  MaxPayload = 3
  FLASH_END_ADDR = 52
  IGNORE_ADDR_FROM = 90
  ERASE_START_ADDRESS = 24
  ERASE_END_ADDRESS = 51
  SectorFirst = 40
  SectorLast = 47
  Files <- MCMerged
  FLASH_BASE_ADDR = 0
  DocumentedEnd = 24
  BreakOffs = {1, 22}
  NoImage = NoImage
INVARIANTS
  MergedAsDocumented

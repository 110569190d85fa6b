CONSTANTS
  tab1 = tab1
  tab2 = tab2
  NoTable = NoTable
  NoTab = NoTab
  Broken = Broken
  Tabs <- MCTabs
  Values <- MCValues
  Defaults <- MCDefaults
  Offered <- MCOffered
  Literal <- MCLiteral
  Lower <- MCLower
  Trim <- MCTrim
  Found <- MCFound
  MaxActions = 5
SPECIFICATION Spec
INVARIANTS
  PagesTypeOK
  PortsDiffer
  ResetIsSaved
PROPERTY
  SavesWhatItShows
SYMMETRY Tab
CHECK_DEADLOCK FALSE

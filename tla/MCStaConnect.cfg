CONSTANTS
  NumRetries = 3
  CheckEvery = 2
  Timeout = 6
SPECIFICATION FairSpec
INVARIANTS
  StaTypeOK
  OkHadAddress
  GivesUpOnlyWhenDown
PROPERTY Decided
\* The model ends when the web server starts.
CHECK_DEADLOCK FALSE

SPECIFICATION FairFirmwareSpec
CONSTANTS
  NumEntries = 11
  KeyMax = 30
  TypeSize = 1
  ValueMax = 96
  PageSize = 256
  Pages = 6
  KeyLen <- MCKeyLen
  Values <- MCValues
  Defaults <- MCDefaults
  Puts <- MCPuts
  CutErases <- MCCutErases
  NoTable = NoTable
  Erased = Erased
  Torn = Torn
  NumRetries = 3
  Forms <- MCForms
  Refused <- MCRefused
  Countries <- MCCountries
  CountryOf <- MCCountryOf
  Clipped <- MCClipped
  NoAp = NoAp
INVARIANTS
  FirmwareTypeOK
  BootFeatureSticks
  StaCredentialsTogether
  ServedTableIsDurable
  
PROPERTY
  Booted

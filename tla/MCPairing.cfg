CONSTANTS
  kb = kb
  combo = combo
  pad = pad
  None = None
  NoTable = NoTable
  Devices <- MCDevices
  MinorBits <- MCMinorBits
  KnownAs <- MCKnownAs
  PowerFails = TRUE
SPECIFICATION Spec
INVARIANTS
  PairingTypeOK
  KeysAreNamed
  NamesHaveKeys

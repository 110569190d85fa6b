CONSTANTS
  kb = kb
  combo = combo
  pad = pad
  None = None
  NoTable = NoTable
  Devices <- MCDevices
  MinorBits <- MCMinorBits
  KnownAs <- MCKnownAs
  PowerFails = FALSE
SPECIFICATION Spec
PROPERTY StopStops

SPECIFICATION Spec
CONSTANTS
  Clients = {c1, c2}
  c1 = c1
  c2 = c2
  NoMac = NoMac
  MaxIp = 3
  Unit = 3
  Units = 4
  LeaseTime = 2
  Remembered = {1}
  TimePasses = TRUE
SYMMETRY ClientSymmetry
INVARIANTS
  TypeOK
  Exclusive
  BoundIsRecorded
  NoHoarding

SPECIFICATION FairSpec
CONSTANTS
  Clients = {c1, c2}
  c1 = c1
  c2 = c2
  NoMac = NoMac
  MaxIp = 3
  Unit = 1
  Units = 4
  LeaseTime = 1
  Remembered = {1, 3}
  TimePasses = FALSE
PROPERTY
  EveryoneServed

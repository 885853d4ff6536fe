\* Two packets hold the header page and more; two sectors, two updates in a row.
CONSTANTS
  old = old
  new = new
  phone = phone
  mesh = mesh
  Images = {old, new}
  Factory = old
  Version <- MCVersion
  BankLen = 8
  ImageLen = 5
  HeaderLen = 3
  SectorLen = 4
  PacketLen = 2
  Links = {phone, mesh}
  Phone = phone
  ResendFirst = FALSE
  MaxVersion = 3
  MaxDisturb = 2
  Erased = Erased
  Junk = Junk
  NoCmd = NoCmd
SPECIFICATION HFairSpec
INVARIANTS BootsIntact GuardIsTimed UndisturbedInstalls
PROPERTIES RunningUntouched Closes
CHECK_DEADLOCK FALSE

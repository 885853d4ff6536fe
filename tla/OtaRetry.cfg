\* A peer that also repeats packets of the header page.
CONSTANTS
  old = old
  new = new
  phone = phone
  mesh = mesh
  Images = {old, new}
  Factory = old
  Version <- MCVersion
  BankLen = 3
  ImageLen = 3
  HeaderLen = 2
  SectorLen = 3
  PacketLen = 1
  Links = {phone, mesh}
  Phone = phone
  ResendFirst = TRUE
  MaxVersion = 3
  MaxDisturb = 3
  Erased = Erased
  Junk = Junk
  NoCmd = NoCmd
SPECIFICATION HSpec
INVARIANT KeptFits
CHECK_DEADLOCK FALSE

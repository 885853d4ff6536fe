SPECIFICATION FairLightSpec
CONSTANTS
  Threshold = 1
  StoreDelay = 1
  ProvTime = 1
  Quick = 1
  CntMod = 2
  Lightnesses = {0, 65535}
  Temps <- temps
  Colours <- colours
  Pulse = 99
  Restarts = {"power", "expired"}
INVARIANTS Obeys Shows
PROPERTIES Breathes

SPECIFICATION SpeakerSpec
CONSTANTS
  Files <- files
  FrameLen = 2
  BufLen = 8
  Low = 3
  Prebuffer = 2
  FrameSamples = 3
  Half = 2
  Modulus = 35
  CntMod = 8
  MaxMsgs = 3
  Blocks = {b1, b2}
  BlockNum = 3
INVARIANTS RightData Credit
PROPERTIES Ends Echo

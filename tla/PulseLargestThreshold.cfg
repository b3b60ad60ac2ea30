SPECIFICATION HSpec
CONSTANTS
  CharMod = 4
  UlongMod = 3
  iABufferSize = 1
  MaxRun = 6
  RawValues <- MCRawValues
  Limits <- MCLimits
  Thresholds <- MCAllThresholds
PROPERTY LongRunIsCounted

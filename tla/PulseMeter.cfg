SPECIFICATION HSpec
CONSTANTS
  CharMod = 4
  UlongMod = 3
  iABufferSize = 3
  MaxRun = 6
  RawValues <- MCRawValues
  Limits <- MCLimits
  Thresholds <- MCThresholds
INVARIANTS TypeOK OnePulsePerRun CountedRunIsHeld RunsTracked RingHoldsRecent
PROPERTY ImplementsMeter

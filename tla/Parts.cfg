SPECIFICATION Spec
CONSTANTS
  HeapShapes <- MCHeapShapes
  BufferCap = 255
  MicrosMod = 30
  PerMilli = 4
  MillisMod = 16
  TickGap = 12
  MaxWraps = 3
  FifoSize = 3
  Threshold = 1
  NearlyFull = 2
  TxBufferSize = 4
  ByteMod = 8
  Names <- MCNames
  Addresses = {"a1"}
  Datagrams <- MCDatagrams
  MaxWaits = 2
  MaxBlocks = 3
INVARIANTS
  DivisorNeverZero BufferIsWhole WrapsAreSeen BytesInOrder LostOnlyInRace
  BlocksAccounted NetworkIsSetUp OneDatagramHeld EachQuestionAnswered
PROPERTIES AllocationEnds MillisAdvances PortGoesOn AccessPointStays WaitEnds
CHECK_DEADLOCK FALSE

SPECIFICATION Spec
CONSTANTS
  EepromSize = 200
  MaxFaults = 0
  Requests <- LongURL
  StackTails <- MCTails
  CutPoints <- MCCuts
  FactoryFlash <- MCFlash
PROPERTY GeneralSaveKeepsWiFi

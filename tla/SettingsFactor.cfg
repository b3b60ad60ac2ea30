SPECIFICATION Spec
CONSTANTS
  EepromSize = 200
  MaxFaults = 0
  Requests <- DefaultFactor
  StackTails <- MCTails
  CutPoints <- MCCuts
  FactoryFlash <- MCFlash
PROPERTY FactorIsKept

SPECIFICATION Spec
CONSTANTS
  EepromSize = 200
  MaxFaults = 0
  Requests <- ZeroForms
  StackTails <- MCTails
  CutPoints <- MCCuts
  FactoryFlash <- MCFlash
PROPERTY ZeroDelayIsKept

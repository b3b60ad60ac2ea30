SPECIFICATION Spec
CONSTANTS
  EepromSize = 200
  MaxFaults = 1
  Requests <- TwoForms
  StackTails <- MCTails
  CutPoints <- OneCut
  FactoryFlash <- MCFlash
PROPERTY ImplementsFieldStore

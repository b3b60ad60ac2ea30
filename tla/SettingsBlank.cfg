SPECIFICATION Spec
CONSTANTS
  EepromSize = 200
  MaxFaults = 0
  Requests <- MCForms
  StackTails <- MCTails
  CutPoints <- MCCuts
  FactoryFlash <- MCFlash
INVARIANT BlankFlashUsesDefaultAP

SPECIFICATION Spec
CONSTANTS
  EepromSize = 200
  MaxFaults = 1
  Requests <- MCForms
  StackTails <- MCTails
  CutPoints <- MCCuts
  FactoryFlash <- MCFlash
INVARIANTS TypeOK SettingsAreStored RestartKeepsSettings
PROPERTY SavedIsLoaded

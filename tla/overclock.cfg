SPECIFICATION Spec
CONSTANTS
  Rates = {1, 2, 3, 4}
  Vsels = {1, 2, 3, 4}
  Needs <- MCNeeds
  OrigRate = 2
  OrigVsel = 2
  Low = 1
  DRIVER_DEFAULT_RATE = 3
  DRIVER_DEFAULT_VSEL = 3
  MaxLiberties = 1
INVARIANT TypeOK
INVARIANT Powered
PROPERTY Restores
INVARIANT OriginalOrDefault

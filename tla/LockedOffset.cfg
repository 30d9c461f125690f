SPECIFICATION Spec
CONSTANTS
  InitialNodes = 3
  Types <- SomeTypes
  Amounts = {4}
  MaxNodes = 3
INVARIANT LockedNeverShift

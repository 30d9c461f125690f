SPECIFICATION Spec
CONSTANTS
  InitialNodes = 3
  Types <- SomeTypes
  Amounts = {4}
  MaxNodes = 3
INVARIANT TypeOK
INVARIANT LocksHonoured
INVARIANT BlockFitsNodes
INVARIANT DeleteKeepsLocked
INVARIANT ShrinkMovesNothing
INVARIANT RetypeKeepsSelection
PROPERTY SelectionEndsByHand
PROPERTY ExportChangesNothing

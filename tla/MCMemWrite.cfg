SPECIFICATION Spec
CONSTANTS
  w1 = w1
  w2 = w2
  Writers = {w1, w2}
  Pages = {0, 1}
  PageSize = 1
  Values = {0, 1}
  Zero = 0
  Protections <- SplitProtections
  MayRefuse = TRUE
  MaxCalls = 3
SYMMETRY Symmetry
INVARIANTS TypeOK StaleOnlyUntilFlush ProtectionsReturn
PROPERTY ImplementsWriteService
CHECK_DEADLOCK FALSE

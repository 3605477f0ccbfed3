\* Two objects over two bytes: nested, side by side or overlapping in part.
CONSTANTS
  o1 = o1
  o2 = o2
  Objects = {o1, o2}
  Top = 2
  Base = 2
  MaxSize = 2
  Image <- FullBytes
  LoadBases <- OneImage
SPECIFICATION Spec
SYMMETRY Symmetry
CONSTRAINT StillOrderly
INVARIANTS TypeOK NestedPatches
CHECK_DEADLOCK FALSE

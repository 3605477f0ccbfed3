\* One object is enough: a save that is refused, then Restore.
CONSTANTS
  o1 = o1
  o2 = o2
  Objects = {o1}
  Top = 2
  Base = 2
  MaxSize = 2
  Image <- FullBytes
  LoadBases <- OneImage
SPECIFICATION Spec
PROPERTY RestoresOriginal
CHECK_DEADLOCK FALSE

\* Two buttons, or one made again while the one it follows is fading, with two
\* hide animations of one button under way; three menus, one the constructor's
\* and two opened by a gesture; a controller of the host; two close animations
\* of one menu under way.
CONSTANTS
  Ids = {fly, save}
  Objects = {o1, o2}
  None = None
  MaxHides = 2
  Menus = {m1, m2, m3}
  Host = host
  Root = root
  Nobody = nobody
  MaxCloses = 2
  Nothing = nothing
SPECIFICATION Interface
INVARIANTS Types ShownStays NoLockOut OneMenu RowsTellTruth OffMeansOff
PROPERTIES OnlyKeptToggle GivenUpGoes ClosedGoes LoadsLastSave
CHECK_DEADLOCK FALSE

SPECIFICATION Spec
CONSTANTS
  t1 = t1
  t2 = t2
  a = a
  b = b
  f = f
  g = g
  Threads = {t1, t2}
  Addr = {a, b}
  Func = {f, g}
  NoAddr = NoAddr
  NoFunc = NoFunc
  NumSlots = 3
  MaxCount = 2
  HwBreakpoints = 1
  MayFail = TRUE
  MaxCalls = 2
SYMMETRY Symmetry
INVARIANTS TypeOK SettledAgreement UnhookDisarms CleanHitSurvives
PROPERTY CleanLanding
CHECK_DEADLOCK FALSE

SPECIFICATION PanelFairSpec
CONSTANTS
  w1 = w1
  w2 = w2
  p1 = p1
  t1 = t1
  None = None
  Window = {w1, w2}
  Phone = {p1}
  Tier = {"default"}
  Tab = {t1}
  MaxRefreshes = 1
CHECK_DEADLOCK FALSE
INVARIANTS
  OneOpenWindow
PROPERTY StartedIsShown

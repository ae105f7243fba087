SPECIFICATION Spec
CONSTANTS
  f1 = f1
  f2 = f2
  c1 = c1
  c2 = c2
  Window = 3
  MaxSn = 6
  SnInitials = {0, 2, 3, 4, 6}
  Flows = {f1, f2}
  Cores = {c1, c2}
  Rss <- RssInner
INVARIANT NoReplay
CHECK_DEADLOCK FALSE

SPECIFICATION FrontendSpec
CONSTANTS
  Sessions = {s1, s2}
  Requests = {r1, r2}
  NoSession = NoSession
  NoRequest = NoRequest
  MaxChunks = 1
  Disturbances = {"refusal", "error", "lateness", "batch", "haste", "delete", "disconnect", "loss"}
  Polls = {p1, p2, p3, p4}
  Slots = 2
  Targets = {g1, g2}
  NoTarget = NoTarget
  Fetches = {f1, f2, f3}
  t1 = t1  t2 = t2  n1 = n1  n2 = n2
  Types = {t1, t2}
  Namespaces = {n1, n2}
  Window = 2
  Threshold = 2
  MaxTime = 2
  MaxFaults = 2
  Logs <- PagingLogs
  LogTargets = {{left}, {left, right}}
  Merged = {{left, right}}
  PageSize = 2
  Second = 3
  MaxLines = 6
  LastTime = 6
  MaxPages = 2
  Orderly = TRUE
  StreamLogs <- MergeLogs
  ChannelSize = 2
  left = left  right = right
INVARIANTS PartsTyped ChatSound BudgetExact QuietIsCurrent LinesExact
PROPERTIES RoundsEnd StepsSound
CHECK_DEADLOCK FALSE

SPECIFICATION FairSpec
CONSTANTS
  Configs = {a, b}
  Ports = {p, q}
  Runs = {r1, r2}
  Callers = {t1, t2}
  NoPort = NoPort
  NoRun = NoRun
  NoConfig = NoConfig
  Pods = {a}
  KeepAlive = {b}
  Slow = {a}
  Racy = {}
  MaxRetries = 1
INVARIANTS TypeOK ForwardsExact StatusHonest
PROPERTIES CallsReturn
CHECK_DEADLOCK FALSE

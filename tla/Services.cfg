SPECIFICATION ServicesSpec
CONSTANTS
  Callers = {r1, r2, r3}
  Cooldown = 2
  MaxClock = 4
  Forwards = {f1, f2, f3}
  Users = {c1, c2}
  Contexts = {x1, x2}
  NoContext = NoContext
  Troubles = {"overlap", "crash", "denied", "redirect"}
  Conns = {k1, k2}
  NoConn = NoConn
  Emitters = {e1, e2}
  Terminals = {s1}
  QueueSize = 1
  MaxEvents = 2
  Clusters <- AllClusters
  NodeLimit = 2
  ExpansionLimit = 2
  Clicks = {1, 2}
  Selections <- TwoThenThree
  Backups = {1, 2}
  NoLoop = NoLoop
  NoBackup = NoBackup
SYMMETRY Symmetry
INVARIANTS ServicesTyped ExecAuthSound ServersSound GraphSound BulkSound
CHECK_DEADLOCK FALSE

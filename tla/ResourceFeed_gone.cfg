SPECIFICATION Spec
CONSTANTS
  u1 = u1  u2 = u2  n1 = n1  ns1 = ns1
  Uids = {u1}
  Names = {n1}
  NameOf <- OneObject
  Scopes = {ns1}
  ScopeOf <- OneObjectScope
  NoEvent = NoEvent
  MaxChanges = 3
  MaxFaults = 2
  MaxRefresh = 0
  Faults = {"close", "gone"}
INVARIANTS RestartIsReconciled
CHECK_DEADLOCK FALSE

SPECIFICATION FairSpec
CONSTANTS
  u1 = u1  u2 = u2  n1 = n1  ns1 = ns1
  Uids = {u1}
  Names = {n1}
  NameOf <- OneObject
  Scopes = {ns1}
  ScopeOf <- OneObjectScope
  NoEvent = NoEvent
  MaxChanges = 2
  MaxFaults = 2
  MaxRefresh = 1
  Faults = {"close", "expired", "list"}
PROPERTIES Reconciles
CHECK_DEADLOCK FALSE

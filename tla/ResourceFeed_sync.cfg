SPECIFICATION Spec
CONSTANTS
  u1 = u1  u2 = u2  n1 = n1  ns1 = ns1
  Uids = {u1, u2}
  Names = {n1}
  NameOf <- SameName
  Scopes = {ns1}
  ScopeOf <- OneScope
  NoEvent = NoEvent
  MaxChanges = 3
  MaxFaults = 2
  MaxRefresh = 0
  Faults = {"close", "expired", "refused", "gone", "error", "list"}
INVARIANTS TypeOK RowsExact
CHECK_DEADLOCK FALSE

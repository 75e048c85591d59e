SPECIFICATION RequestsSpec
CONSTANTS
  Lists = {view}
  Tabs = {tab}
  Requests = {r1, r2, r3}
  NoRequest = NoRequest
  NoClient = NoClient
  Orderly = TRUE
INVARIANT FailureIsNoEmptyList
CHECK_DEADLOCK FALSE

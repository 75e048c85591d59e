SPECIFICATION RequestsFairSpec
CONSTANTS
  Lists = {view}
  Tabs = {tab}
  Requests = {r1, r2, r3}
  NoRequest = NoRequest
  NoClient = NoClient
  Orderly = TRUE
INVARIANTS RequestsTyped AccountsExact AnswersCurrent
PROPERTY CallsReturn
CHECK_DEADLOCK FALSE

SPECIFICATION FairSpec
CONSTANTS
  Contexts = {a, b}
  Names = {n}
  Switches = {s1}
  Requests = {r1, r2}
  NoContext = NoContext
  NoRequest = NoRequest
  MaxEvents = 1
  Orderly = TRUE
INVARIANTS TypeOK SelectionSound QuietIsLive
PROPERTY IndicatorsEnd
CHECK_DEADLOCK FALSE

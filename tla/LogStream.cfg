SPECIFICATION Spec
CONSTANTS
  Streams = {s1, s2}
  NoStream = NoStream
  Length <- MCLength
  MaxFaults = 1
  Prompt = {s1}
  Settled = TRUE
INVARIANTS TypeOK LogExact NothingLeftBehind
CHECK_DEADLOCK FALSE

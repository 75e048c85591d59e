SPECIFICATION FairSpec
CONSTANTS
  Keys = {k1, k2}
  NoEvent = NoEvent
  Event <- MCEvent
  MaxVer = 3
  InitialIntervals = {0, 500}
  InitialBatch = 1
  MinBatch = 1
  MaxBatch = 2
  FrameRequests = {0, 16}
  BatchRequests = {3}
  MaxFired = 2
  MaxWire = 2
INVARIANTS TypeOK BufferSound
PROPERTIES ImplementsFrameBuffer BufferDrains
CHECK_DEADLOCK FALSE
